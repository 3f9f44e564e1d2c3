---------------------------- MODULE WeightProofs ----------------------------
(***************************************************************************)
(* Proofs about the weight transfers.                                      *)
(***************************************************************************)
EXTENDS NCCLEngine, ProofLemmas, SequenceTheorems

-----------------------------------------------------------------------------
(***************************************************************************)
(* What FlattenSeq and Chosen make of a sequence that grows at its end, or *)
(* is put together of two.                                                 *)
(***************************************************************************)
Associates(a, b, c) == (a \o b) \o c = a \o (b \o c)

LEMMA Association ==
  ASSUME NEW S, NEW a \in Seq(S), NEW b \in Seq(S), NEW c \in Seq(S)
  PROVE  Associates(a, b, c)
BY ConcatAssociative DEF Associates

FlattenBody(f, i, seqs) == IF i = 1 THEN seqs[i] ELSE f[i - 1] \o seqs[i]

Flattening(f, seqs, n) == f = [i \in 1 .. n |-> FlattenBody(f, i, seqs)]

LEMMA FlattenExists ==
  ASSUME NEW seqs, NEW n \in Nat
  PROVE  \E f : Flattening(f, seqs, n)
<1> DEFINE G == {m \in Nat : \E f : Flattening(f, seqs, m)}
<1>1. 0 \in G
  <2> DEFINE f == [i \in 1 .. 0 |-> <<>>]
  <2>1. f = [i \in 1 .. 0 |-> FlattenBody(f, i, seqs)]
    OBVIOUS
  <2> QED
    BY <2>1 DEF Flattening
<1>2. ASSUME NEW m \in Nat, m \in G PROVE m + 1 \in G
  <2>1. PICK f : f = [i \in 1 .. m |-> FlattenBody(f, i, seqs)]
    BY <1>2 DEF Flattening
  <2> DEFINE g == [i \in 1 .. m + 1 |-> IF i <= m THEN f[i] ELSE FlattenBody(f, i, seqs)]
  <2>2. ASSUME NEW i \in 1 .. m + 1 PROVE g[i] = FlattenBody(g, i, seqs)
    <3>1. CASE i = 1
      BY <2>1, <3>1 DEF FlattenBody
    <3>2. CASE i # 1
      <4>1. i - 1 \in 1 .. m + 1 /\ i - 1 <= m
        BY <2>2, <3>2
      <4>2. g[i - 1] = f[i - 1]
        BY <4>1
      <4>3. g[i] = FlattenBody(f, i, seqs)
        BY <2>1, <2>2
      <4> HIDE DEF g
      <4> QED
        BY <3>2, <4>2, <4>3 DEF FlattenBody
    <3> QED
      BY <3>1, <3>2
  <2>3. g = [i \in 1 .. m + 1 |-> FlattenBody(g, i, seqs)]
    BY <2>2
  <2> HIDE DEF g
  <2> QED
    BY <2>3 DEF Flattening
<1>3. n \in G
  <2> HIDE DEF G
  <2> QED
    BY <1>1, <1>2, NatInductionOnSet
<1> QED
  BY <1>3

FlattenOf(seqs, n) == CHOOSE f : Flattening(f, seqs, n)

LEMMA FlattenUnfolds ==
  ASSUME NEW S, NEW seqs \in Seq(S), seqs # <<>>
  PROVE  FlattenSeq(seqs) = FlattenOf(seqs, Len(seqs))[Len(seqs)]
<1>1. Len(seqs) # 0
  BY EmptySeq
<1>2. FlattenSeq(seqs) = (CHOOSE f : f = [i \in 1 .. Len(seqs) |->
                             IF i = 1 THEN seqs[i] ELSE f[i - 1] \o seqs[i]])[Len(seqs)]
  BY <1>1 DEF FlattenSeq
<1> QED
  BY <1>2 DEF FlattenOf, Flattening, FlattenBody

LEMMA FlattenNothing == FlattenSeq(<<>>) = <<>>
BY DEF FlattenSeq

LEMMA FlattenPrefix ==
  ASSUME NEW S, NEW seqs \in Seq(Seq(S)), NEW more \in Seq(Seq(S)),
         NEW n \in Nat, NEW m \in Nat, n <= m, n <= Len(seqs), m <= Len(more),
         \A i \in 1 .. n : seqs[i] = more[i]
  PROVE  \A i \in 1 .. n : /\ FlattenOf(more, m)[i] = FlattenOf(seqs, n)[i]
                          /\ FlattenOf(seqs, n)[i] \in Seq(S)
<1> DEFINE f == FlattenOf(seqs, n)
           g == FlattenOf(more, m)
           G == {i \in 0 .. n : i # 0 => g[i] = f[i] /\ f[i] \in Seq(S)}
<1>1. f = [i \in 1 .. n |-> FlattenBody(f, i, seqs)]
  BY FlattenExists DEF FlattenOf, Flattening
<1>2. g = [i \in 1 .. m |-> FlattenBody(g, i, more)]
  BY FlattenExists DEF FlattenOf, Flattening
<1> HIDE DEF f, g
<1>3. 0 \in G
  OBVIOUS
<1>4. ASSUME NEW i \in 0 .. n - 1, i \in G PROVE i + 1 \in G
  <2>1. i + 1 \in 1 .. n /\ i + 1 \in 1 .. m /\ i + 1 \in 1 .. Len(seqs)
    BY SMTT(20)
  <2>2. seqs[i + 1] \in Seq(S) /\ more[i + 1] = seqs[i + 1]
    BY <2>1
  <2>3. f[i + 1] = FlattenBody(f, i + 1, seqs) /\ g[i + 1] = FlattenBody(g, i + 1, more)
    BY <1>1, <1>2, <2>1
  <2>4. CASE i = 0
    BY <2>1, <2>2, <2>3, <2>4 DEF FlattenBody
  <2>5. CASE i # 0
    <3>1. (i + 1) - 1 = i /\ i + 1 # 1
      BY <2>5
    <3>2. f[i + 1] = f[i] \o seqs[i + 1] /\ g[i + 1] = g[i] \o seqs[i + 1]
      BY <2>2, <2>3, <3>1 DEF FlattenBody
    <3>3. g[i] = f[i] /\ f[i] \in Seq(S)
      BY <1>4, <2>5
    <3>4. f[i + 1] \in Seq(S)
      BY <2>2, <3>2, <3>3, ConcatProperties
    <3>5. g[i + 1] = f[i + 1]
      BY <3>2, <3>3
    <3> QED
      BY <2>1, <3>4, <3>5
  <2> QED
    BY <2>4, <2>5
<1>5. 0 .. n \subseteq G
  <2> HIDE DEF G
  <2> QED
    BY <1>3, <1>4, UpToInduction
<1> QED
  BY <1>5 DEF f, g

LEMMA FlattenTyped ==
  ASSUME NEW S, NEW seqs \in Seq(Seq(S))
  PROVE  FlattenSeq(seqs) \in Seq(S)
<1>1. CASE seqs = <<>>
  BY <1>1, FlattenNothing, EmptySeq
<1>2. CASE seqs # <<>>
  <2>1. Len(seqs) \in Nat /\ Len(seqs) \in 1 .. Len(seqs)
    BY <1>2, EmptySeq
  <2> DEFINE n == Len(seqs)
  <2>2. \A i \in 1 .. n : /\ FlattenOf(seqs, n)[i] = FlattenOf(seqs, n)[i]
                          /\ FlattenOf(seqs, n)[i] \in Seq(S)
    <3>1. n \in Nat /\ n <= n /\ n <= Len(seqs)
      BY <2>1
    <3>2. \A i \in 1 .. n : seqs[i] = seqs[i]
      OBVIOUS
    <3> HIDE DEF n
    <3> QED
      BY <3>1, <3>2, FlattenPrefix
  <2> QED
    BY <1>2, <2>2, FlattenUnfolds
<1> QED
  BY <1>1, <1>2

LEMMA FlattenAppend ==
  ASSUME NEW S, NEW seqs \in Seq(Seq(S)), NEW x \in Seq(S)
  PROVE  FlattenSeq(Append(seqs, x)) = FlattenSeq(seqs) \o x
<1> DEFINE more == Append(seqs, x)
           n == Len(seqs)
           g == FlattenOf(more, n + 1)
<1>1. /\ n \in Nat /\ more \in Seq(Seq(S)) /\ more # <<>> /\ Len(more) = n + 1
      /\ more[n + 1] = x /\ \A i \in 1 .. n : more[i] = seqs[i]
  BY AppendProperties
<1>2. FlattenSeq(more) = g[n + 1]
  BY <1>1, FlattenUnfolds
<1> HIDE DEF more, n
<1>3. g = [i \in 1 .. n + 1 |-> FlattenBody(g, i, more)]
  <2>1. n + 1 \in Nat
    BY <1>1
  <2>2. \E f : Flattening(f, more, n + 1)
    BY <2>1, FlattenExists
  <2> QED
    BY <2>2 DEF FlattenOf, Flattening
<1> HIDE DEF g
<1>4. CASE n = 0
  <2>1. seqs = <<>>
    BY <1>4, EmptySeq DEF n
  <2>2. g[1] = x
    BY <1>1, <1>3, <1>4 DEF FlattenBody
  <2>3. FlattenSeq(seqs) \o x = x
    BY <2>1, FlattenNothing, ConcatEmptySeq
  <2> QED
    BY <1>2, <1>4, <2>2, <2>3 DEF more
<1>5. CASE n # 0
  <2>1. (n + 1) - 1 = n /\ n + 1 # 1 /\ n + 1 \in 1 .. n + 1 /\ n \in 1 .. n
    BY <1>1, <1>5
  <2>2. g[n + 1] = g[n] \o x
    BY <1>1, <1>3, <2>1 DEF FlattenBody
  <2>3. g[n] = FlattenOf(seqs, n)[n]
    <3>1. n + 1 \in Nat /\ n <= n + 1 /\ n <= Len(seqs) /\ n + 1 <= Len(more)
      BY <1>1 DEF n
    <3>2. \A i \in 1 .. n : seqs[i] = more[i]
      BY <1>1
    <3>3. \A i \in 1 .. n : /\ FlattenOf(more, n + 1)[i] = FlattenOf(seqs, n)[i]
                            /\ FlattenOf(seqs, n)[i] \in Seq(S)
      BY <1>1, <3>1, <3>2, FlattenPrefix
    <3> QED
      BY <2>1, <3>3 DEF g
  <2>4. FlattenSeq(seqs) = FlattenOf(seqs, n)[n]
    BY <1>5, FlattenUnfolds DEF n
  <2> QED
    BY <1>2, <2>2, <2>3, <2>4 DEF more
<1> QED
  BY <1>4, <1>5

LEMMA FlattenOne ==
  ASSUME NEW S, NEW x \in Seq(S)
  PROVE  FlattenSeq(<<x>>) = x
<1>1. Append(<<>>, x) = <<x>> /\ <<>> \in Seq(Seq(S))
  OBVIOUS
<1>2. FlattenSeq(<<x>>) = <<>> \o x
  BY <1>1, FlattenAppend, FlattenNothing
<1> QED
  BY <1>2, ConcatEmptySeq

LEMMA FlattenConcat ==
  ASSUME NEW S, NEW s \in Seq(Seq(S)), NEW t \in Seq(Seq(S))
  PROVE  FlattenSeq(s \o t) = FlattenSeq(s) \o FlattenSeq(t)
<1> DEFINE upto(n) == SubSeq(t, 1, n)
           G == {n \in 0 .. Len(t) :
                   FlattenSeq(s \o upto(n)) = FlattenSeq(s) \o FlattenSeq(upto(n))}
<1>1. 0 \in G
  <2>1. upto(0) = <<>>
    BY SubSeqEmpty
  <2>2. FlattenSeq(s) \in Seq(S)
    BY FlattenTyped
  <2>3. s \o <<>> = s /\ FlattenSeq(s) \o <<>> = FlattenSeq(s)
    BY <2>2, ConcatEmptySeq
  <2>4. 0 \in 0 .. Len(t)
    OBVIOUS
  <2> HIDE DEF upto
  <2>5. FlattenSeq(s \o upto(0)) = FlattenSeq(s) \o FlattenSeq(upto(0))
    BY <2>1, <2>3, FlattenNothing, Zenon
  <2> QED
    BY <2>4, <2>5
<1>2. ASSUME NEW n \in 0 .. Len(t) - 1, n \in G PROVE n + 1 \in G
  <2>1. PICK u : u = upto(n)
    OBVIOUS
  <2>2. PICK x : x = t[n + 1]
    OBVIOUS
  <2>3. x \in Seq(S) /\ u \in Seq(Seq(S))
    <3>1. \A i \in 1 .. n : t[i] \in Seq(S)
      OBVIOUS
    <3> QED
      BY <2>1, <2>2, <3>1, SubSeqProperties
  <2>4. upto(n + 1) = Append(u, x)
    BY <2>1, <2>2
  <2>5. s \o Append(u, x) = Append(s \o u, x)
    BY <2>3
  <2>6. s \o u \in Seq(Seq(S))
    BY <2>3, ConcatProperties
  <2>7. FlattenSeq(Append(s \o u, x)) = FlattenSeq(s \o u) \o x
    BY <2>3, <2>6, FlattenAppend
  <2>8. FlattenSeq(s \o u) = FlattenSeq(s) \o FlattenSeq(u)
    BY <1>2, <2>1
  <2>9. FlattenSeq(Append(u, x)) = FlattenSeq(u) \o x
    BY <2>3, FlattenAppend
  <2>10. FlattenSeq(s) \in Seq(S) /\ FlattenSeq(u) \in Seq(S)
    BY <2>3, FlattenTyped
  <2>11. (FlattenSeq(s) \o FlattenSeq(u)) \o x = FlattenSeq(s) \o (FlattenSeq(u) \o x)
    <3>1. Associates(FlattenSeq(s), FlattenSeq(u), x)
      BY <2>3, <2>10, Association, Zenon
    <3> QED
      BY <3>1, Zenon DEF Associates
  <2>12. FlattenSeq(s \o Append(u, x)) = FlattenSeq(s) \o FlattenSeq(Append(u, x))
    BY <2>5, <2>7, <2>8, <2>9, <2>11, Zenon
  <2>13. n + 1 \in 0 .. Len(t)
    OBVIOUS
  <2> HIDE DEF upto
  <2> QED
    BY <2>4, <2>12, <2>13
<1>3. 0 .. Len(t) \subseteq G
  <2> DEFINE N == Len(t)
  <2>1. N \in Nat /\ \A n \in 0 .. N - 1 : n \in G => n + 1 \in G
    BY <1>2, LenProperties
  <2> HIDE DEF G, N
  <2>2. 0 .. N \subseteq G
    BY <1>1, <2>1, UpToInduction
  <2> QED
    BY <2>2 DEF N
<1>4. Len(t) \in G /\ upto(Len(t)) = t
  BY <1>3, SubSeqFull
<1> QED
  BY <1>4

-----------------------------------------------------------------------------
\* A weight is its round and its place in the model of that round.
Weights == {w \in Nat \X Nat : Place[w[2]] \in {"fits", "padded", "none", "mismatch"}}

Sifted(ws) == [i \in DOMAIN ws |-> IF Wanted(ws[i]) THEN <<ws[i]>> ELSE <<>>]

LEMMA SiftedTyped ==
  ASSUME NEW ws \in Seq(Weights)
  PROVE  Sifted(ws) \in Seq(Seq(Weights)) /\ Len(Sifted(ws)) = Len(ws)
<1>1. DOMAIN ws = 1 .. Len(ws) /\ Len(ws) \in Nat /\ \A i \in 1 .. Len(ws) : ws[i] \in Weights
  BY LenProperties, ElementOfSeq
<1>2. \A w \in Weights : (IF Wanted(w) THEN <<w>> ELSE <<>>) \in Seq(Weights)
  OBVIOUS
<1>3. Sifted(ws) \in [1 .. Len(ws) -> Seq(Weights)]
  BY <1>1, <1>2 DEF Sifted
<1> QED
  BY <1>1, <1>3

LEMMA ChosenTyped ==
  ASSUME NEW ws \in Seq(Weights)
  PROVE  Chosen(ws) \in Seq(Weights)
BY SiftedTyped, FlattenTyped DEF Chosen, Sifted

LEMMA ChosenNothing == Chosen(<<>>) = <<>>
<1>1. Sifted(<<>>) = <<>>
  BY DEF Sifted
<1> QED
  BY <1>1, FlattenNothing DEF Chosen, Sifted

LEMMA ChosenOne ==
  ASSUME NEW w \in Weights
  PROVE  Chosen(<<w>>) = IF Wanted(w) THEN <<w>> ELSE <<>>
<1>1. Sifted(<<w>>) = <<IF Wanted(w) THEN <<w>> ELSE <<>>>>
  BY DEF Sifted
<1>2. (IF Wanted(w) THEN <<w>> ELSE <<>>) \in Seq(Weights)
  OBVIOUS
<1> QED
  BY <1>1, <1>2, FlattenOne DEF Chosen, Sifted

LEMMA ChosenConcat ==
  ASSUME NEW s \in Seq(Weights), NEW t \in Seq(Weights)
  PROVE  Chosen(s \o t) = Chosen(s) \o Chosen(t)
<1>1. /\ s \o t \in Seq(Weights) /\ Len(s \o t) = Len(s) + Len(t)
      /\ \A i \in 1 .. Len(s) + Len(t) :
           (s \o t)[i] = IF i <= Len(s) THEN s[i] ELSE t[i - Len(s)]
  BY ConcatProperties
<1>2. /\ Sifted(s) \in Seq(Seq(Weights)) /\ Sifted(t) \in Seq(Seq(Weights))
      /\ Sifted(s \o t) \in Seq(Seq(Weights))
      /\ Len(Sifted(s)) = Len(s) /\ Len(Sifted(t)) = Len(t)
      /\ Len(Sifted(s \o t)) = Len(s) + Len(t)
  BY <1>1, SiftedTyped
<1>3. Sifted(s \o t) = Sifted(s) \o Sifted(t)
  <2>1. /\ Sifted(s) \o Sifted(t) \in Seq(Seq(Weights))
        /\ Len(Sifted(s) \o Sifted(t)) = Len(s) + Len(t)
        /\ \A i \in 1 .. Len(s) + Len(t) :
             (Sifted(s) \o Sifted(t))[i] = IF i <= Len(s) THEN Sifted(s)[i] ELSE Sifted(t)[i - Len(s)]
    <3> DEFINE a == Sifted(s)
               b == Sifted(t)
    <3> HIDE DEF a, b
    <3>1. a \in Seq(Seq(Weights)) /\ b \in Seq(Seq(Weights)) /\ Len(a) = Len(s) /\ Len(b) = Len(t)
      BY <1>2 DEF a, b
    <3>2. /\ a \o b \in Seq(Seq(Weights)) /\ Len(a \o b) = Len(a) + Len(b)
          /\ \A i \in 1 .. Len(a) + Len(b) : (a \o b)[i] = IF i <= Len(a) THEN a[i] ELSE b[i - Len(a)]
      BY <3>1, ConcatProperties
    <3> QED
      BY <3>1, <3>2 DEF a, b
  <2>2. ASSUME NEW i \in 1 .. Len(s) + Len(t)
        PROVE  Sifted(s \o t)[i] = (Sifted(s) \o Sifted(t))[i]
    <3>1. DOMAIN (s \o t) = 1 .. Len(s) + Len(t)
      BY <1>1, LenProperties
    <3>2. Sifted(s \o t)[i] = IF Wanted((s \o t)[i]) THEN <<(s \o t)[i]>> ELSE <<>>
      BY <3>1 DEF Sifted
    <3>3. CASE i <= Len(s)
      <4>1. i \in DOMAIN s
        BY <3>3
      <4>2. Sifted(s)[i] = IF Wanted(s[i]) THEN <<s[i]>> ELSE <<>>
        BY <4>1 DEF Sifted
      <4> QED
        BY <1>1, <2>1, <3>2, <3>3, <4>2
    <3>4. CASE ~(i <= Len(s))
      <4>1. i - Len(s) \in DOMAIN t
        BY <3>4
      <4>2. Sifted(t)[i - Len(s)] = IF Wanted(t[i - Len(s)]) THEN <<t[i - Len(s)]>> ELSE <<>>
        BY <4>1 DEF Sifted
      <4> QED
        BY <1>1, <2>1, <3>2, <3>4, <4>2
    <3> QED
      BY <3>3, <3>4
  <2> QED
    BY <1>2, <2>1, <2>2, SeqEqual
<1> QED
  BY <1>2, <1>3, FlattenConcat DEF Chosen, Sifted
-----------------------------------------------------------------------------
(***************************************************************************)
(* One connection.  Everything a round sends is at any moment in exactly   *)
(* one place on its way: not yet packed, in the bucket being packed, in a  *)
(* bucket being sent, received, about to be copied into the model, loaded. *)
(***************************************************************************)
Tensors == [w : Weights, at : Nat, n : Nat]

Metas == [tensors : Seq(Tensors), last : BOOLEAN]

Bytes == [1 .. BucketSize -> Weights \cup {Nil}]

SndPcs == {"idle", "pack", "flush", "sync", "done", "raised"}

RcvPcs == {"idle", "wait", "raw", "built", "done"}

\* Type invariant; the streams are typed by what may be in them, below.
EngineTypeOK ==
  /\ direct \in BOOLEAN
  /\ model \in Seq(Nat) /\ model \in Models \cup {<<>>}
  /\ snd \in [pc : SndPcs, round : Nat, next : Nat \ {0}, pack : Buffers,
              prev : Buffers \cup {Nil}, meta : Seq(Tensors), offset : Nat]
  /\ sMeta \in [Buffers -> Metas] /\ rMeta \in [Buffers -> Metas]
  /\ sData \in [Buffers -> Bytes] /\ rData \in [Buffers -> Bytes]
  /\ sendEvent \in [Buffers -> [made : Nat, reached : Nat]]
  /\ rcv \in [pc : RcvPcs, buf : Buffers]
  /\ goals \in Seq(Seq(Weights)) /\ loaded \in Seq(Weights)
  /\ reported \in Nat /\ faults \in Nat

\* The bytes of a tensor are where its header says.
Written(bytes, t) ==
  \A x \in (t.at + 1 .. t.at + t.n) \cap (1 .. BucketSize) : bytes[x] = t.w

AllWritten(bytes, ts) == \A i \in DOMAIN ts : Written(bytes, ts[i])

CopyIn(t, b) == [op |-> "copy", w |-> t.w, buf |-> b, at |-> t.at, n |-> t.n]

CopyOut(t, b) == [op |-> "copy", buf |-> b, t |-> t]

\* What the two NCCL streams still have to do of a bucket, after n steps are left.
ToSend(b, n) ==
  CASE n = 0 -> <<>>
    [] n = 1 -> <<[op |-> "event", buf |-> b]>>
    [] n = 2 -> <<[op |-> "data", buf |-> b], [op |-> "event", buf |-> b]>>
    [] OTHER -> <<[op |-> "meta", buf |-> b], [op |-> "data", buf |-> b],
                  [op |-> "event", buf |-> b]>>

ToReceive(b, n) ==
  CASE n = 0 -> <<>>
    [] n = 1 -> <<[op |-> "data", buf |-> b]>>
    [] OTHER -> RecvPair(b)

HeadOp(s) == IF s = <<>> THEN "nothing" ELSE Head(s).op

\* The header under way, and the one the receiver holds and has not acted upon.
HeaderSent == HeadOp(sNccl) = "meta"

Unsent == IF HeaderSent THEN sMeta[Head(sNccl).buf].tensors ELSE <<>>

HasHeader == rcv.pc = "wait" /\ HeadOp(rNccl) # "meta"

RawLeft ==
  rcv.pc = "raw" /\ (rNccl = <<>> => Place[rMeta[0].tensors[1].w[2]] # "fits")

Fresh == IF HasHeader \/ RawLeft THEN rMeta[rcv.buf].tensors ELSE <<>>

Ids(ts) == [i \in DOMAIN ts |-> ts[i].w]

Copied == [i \in DOMAIN rDefault |-> rDefault[i].t.w]

\* The weights of this round from the i-th.
From(i) == [k \in 1 .. Len(model) + 1 - i |-> <<snd.round, i + k - 1>>]

Unpacked == IF snd.next <= Len(model) THEN From(snd.next) ELSE <<>>

\* All of it in order, the next to be loaded first.
SenderLine(u, p, r) == u \o (p \o r)

Line(c, f, u, p, r) == c \o (f \o SenderLine(u, p, r))

Pending == Line(Copied, Ids(Fresh), Ids(Unsent), Ids(snd.meta), Unpacked)

Outgoing == SenderLine(Ids(Unsent), Ids(snd.meta), Unpacked)

\* The last bucket of a round is the receiver's; it is still the sender's.
LastHere == rcv.pc = "built" \/ (HasHeader /\ rMeta[rcv.buf].last)

SenderMid == snd.pc \in {"pack", "flush", "raised"} \/ (snd.pc = "sync" /\ HeaderSent)

\* Nothing is lost, repeated or out of order.
Flow == loaded \o Chosen(Pending) = FlattenSeq(goals)

RoundsInStep ==
  /\ Len(goals) = snd.round
  /\ snd.round = reported + (IF LastHere THEN 1 ELSE 0) + (IF SenderMid THEN 1 ELSE 0)
  /\ ~SenderMid => Outgoing = <<>>
  /\ SenderMid => goals # <<>> /\ goals[Len(goals)] = Chosen(From(1))
  /\ SenderMid /\ LastHere => Outgoing = From(1)

\* The default stream of the receiver.
CopiesSafe ==
  /\ \A i \in DOMAIN rDefault :
       \E t \in Tensors, b \in Buffers :
         /\ rDefault[i] = CopyOut(t, b) /\ Written(rData[b], t)
         /\ rcv.pc = "built" \/ (rcv.pc = "wait" /\ (direct \/ b # rcv.buf))
  /\ rDefault \in Seq([op : {"copy"}, buf : Buffers, t : Tensors])

\* The default stream of the sender: copies into the bucket it packs, and at the end
\* of a bucket the wait for the other one.
SendEventIs(b, left) == sendEvent[b].made = sendEvent[b].reached + left

WaitFor(b) == [op |-> "wait", buf |-> b, n |-> sendEvent[b].made]

PackingSafe ==
  /\ \A i \in DOMAIN sDefault :
       \/ \E j \in DOMAIN snd.meta : sDefault[i] = CopyIn(snd.meta[j], snd.pack)
       \/ /\ i = Len(sDefault) /\ snd.pc = "flush" /\ snd.prev # Nil
          /\ sDefault[i] = WaitFor(snd.prev)
  /\ \A j \in DOMAIN snd.meta :
       /\ snd.meta[j].at + snd.meta[j].n <= snd.offset
       /\ \A i \in 1 .. j - 1 : snd.meta[i].at + snd.meta[i].n <= snd.meta[j].at
       /\ \/ Written(sData[snd.pack], snd.meta[j])
          \/ \E i \in DOMAIN sDefault : sDefault[i] = CopyIn(snd.meta[j], snd.pack)
  /\ snd.pc = "flush" /\ sNccl # <<>> =>
       sDefault # <<>> /\ sDefault[Len(sDefault)] = WaitFor(snd.prev)
  /\ snd.pc \in {"idle", "sync", "done"} => sDefault = <<>> /\ snd.meta = <<>>
  /\ DOMAIN sDefault = 1 .. Len(sDefault) /\ Len(sDefault) \in Nat

\* Buckets.
BucketsInOrder ==
  /\ rcv.pc # "raw"
  /\ Len(sNccl) \in 0 .. 3 /\ sNccl = ToSend(snd.prev, Len(sNccl))
  /\ Len(rNccl) \in 0 .. 2 /\ rNccl = ToReceive(rcv.buf, Len(rNccl))
  /\ sNccl # <<>> => snd.prev \in Buffers
  /\ snd.prev # Nil => snd.prev = 1 - snd.pack
  /\ snd.pc \in {"idle", "done"} => sNccl = <<>>
  /\ snd.pc = "sync" => snd.next > Len(model)
  /\ \A b \in Buffers : SendEventIs(b, IF b = snd.prev /\ sNccl # <<>> THEN 1 ELSE 0)
  /\ rcv.pc \in {"idle", "built", "done"} => rNccl = <<>>
  /\ rcv.pc \in {"idle", "done"} => rDefault = <<>>
  /\ Len(rNccl) = 1 <=> Len(sNccl) = 2
  /\ HeaderSent => (sMeta[snd.prev].last <=> snd.pc = "sync")
  /\ Len(sNccl) = 3 => AllWritten(sData[snd.prev], sMeta[snd.prev].tensors)
  /\ Len(sNccl) = 2 => AllWritten(sData[snd.prev], rMeta[rcv.buf].tensors)
  /\ rcv.pc = "wait" /\ rNccl = <<>> => AllWritten(rData[rcv.buf], rMeta[rcv.buf].tensors)

\* Weights on their own.
OneTensor(m) == Len(m.tensors) = 1 /\ ~m.last

RawAhead == \/ rcv.pc = "wait" /\ rNccl = <<>> /\ ~rMeta[0].last
            \/ rcv.pc = "raw" /\ rNccl # <<>>

DirectInOrder ==
  /\ rcv.buf = 0 /\ snd.meta = <<>> /\ sDefault = <<>> /\ snd.pc # "flush"
  /\ \/ sNccl = <<>>
     \/ sNccl = <<[op |-> "meta", buf |-> 0]>> /\ sMeta[0] = [tensors |-> <<>>, last |-> TRUE]
        /\ snd.pc = "sync"
     \/ /\ OneTensor(sMeta[0]) /\ snd.pc \in {"pack", "raised"}
        /\ sNccl = <<[op |-> "meta", buf |-> 0], [op |-> "raw", w |-> sMeta[0].tensors[1].w]>>
     \/ /\ sNccl = <<[op |-> "raw", w |-> rMeta[0].tensors[1].w]>>
        /\ RawAhead /\ snd.pc \in {"pack", "raised"}
  /\ RawAhead => HeadOp(sNccl) = "raw"
  /\ RawAhead \/ rcv.pc = "raw" => OneTensor(rMeta[0])
  /\ LastHere => rMeta[0].tensors = <<>>
  /\ snd.pc \in {"idle", "done"} => sNccl = <<>>
  /\ snd.pc = "sync" => snd.next > Len(model)
  /\ rcv.pc = "wait" => rNccl \in {<<>>, <<[op |-> "meta", buf |-> 0]>>}
  /\ rcv.pc = "raw" => /\ rNccl \in {<<>>, <<[op |-> "raw", into |-> Place[rMeta[0].tensors[1].w[2]]]>>}
                       /\ rDefault = <<>>
                       /\ rNccl = <<>> /\ Place[rMeta[0].tensors[1].w[2]] # "fits" =>
                            Written(rData[0], rMeta[0].tensors[1])
  /\ rcv.pc \in {"idle", "built", "done"} => rNccl = <<>>
  /\ rcv.pc \in {"idle", "done"} => rDefault = <<>>

InStep ==
  /\ EngineTypeOK /\ RoundsInStep /\ Flow /\ CopiesSafe
  /\ direct => DirectInOrder
  /\ ~direct => BucketsInOrder /\ PackingSafe

-----------------------------------------------------------------------------
(* How a line of weights moves on. *)

LEMMA NoneBefore ==
  ASSUME NEW s \in Seq(Weights)
  PROVE  <<>> \o s = s /\ s \o <<>> = s
BY ConcatEmptySeq

LEMMA Joined ==
  ASSUME NEW s \in Seq(Weights), NEW t \in Seq(Weights)
  PROVE  s \o t \in Seq(Weights)
BY ConcatProperties

LEMMA LineTyped ==
  ASSUME NEW c \in Seq(Weights), NEW f \in Seq(Weights), NEW u \in Seq(Weights), NEW p \in Seq(Weights),
         NEW r \in Seq(Weights)
  PROVE  Line(c, f, u, p, r) \in Seq(Weights)
BY Joined DEF Line, SenderLine

LEMMA MovePack ==
  ASSUME NEW c \in Seq(Weights), NEW f \in Seq(Weights), NEW u \in Seq(Weights), NEW p \in Seq(Weights),
         NEW r \in Seq(Weights), NEW w \in Seq(Weights)
  PROVE  Line(c, f, u, p \o w, r) = Line(c, f, u, p, w \o r)
<1>1. Associates(p, w, r)
  BY Association
<1> QED
  BY <1>1 DEF Line, SenderLine, Associates

LEMMA MovePackOut ==
  ASSUME NEW u \in Seq(Weights), NEW p \in Seq(Weights), NEW r \in Seq(Weights),
         NEW w \in Seq(Weights)
  PROVE  SenderLine(u, p \o w, r) = SenderLine(u, p, w \o r)
<1>1. Associates(p, w, r)
  BY Association
<1> QED
  BY <1>1 DEF Associates, SenderLine

LEMMA MoveSend ==
  ASSUME NEW c \in Seq(Weights), NEW f \in Seq(Weights), NEW p \in Seq(Weights), NEW r \in Seq(Weights)
  PROVE  Line(c, f, p, <<>>, r) = Line(c, f, <<>>, p, r)
<1>1. <<>> \o r = r /\ p \o r \in Seq(Weights)
  BY NoneBefore, Joined
<1>2. <<>> \o (p \o r) = p \o r
  BY <1>1, NoneBefore
<1> QED
  BY <1>1, <1>2 DEF Line, SenderLine

LEMMA MoveSendOut ==
  ASSUME NEW p \in Seq(Weights), NEW r \in Seq(Weights)
  PROVE  SenderLine(p, <<>>, r) = SenderLine(<<>>, p, r)
<1>1. <<>> \o r = r /\ p \o r \in Seq(Weights)
  BY NoneBefore, Joined
<1> QED
  BY <1>1, NoneBefore DEF SenderLine

LEMMA MoveSendOne ==
  ASSUME NEW c \in Seq(Weights), NEW f \in Seq(Weights), NEW w \in Seq(Weights), NEW r \in Seq(Weights)
  PROVE  Line(c, f, w, <<>>, r) = Line(c, f, <<>>, <<>>, w \o r)
<1>1. <<>> \o r = r /\ w \o r \in Seq(Weights)
  BY NoneBefore, Joined
<1>2. <<>> \o (w \o r) = w \o r
  BY <1>1, NoneBefore
<1> QED
  BY <1>1, <1>2 DEF Line, SenderLine

LEMMA MoveSendOneOut ==
  ASSUME NEW w \in Seq(Weights), NEW r \in Seq(Weights)
  PROVE  SenderLine(w, <<>>, r) = SenderLine(<<>>, <<>>, w \o r)
<1>1. <<>> \o r = r /\ w \o r \in Seq(Weights)
  BY NoneBefore, Joined
<1> QED
  BY <1>1, NoneBefore DEF SenderLine

LEMMA MoveBeginOut ==
  ASSUME NEW r \in Seq(Weights)
  PROVE  SenderLine(<<>>, <<>>, r) = r
BY NoneBefore DEF SenderLine

LEMMA MoveTransfer ==
  ASSUME NEW c \in Seq(Weights), NEW u \in Seq(Weights), NEW p \in Seq(Weights), NEW r \in Seq(Weights)
  PROVE  Line(c, u, <<>>, p, r) = Line(c, <<>>, u, p, r)
<1>1. p \o r \in Seq(Weights) /\ u \o (p \o r) \in Seq(Weights)
  BY Joined
<1>2. <<>> \o (p \o r) = p \o r /\ <<>> \o (u \o (p \o r)) = u \o (p \o r)
  BY <1>1, NoneBefore
<1> QED
  BY <1>2 DEF Line, SenderLine

LEMMA MoveTake ==
  ASSUME NEW f \in Seq(Weights), NEW u \in Seq(Weights), NEW p \in Seq(Weights), NEW r \in Seq(Weights)
  PROVE  Line(f, <<>>, u, p, r) = Line(<<>>, f, u, p, r)
<1>1. u \o (p \o r) \in Seq(Weights) /\ f \o (u \o (p \o r)) \in Seq(Weights)
  BY Joined
<1>2. <<>> \o (u \o (p \o r)) = u \o (p \o r)
      /\ <<>> \o (f \o (u \o (p \o r))) = f \o (u \o (p \o r))
  BY <1>1, NoneBefore
<1> QED
  BY <1>2 DEF Line, SenderLine

Leads(w, c, l) == c = w \o l

LEMMA MoveLoad ==
  ASSUME NEW w \in Seq(Weights), NEW c \in Seq(Weights), NEW f \in Seq(Weights), NEW u \in Seq(Weights),
         NEW p \in Seq(Weights), NEW r \in Seq(Weights)
  PROVE  Leads(w, Line(w \o c, f, u, p, r), Line(c, f, u, p, r))
<1> DEFINE rest == f \o (u \o (p \o r))
<1>1. rest \in Seq(Weights)
  BY Joined
<1> HIDE DEF rest
<1>2. Associates(w, c, rest)
  BY <1>1, Association
<1> QED
  BY <1>2 DEF Line, SenderLine, Associates, rest, Leads

LEMMA MoveRaw ==
  ASSUME NEW w \in Seq(Weights), NEW u \in Seq(Weights), NEW p \in Seq(Weights), NEW r \in Seq(Weights)
  PROVE  Leads(w, Line(<<>>, w, u, p, r), Line(<<>>, <<>>, u, p, r))
<1>1. u \o (p \o r) \in Seq(Weights) /\ w \o (u \o (p \o r)) \in Seq(Weights)
  BY Joined
<1>2. /\ <<>> \o (u \o (p \o r)) = u \o (p \o r)
      /\ <<>> \o (w \o (u \o (p \o r))) = w \o (u \o (p \o r))
  BY <1>1, NoneBefore
<1> QED
  BY <1>2 DEF Line, SenderLine, Leads

\* When the sender has nothing, the weights of a new round join at the end.
LEMMA MoveBegin ==
  ASSUME NEW c \in Seq(Weights), NEW f \in Seq(Weights), NEW r \in Seq(Weights)
  PROVE  Line(c, f, <<>>, <<>>, r) = Line(c, f, <<>>, <<>>, <<>>) \o r
<1>1. <<>> \o r = r /\ <<>> \o <<>> = <<>> /\ f \o <<>> = f
  BY NoneBefore
<1>2. Associates(c, f, r)
  BY Association
<1> QED
  BY <1>1, <1>2 DEF Line, SenderLine, Associates

\* When the receiver has nothing, the line is what the sender has.
LEMMA MoveEnd ==
  ASSUME NEW u \in Seq(Weights), NEW p \in Seq(Weights), NEW r \in Seq(Weights)
  PROVE  Line(<<>>, <<>>, u, p, r) = SenderLine(u, p, r)
<1>1. u \o (p \o r) \in Seq(Weights)
  BY Joined
<1>2. <<>> \o (u \o (p \o r)) = u \o (p \o r)
  BY <1>1, NoneBefore
<1> QED
  BY <1>2 DEF Line, SenderLine

-----------------------------------------------------------------------------
(* The first of the line is loaded. *)

LEMMA ChosenFirst ==
  ASSUME NEW w \in Weights, NEW l \in Seq(Weights)
  PROVE  Chosen(<<w>> \o l) = IF Wanted(w) THEN <<w>> \o Chosen(l) ELSE Chosen(l)
<1>1. <<w>> \in Seq(Weights) /\ Chosen(l) \in Seq(Weights)
  BY ChosenTyped
<1>2. Chosen(<<w>> \o l) = Chosen(<<w>>) \o Chosen(l)
  BY <1>1, ChosenConcat
<1>3. <<>> \o Chosen(l) = Chosen(l)
  BY <1>1, NoneBefore
<1> QED
  BY <1>2, <1>3, ChosenOne

Makes(done, l, all) == done \o Chosen(l) = all

Then(w, l) == <<w>> \o l

LEMMA FirstSkipped ==
  ASSUME NEW done \in Seq(Weights), NEW w \in Weights, NEW l \in Seq(Weights), NEW all,
         Makes(done, Then(w, l), all), ~Wanted(w)
  PROVE  Makes(done, l, all)
BY ChosenFirst DEF Makes, Then

LEMMA FirstLoaded ==
  ASSUME NEW done \in Seq(Weights), NEW w \in Weights, NEW l \in Seq(Weights), NEW all,
         Makes(done, Then(w, l), all), Wanted(w)
  PROVE  /\ Append(done, w) \in Seq(Weights)
         /\ Makes(Append(done, w), l, all)
         /\ Len(done) < Len(all) /\ all[Len(done) + 1] = w
<1>1. PICK rest : rest = Chosen(l)
  OBVIOUS
<1>2. rest \in Seq(Weights) /\ <<w>> \in Seq(Weights)
  BY <1>1, ChosenTyped
<1>3. done \o (<<w>> \o rest) = all
  BY <1>1, ChosenFirst DEF Makes, Then
<1>4. Append(done, w) = done \o <<w>>
  BY AppendIsConcat
<1>5. Associates(done, <<w>>, rest)
  BY <1>2, Association
<1>6. <<w>> \o rest \in Seq(Weights) /\ Len(<<w>> \o rest) = 1 + Len(rest) /\ (<<w>> \o rest)[1] = w
  <2>1. Len(<<w>>) = 1 /\ <<w>>[1] = w /\ Len(rest) \in Nat
    BY <1>2
  <2> QED
    BY <1>2, <2>1, ConcatProperties
<1>7. PICK more : more = <<w>> \o rest
  OBVIOUS
<1>8. /\ Len(all) = Len(done) + Len(more)
      /\ \A i \in 1 .. Len(done) + Len(more) :
           all[i] = IF i <= Len(done) THEN done[i] ELSE more[i - Len(done)]
  <2>1. more \in Seq(Weights) /\ done \o more = all
    BY <1>3, <1>6, <1>7
  <2> QED
    BY <2>1, ConcatProperties
<1>9. Len(done) \in Nat /\ Len(more) \in Nat \ {0} /\ more[1] = w
  BY <1>2, <1>6, <1>7
<1>10. all[Len(done) + 1] = more[1]
  <2>1. Len(done) + 1 \in 1 .. Len(done) + Len(more) /\ ~(Len(done) + 1 <= Len(done))
        /\ (Len(done) + 1) - Len(done) = 1
    BY <1>9
  <2> QED
    BY <1>8, <2>1
<1>11. Append(done, w) \o rest = all
  BY <1>3, <1>4, <1>5 DEF Associates
<1>12. Append(done, w) \in Seq(Weights) /\ Len(done) < Len(all)
  BY <1>8, <1>9, AppendProperties
<1> QED
  BY <1>1, <1>9, <1>10, <1>11, <1>12 DEF Makes

-----------------------------------------------------------------------------
(* The parts of the line. *)

LEMMA IdsTyped ==
  ASSUME NEW ts \in Seq(Tensors)
  PROVE  Ids(ts) \in Seq(Weights) /\ Len(Ids(ts)) = Len(ts)
<1>1. DOMAIN ts = 1 .. Len(ts) /\ Len(ts) \in Nat /\ \A i \in 1 .. Len(ts) : ts[i] \in Tensors
  BY LenProperties, ElementOfSeq
<1>2. Ids(ts) \in [1 .. Len(ts) -> Weights]
  BY <1>1 DEF Ids, Tensors
<1> QED
  BY <1>1, <1>2

LEMMA IdsOfNone == Ids(<<>>) = <<>>
BY DEF Ids

LEMMA IdsOfOne ==
  ASSUME NEW t
  PROVE  Ids(<<t>>) = <<t.w>>
BY DEF Ids

LEMMA IdsOfMore ==
  ASSUME NEW ts \in Seq(Tensors), NEW t \in Tensors
  PROVE  Ids(Append(ts, t)) = Ids(ts) \o <<t.w>>
<1>1. t.w \in Weights
  BY DEF Tensors
<1>2. PICK u : u = Append(ts, t)
  OBVIOUS
<1>3. /\ u \in Seq(Tensors) /\ Len(u) = Len(ts) + 1 /\ u[Len(ts) + 1] = t
      /\ \A i \in 1 .. Len(ts) : u[i] = ts[i]
  BY <1>2, AppendProperties
<1>4. Ids(u) \in Seq(Weights) /\ Len(Ids(u)) = Len(ts) + 1
      /\ Ids(ts) \in Seq(Weights) /\ Len(Ids(ts)) = Len(ts)
  BY <1>3, IdsTyped
<1>5. PICK v : v = Ids(ts) \o <<t.w>>
  OBVIOUS
<1>6. /\ v \in Seq(Weights) /\ Len(v) = Len(ts) + 1
      /\ \A i \in 1 .. Len(ts) + 1 : v[i] = IF i <= Len(ts) THEN Ids(ts)[i] ELSE <<t.w>>[i - Len(ts)]
  <2>1. <<t.w>> \in Seq(Weights) /\ Len(<<t.w>>) = 1
    BY <1>1
  <2>2. PICK a : a = Ids(ts)
    OBVIOUS
  <2> QED
    BY <1>4, <1>5, <2>1, <2>2, ConcatProperties
<1>7. ASSUME NEW i \in 1 .. Len(ts) + 1 PROVE Ids(u)[i] = v[i]
  <2>1. DOMAIN u = 1 .. Len(ts) + 1 /\ DOMAIN ts = 1 .. Len(ts) /\ Len(ts) \in Nat
    BY <1>3, LenProperties
  <2>2. Ids(u)[i] = u[i].w
    BY <2>1 DEF Ids
  <2>3. CASE i <= Len(ts)
    <3>1. Ids(ts)[i] = ts[i].w
      BY <2>1, <2>3 DEF Ids
    <3> QED
      BY <1>3, <1>6, <2>1, <2>2, <2>3, <3>1
  <2>4. CASE i = Len(ts) + 1
    <3>1. v[i] = <<t.w>>[1]
      BY <1>6, <2>1, <2>4
    <3> QED
      BY <1>3, <2>2, <2>4, <3>1
  <2> QED
    BY <2>1, <2>3, <2>4
<1>8. Ids(u) = v
  BY <1>4, <1>6, <1>7, SeqEqual
<1> QED
  BY <1>2, <1>5, <1>8

LEMMA WeightIsTyped ==
  ASSUME EngineTypeOK, NEW i \in 1 .. Len(model)
  PROVE  <<snd.round, i>> \in Weights
<1>1. Len(model) \in Nat /\ snd.round \in Nat /\ DOMAIN model = 1 .. Len(model)
  BY DEF EngineTypeOK
<1>2. model \in Models
  BY <1>1, EmptySeq DEF EngineTypeOK
<1>3. Place[i] \in {"fits", "padded", "none", "mismatch"}
  BY <1>1, <1>2, EngineConstants
<1> QED
  BY <1>1, <1>3 DEF Weights

FromTyped == \A i \in Nat \ {0} : i <= Len(model) + 1 => From(i) \in Seq(Weights)

LEMMA FromIsTyped ==
  ASSUME EngineTypeOK
  PROVE  FromTyped
<1> SUFFICES ASSUME NEW i \in Nat \ {0}, i <= Len(model) + 1 PROVE From(i) \in Seq(Weights)
  BY DEF FromTyped
<1>1. Len(model) \in Nat /\ snd.round \in Nat
  BY DEF EngineTypeOK
<1>2. PICK n \in Nat : n = Len(model) + 1 - i
  BY <1>1
<1>3. From(i) \in [1 .. n -> Weights]
  <2>1. \A k \in 1 .. n : i + k - 1 \in 1 .. Len(model)
    BY <1>1, <1>2
  <2>2. \A k \in 1 .. n : <<snd.round, i + k - 1>> \in Weights
    BY <2>1, WeightIsTyped
  <2> QED
    BY <1>2, <2>2 DEF From
<1> QED
  BY <1>3

\* The next weight is the first of those that are left.
LEMMA FromNext ==
  ASSUME EngineTypeOK, NEW i \in Nat \ {0}, i <= Len(model)
  PROVE  From(i) = <<Weight(i)>> \o (IF i + 1 <= Len(model) THEN From(i + 1) ELSE <<>>)
<1>1. Len(model) \in Nat /\ snd.round \in Nat
  BY DEF EngineTypeOK
<1>2. PICK rest : rest = IF i + 1 <= Len(model) THEN From(i + 1) ELSE <<>>
  OBVIOUS
<1>3. rest \in Seq(Weights) /\ Len(rest) = Len(model) - i
      /\ \A k \in 1 .. Len(model) - i : rest[k] = <<snd.round, i + k>>
  <2>1. CASE i + 1 <= Len(model)
    <3>1. rest \in Seq(Weights)
      BY <1>1, <1>2, <2>1, FromIsTyped DEF FromTyped
    <3>2. rest = [k \in 1 .. Len(model) - i |-> <<snd.round, (i + 1) + k - 1>>]
      <4>1. Len(model) + 1 - (i + 1) = Len(model) - i
        BY <1>1
      <4> QED
        BY <1>2, <2>1, <4>1 DEF From
    <3>3. DOMAIN rest = 1 .. Len(model) - i /\ Len(model) - i \in Nat
      BY <1>1, <2>1, <3>2
    <3>4. Len(rest) = Len(model) - i
      BY <3>1, <3>3
    <3>5. \A k \in 1 .. Len(model) - i : (i + 1) + k - 1 = i + k
      BY <1>1
    <3> QED
      BY <3>1, <3>2, <3>4, <3>5
  <2>2. CASE i = Len(model)
    <3>1. ~(i + 1 <= Len(model))
      BY <1>1, <2>2
    <3>2. rest = <<>>
      BY <1>2, <3>1
    <3> QED
      BY <1>1, <2>2, <3>2, EmptySeq
  <2> QED
    BY <1>1, <2>1, <2>2
<1>4. PICK all : all = <<Weight(i)>> \o rest
  OBVIOUS
<1>5. Weight(i) = <<snd.round, i>> /\ Weight(i) \in Weights
  <2>1. i \in 1 .. Len(model)
    BY <1>1
  <2> QED
    BY <2>1, WeightIsTyped DEF Weight
<1>6. /\ all \in Seq(Weights) /\ Len(all) = 1 + (Len(model) - i)
      /\ \A k \in 1 .. 1 + (Len(model) - i) :
           all[k] = IF k <= 1 THEN <<Weight(i)>>[k] ELSE rest[k - 1]
  <2>1. PICK one : one = <<Weight(i)>>
    OBVIOUS
  <2>2. one \in Seq(Weights) /\ Len(one) = 1
    BY <1>5, <2>1
  <2>3. rest \in Seq(Weights)
    BY <1>3
  <2>4. /\ one \o rest \in Seq(Weights) /\ Len(one \o rest) = Len(one) + Len(rest)
        /\ \A k \in 1 .. Len(one) + Len(rest) :
             (one \o rest)[k] = IF k <= Len(one) THEN one[k] ELSE rest[k - Len(one)]
    BY <2>2, <2>3, ConcatProperties
  <2> QED
    BY <1>3, <1>4, <2>1, <2>2, <2>4
<1>7. PICK n \in Nat : n = Len(model) + 1 - i
  <2>1. Len(model) + 1 - i \in Nat
    BY <1>1
  <2> QED
    BY <2>1
<1>8. From(i) = [k \in 1 .. n |-> <<snd.round, i + k - 1>>] /\ From(i) \in Seq(Weights)
  <2>1. From(i) = [k \in 1 .. n |-> <<snd.round, i + k - 1>>]
    BY <1>7 DEF From
  <2>2. i <= Len(model) + 1
    BY <1>1
  <2> QED
    BY <2>1, <2>2, FromIsTyped DEF FromTyped
<1>9. Len(From(i)) = n
  BY <1>8
<1>10. ASSUME NEW k \in 1 .. n PROVE From(i)[k] = all[k]
  <2>1. CASE k = 1
    <3>1. i + k - 1 = i /\ 1 \in 1 .. 1 + (Len(model) - i)
      BY <1>1, <1>7, <2>1
    <3> QED
      BY <1>5, <1>6, <1>8, <2>1, <3>1
  <2>2. CASE k # 1
    <3>1. k - 1 \in 1 .. Len(model) - i /\ k \in 1 .. 1 + (Len(model) - i) /\ ~(k <= 1)
          /\ i + (k - 1) = i + k - 1
      BY <1>1, <1>7, <2>2
    <3> QED
      BY <1>3, <1>6, <1>8, <3>1
  <2> QED
    BY <2>1, <2>2
<1>11. From(i) = all
  <2>1. Len(all) = n
    BY <1>1, <1>6, <1>7
  <2> QED
    BY <1>6, <1>8, <1>9, <1>10, <2>1, SeqEqual
<1> QED
  BY <1>2, <1>4, <1>11

-----------------------------------------------------------------------------
(* The stages of a bucket in the two NCCL streams. *)

LEMMA SendStages ==
  ASSUME NEW b
  PROVE  /\ ToSend(b, 0) = <<>> /\ HeadOp(<<>>) = "nothing"
         /\ ToSend(b, 1) # <<>> /\ Len(ToSend(b, 1)) = 1 /\ Tail(ToSend(b, 1)) = ToSend(b, 0)
         /\ Head(ToSend(b, 1)) = [op |-> "event", buf |-> b] /\ HeadOp(ToSend(b, 1)) = "event"
         /\ ToSend(b, 2) # <<>> /\ Len(ToSend(b, 2)) = 2 /\ Tail(ToSend(b, 2)) = ToSend(b, 1)
         /\ Head(ToSend(b, 2)) = [op |-> "data", buf |-> b] /\ HeadOp(ToSend(b, 2)) = "data"
         /\ ToSend(b, 3) # <<>> /\ Len(ToSend(b, 3)) = 3 /\ Tail(ToSend(b, 3)) = ToSend(b, 2)
         /\ Head(ToSend(b, 3)) = [op |-> "meta", buf |-> b] /\ HeadOp(ToSend(b, 3)) = "meta"
BY DEF ToSend, HeadOp

LEMMA ReceiveStages ==
  ASSUME NEW b
  PROVE  /\ ToReceive(b, 0) = <<>>
         /\ ToReceive(b, 1) # <<>> /\ Len(ToReceive(b, 1)) = 1
         /\ Tail(ToReceive(b, 1)) = ToReceive(b, 0)
         /\ Head(ToReceive(b, 1)) = [op |-> "data", buf |-> b] /\ HeadOp(ToReceive(b, 1)) = "data"
         /\ ToReceive(b, 2) = RecvPair(b) /\ ToReceive(b, 2) # <<>> /\ Len(ToReceive(b, 2)) = 2
         /\ Tail(ToReceive(b, 2)) = ToReceive(b, 1)
         /\ Head(ToReceive(b, 2)) = [op |-> "meta", buf |-> b] /\ HeadOp(ToReceive(b, 2)) = "meta"
BY DEF ToReceive, RecvPair, HeadOp

LEMMA SendStageOf ==
  ASSUME NEW b, NEW s, s = ToSend(b, Len(s)), Len(s) \in 0 .. 3
  PROVE  /\ HeadOp(s) = "meta" => s = ToSend(b, 3)
         /\ HeadOp(s) = "data" => s = ToSend(b, 2)
         /\ HeadOp(s) = "event" => s = ToSend(b, 1)
<1>1. CASE Len(s) = 0
  BY <1>1, SendStages
<1>2. CASE Len(s) = 1
  BY <1>2, SendStages
<1>3. CASE Len(s) = 2
  BY <1>3, SendStages
<1>4. CASE Len(s) = 3
  BY <1>4, SendStages
<1> QED
  BY <1>1, <1>2, <1>3, <1>4

LEMMA ReceiveStageOf ==
  ASSUME NEW b, NEW s, s = ToReceive(b, Len(s)), Len(s) \in 0 .. 2
  PROVE  /\ HeadOp(s) = "meta" => s = ToReceive(b, 2)
         /\ HeadOp(s) = "data" => s = ToReceive(b, 1)
<1>1. CASE Len(s) = 0
  BY <1>1, ReceiveStages, SendStages
<1>2. CASE Len(s) = 1
  BY <1>2, ReceiveStages
<1>3. CASE Len(s) = 2
  BY <1>3, ReceiveStages
<1> QED
  BY <1>1, <1>2, <1>3

-----------------------------------------------------------------------------
(* What a step leaves alone. *)

LEMMA ReceiverSame ==
  ASSUME UNCHANGED <<rcv, rNccl, rMeta, rDefault>>
  PROVE  /\ Fresh' = Fresh /\ (HasHeader <=> HasHeader') /\ Copied' = Copied
         /\ (LastHere <=> LastHere')
<1>1. HasHeader <=> HasHeader'
  BY DEF HasHeader, HeadOp
<1>2. RawLeft <=> RawLeft'
  BY DEF RawLeft
<1>3. Copied' = Copied
  BY DEF Copied
<1> QED
  BY <1>1, <1>2, <1>3 DEF Fresh, LastHere

LEMMA SenderQueueSame ==
  ASSUME UNCHANGED <<sNccl, sMeta>>
  PROVE  (HeaderSent <=> HeaderSent') /\ Unsent' = Unsent
BY DEF HeaderSent, Unsent, HeadOp

LEMMA RestSame ==
  ASSUME UNCHANGED model, snd'.round = snd.round
  PROVE  /\ From(1)' = From(1)
         /\ snd'.next = snd.next => Unpacked' = Unpacked
         /\ Unpacked' = IF snd'.next <= Len(model) THEN From(snd'.next) ELSE <<>>
<1>1. \A i : From(i)' = From(i)
  BY DEF From
<1> QED
  BY <1>1 DEF Unpacked

LEMMA SenderSame ==
  ASSUME UNCHANGED sender
  PROVE  /\ (HeaderSent <=> HeaderSent') /\ (SenderMid <=> SenderMid') /\ Unsent' = Unsent
         /\ Unpacked' = Unpacked /\ From(1)' = From(1)
<1>1. (HeaderSent <=> HeaderSent') /\ Unsent' = Unsent /\ Unpacked' = Unpacked /\ From(1)' = From(1)
  BY SenderQueueSame, RestSame DEF sender
<1> QED
  BY <1>1 DEF SenderMid, sender

LEMMA FreshSame ==
  ASSUME UNCHANGED <<rcv, rNccl, rMeta>>
  PROVE  Fresh' = Fresh /\ (HasHeader <=> HasHeader') /\ (LastHere <=> LastHere')
<1>1. HasHeader <=> HasHeader'
  BY DEF HasHeader, HeadOp
<1>2. RawLeft <=> RawLeft'
  BY DEF RawLeft
<1> QED
  BY <1>1, <1>2 DEF Fresh, LastHere

LEMMA CopiesSame ==
  ASSUME CopiesSafe, UNCHANGED <<direct, rDefault, rData>>,
         rcv' = rcv \/ (rDefault = <<>> /\ rcv'.pc \in RcvPcs)
  PROVE  CopiesSafe'
<1>1. CASE rcv' = rcv
  BY <1>1 DEF CopiesSafe, CopyOut, Written
<1>2. CASE rDefault = <<>>
  BY <1>2 DEF CopiesSafe
<1> QED
  BY <1>1, <1>2

CopyOps == [op : {"copy"}, buf : Buffers, t : Tensors]

LEMMA CopiedIsTyped ==
  ASSUME rDefault \in Seq(CopyOps)
  PROVE  Copied \in Seq(Weights) /\ Len(Copied) = Len(rDefault)
<1>2. /\ DOMAIN rDefault = 1 .. Len(rDefault) /\ Len(rDefault) \in Nat
      /\ \A i \in 1 .. Len(rDefault) : rDefault[i] \in CopyOps
  BY LenProperties, ElementOfSeq
<1>3. Copied \in [1 .. Len(rDefault) -> Weights]
  BY <1>2 DEF Copied, CopyOps, Tensors
<1> QED
  BY <1>2, <1>3

LEMMA CopiedTyped ==
  ASSUME CopiesSafe
  PROVE  Copied \in Seq(Weights) /\ Len(Copied) = Len(rDefault)
BY CopiedIsTyped DEF CopiesSafe, CopyOps

PartsTyped ==
  /\ Copied \in Seq(Weights) /\ Ids(Fresh) \in Seq(Weights) /\ Ids(Unsent) \in Seq(Weights)
  /\ Ids(snd.meta) \in Seq(Weights) /\ Unpacked \in Seq(Weights)
  /\ Fresh \in Seq(Tensors) /\ Unsent \in Seq(Tensors)

LEMMA PartsAreTyped ==
  ASSUME EngineTypeOK, CopiesSafe, HeaderSent => Head(sNccl).buf \in Buffers
  PROVE  PartsTyped
<1>1. Fresh \in Seq(Tensors)
  BY EmptySeq DEF Fresh, EngineTypeOK, Metas
<1>2. Unsent \in Seq(Tensors)
  BY EmptySeq DEF Unsent, EngineTypeOK, Metas
<1>3. snd.meta \in Seq(Tensors)
  BY DEF EngineTypeOK
<1>4. Unpacked \in Seq(Weights)
  <2>1. snd.next \in Nat \ {0} /\ Len(model) \in Nat
    BY DEF EngineTypeOK
  <2>2. snd.next <= Len(model) => From(snd.next) \in Seq(Weights)
    <3>1. snd.next <= Len(model) => snd.next <= Len(model) + 1
      BY <2>1
    <3> QED
      BY <2>1, <3>1, FromIsTyped DEF FromTyped
  <2> QED
    BY <2>2, EmptySeq DEF Unpacked
<1> QED
  BY <1>1, <1>2, <1>3, <1>4, IdsTyped, CopiedTyped DEF PartsTyped

-----------------------------------------------------------------------------
(***************************************************************************)
(* Buckets.                                                                *)
(***************************************************************************)
BucketInv ==
  /\ ~direct /\ EngineTypeOK /\ RoundsInStep /\ Flow /\ CopiesSafe
  /\ BucketsInOrder /\ PackingSafe

LEMMA BucketParts ==
  ASSUME BucketInv
  PROVE  PartsTyped /\ (HeaderSent <=> Len(sNccl) = 3) /\ (HeaderSent => Head(sNccl).buf = snd.prev)
         /\ (HasHeader <=> rcv.pc = "wait" /\ Len(rNccl) # 2)
         /\ (sNccl = <<>> <=> Len(sNccl) = 0) /\ (rNccl = <<>> <=> Len(rNccl) = 0)
         /\ Fresh = (IF HasHeader THEN rMeta[rcv.buf].tensors ELSE <<>>)
         /\ Unsent = (IF HeaderSent THEN sMeta[snd.prev].tensors ELSE <<>>)
<1>1. sNccl \in {ToSend(snd.prev, n) : n \in 0 .. 3} /\ sNccl = ToSend(snd.prev, Len(sNccl))
      /\ Len(sNccl) \in 0 .. 3
  BY DEF BucketInv, BucketsInOrder
<1>2. rNccl = ToReceive(rcv.buf, Len(rNccl)) /\ Len(rNccl) \in 0 .. 2
  BY DEF BucketInv, BucketsInOrder
<1>3. /\ HeaderSent <=> Len(sNccl) = 3
      /\ HeaderSent => Head(sNccl).buf = snd.prev
      /\ sNccl = <<>> <=> Len(sNccl) = 0
  BY <1>1, SendStages DEF HeaderSent
<1>4. /\ HeadOp(rNccl) = "meta" <=> Len(rNccl) = 2
      /\ rNccl = <<>> <=> Len(rNccl) = 0
  BY <1>2, SendStages, ReceiveStages
<1>5. HeaderSent => snd.prev \in Buffers
  <2>1. HeaderSent => sNccl # <<>>
    BY <1>3
  <2> QED
    BY <2>1 DEF BucketInv, BucketsInOrder
<1>6. PartsTyped
  BY <1>3, <1>5, PartsAreTyped DEF BucketInv
<1>7. ~RawLeft
  BY DEF BucketInv, BucketsInOrder, RawLeft
<1> QED
  BY <1>3, <1>4, <1>6, <1>7 DEF HasHeader, Fresh, Unsent

LEMMA LineKept ==
  ASSUME RoundsInStep, Flow, UNCHANGED <<goals, loaded, reported>>, snd'.round = snd.round,
         Pending' = Pending, Outgoing' = Outgoing, From(1)' = From(1),
         LastHere <=> LastHere', SenderMid <=> SenderMid'
  PROVE  RoundsInStep' /\ Flow'
<1>1. Flow'
  BY DEF Flow
<1>2. RoundsInStep'
  BY DEF RoundsInStep
<1> QED
  BY <1>1, <1>2

LEMMA LineStays ==
  ASSUME RoundsInStep, Flow, UNCHANGED <<goals, loaded, reported>>, snd'.round = snd.round,
         Copied' = Copied, Fresh' = Fresh, Unsent' = Unsent, snd'.meta = snd.meta,
         Unpacked' = Unpacked, From(1)' = From(1),
         LastHere <=> LastHere', SenderMid <=> SenderMid'
  PROVE  RoundsInStep' /\ Flow'
<1>1. Ids(Fresh)' = Ids(Fresh) /\ Ids(Unsent)' = Ids(Unsent) /\ Ids(snd.meta)' = Ids(snd.meta)
  BY DEF Ids
<1>2. Pending' = Pending /\ Outgoing' = Outgoing
  BY <1>1, Zenon DEF Pending, Outgoing
<1> QED
  BY <1>2, LineKept

\* The next weight is copied into the bucket.
LEMMA PackKeeps ==
  ASSUME BucketInv, Pack
  PROVE  BucketInv'
<1> DEFINE t == [w |-> Weight(snd.next), at |-> snd.offset, n |-> model[snd.next]]
<1>1. /\ snd.pc = "pack" /\ snd.next <= Len(model)
      /\ sDefault' = Append(sDefault, CopyIn(t, snd.pack))
      /\ snd' = [snd EXCEPT !.next = @ + 1, !.offset = @ + t.n, !.meta = Append(@, t)]
      /\ UNCHANGED <<direct, model, sNccl, sMeta, sData, sendEvent, goals, faults, receiver>>
  BY DEF Pack, Packing, CopyIn
<1>2. Len(model) \in Nat /\ snd.next \in Nat \ {0} /\ snd.next \in DOMAIN model
  <2>1. model \in Seq(Nat) /\ snd.next \in Nat \ {0}
    BY DEF BucketInv, EngineTypeOK
  <2> QED
    BY <1>1, <2>1
<1>3. t \in Tensors /\ t.w = Weight(snd.next) /\ t.at = snd.offset /\ Weight(snd.next) \in Weights
  <2>1. Weight(snd.next) \in Weights
    BY <1>1, <1>2, WeightIsTyped DEF BucketInv, Weight
  <2> QED
    BY <1>2, <2>1, SMTT(20) DEF BucketInv, EngineTypeOK, Tensors
<1> HIDE DEF t
<1>4. EngineTypeOK'
  <2>1. snd.meta \in Seq(Tensors) /\ snd.offset \in Nat /\ t.n \in Nat
    BY <1>3 DEF BucketInv, EngineTypeOK, Tensors
  <2>2. Append(snd.meta, t) \in Seq(Tensors)
    BY <1>3, <2>1, AppendProperties
  <2>3. snd.next + 1 \in Nat \ {0} /\ snd.offset + t.n \in Nat
    BY <1>2, <2>1
  <2> QED
    BY <1>1, <2>2, <2>3 DEF BucketInv, EngineTypeOK, receiver
<1>5. /\ snd'.meta = Append(snd.meta, t) /\ snd'.next = snd.next + 1 /\ snd'.round = snd.round
      /\ snd'.pc = "pack" /\ snd'.pack = snd.pack /\ snd'.prev = snd.prev
      /\ snd'.offset = snd.offset + t.n
  BY <1>1 DEF BucketInv, EngineTypeOK
<1>6. /\ Fresh' = Fresh /\ Copied' = Copied /\ Unsent' = Unsent /\ From(1)' = From(1)
      /\ (LastHere <=> LastHere') /\ (HeaderSent <=> HeaderSent')
  BY <1>1, <1>5, ReceiverSame, SenderQueueSame, RestSame DEF receiver
<1>7. PartsTyped
  BY BucketParts
<1>8. Ids(snd'.meta) = Ids(snd.meta) \o <<t.w>> /\ Unpacked = <<t.w>> \o Unpacked'
      /\ Unpacked' \in Seq(Weights)
  <2>1. Ids(snd'.meta) = Ids(snd.meta) \o <<t.w>>
    BY <1>3, <1>5, IdsOfMore DEF BucketInv, EngineTypeOK
  <2>2. Unpacked = From(snd.next)
    BY <1>1 DEF Unpacked
  <2>3. Unpacked' = IF snd.next + 1 <= Len(model) THEN From(snd.next + 1) ELSE <<>>
    BY <1>1, <1>5, RestSame
  <2>4. Unpacked = <<t.w>> \o Unpacked'
    BY <1>1, <1>2, <1>3, <2>2, <2>3, FromNext DEF BucketInv
  <2>5. Unpacked' \in Seq(Weights)
    <3>1. snd.next + 1 \in Nat \ {0} /\ (snd.next + 1 <= Len(model) => snd.next + 1 <= Len(model) + 1)
      BY <1>2
    <3> QED
      BY <2>3, <3>1, FromIsTyped, EmptySeq DEF FromTyped, BucketInv
  <2> QED
    BY <2>1, <2>4, <2>5
<1>9. Pending' = Pending /\ Outgoing' = Outgoing
  <2>1. <<t.w>> \in Seq(Weights)
    BY <1>3
  <2>2. PICK w : w = <<t.w>>
    OBVIOUS
  <2>3. PICK p, r : p = Ids(snd.meta) /\ r = Unpacked'
    OBVIOUS
  <2>4. /\ Line(Copied, Ids(Fresh), Ids(Unsent), p \o w, r) = Line(Copied, Ids(Fresh), Ids(Unsent), p, w \o r)
        /\ SenderLine(Ids(Unsent), p \o w, r) = SenderLine(Ids(Unsent), p, w \o r)
    <3>1. PICK c, f, u : c = Copied /\ f = Ids(Fresh) /\ u = Ids(Unsent)
      OBVIOUS
    <3>2. /\ c \in Seq(Weights) /\ f \in Seq(Weights) /\ u \in Seq(Weights)
          /\ p \in Seq(Weights) /\ r \in Seq(Weights) /\ w \in Seq(Weights)
      BY <1>7, <1>8, <2>1, <2>2, <2>3, <3>1 DEF PartsTyped
    <3>3. Line(c, f, u, p \o w, r) = Line(c, f, u, p, w \o r)
      BY <3>2, MovePack
    <3>4. SenderLine(u, p \o w, r) = SenderLine(u, p, w \o r)
      BY <3>2, MovePackOut
    <3> QED
      BY <3>1, <3>3, <3>4, Zenon
  <2>5. /\ Pending' = Line(Copied, Ids(Fresh), Ids(Unsent), p \o w, r)
        /\ Outgoing' = SenderLine(Ids(Unsent), p \o w, r)
    BY <1>6, <1>8, <2>2, <2>3, Zenon DEF Pending, Outgoing
  <2>6. /\ Pending = Line(Copied, Ids(Fresh), Ids(Unsent), p, w \o r)
        /\ Outgoing = SenderLine(Ids(Unsent), p, w \o r)
    BY <1>8, <2>2, <2>3, Zenon DEF Pending, Outgoing
  <2> QED
    BY <2>4, <2>5, <2>6
<1>10. Flow' /\ RoundsInStep'
  <2>1. SenderMid /\ SenderMid'
    BY <1>1, <1>5 DEF SenderMid
  <2>2. Flow'
    BY <1>1, <1>9 DEF BucketInv, Flow, receiver
  <2>3. RoundsInStep'
    BY <1>1, <1>5, <1>6, <1>9, <2>1 DEF BucketInv, RoundsInStep, receiver
  <2> QED
    BY <2>2, <2>3
<1>11. CopiesSafe'
  BY <1>1, CopiesSame DEF BucketInv, receiver
<1>12. BucketsInOrder'
  BY <1>1, <1>5, <1>6, SMTT(20) DEF BucketInv, BucketsInOrder, receiver, SendEventIs, AllWritten, Written
<1>13. PackingSafe'
  <2>1. DOMAIN snd.meta = 1 .. Len(snd.meta) /\ Len(snd.meta) \in Nat
    BY DEF BucketInv, EngineTypeOK
  <2>2. PICK m : m = Append(snd.meta, t)
    OBVIOUS
  <2>3. /\ DOMAIN m = 1 .. Len(snd.meta) + 1 /\ m[Len(snd.meta) + 1] = t
        /\ \A j \in DOMAIN snd.meta : j \in DOMAIN m /\ m[j] = snd.meta[j]
    BY <1>3, <2>1, <2>2, AppendProperties, LenProperties, SMTT(20) DEF BucketInv, EngineTypeOK
  <2>4. PICK q : q = Append(sDefault, CopyIn(t, snd.pack))
    OBVIOUS
  <2>5. /\ DOMAIN sDefault = 1 .. Len(sDefault) /\ Len(sDefault) \in Nat
        /\ DOMAIN q = 1 .. Len(sDefault) + 1 /\ Len(q) = Len(sDefault) + 1
        /\ q[Len(sDefault) + 1] = CopyIn(t, snd.pack)
        /\ \A i \in DOMAIN sDefault : i \in DOMAIN q /\ q[i] = sDefault[i]
    BY <2>4 DEF BucketInv, PackingSafe
  <2>6. ASSUME NEW i \in DOMAIN q
        PROVE  \E j \in DOMAIN m : q[i] = CopyIn(m[j], snd.pack)
    <3>1. CASE i = Len(sDefault) + 1
      BY <2>1, <2>3, <2>5, <3>1
    <3>2. CASE i # Len(sDefault) + 1
      <4>1. i \in DOMAIN sDefault
        BY <2>5, <3>2
      <4>2. \E j \in DOMAIN snd.meta : sDefault[i] = CopyIn(snd.meta[j], snd.pack)
        BY <1>1, <4>1 DEF BucketInv, PackingSafe
      <4> QED
        BY <2>3, <2>5, <4>1, <4>2
    <3> QED
      BY <3>1, <3>2
  <2>7. ASSUME NEW j \in DOMAIN m
        PROVE  /\ m[j].at + m[j].n <= snd.offset + t.n
               /\ \A i \in 1 .. j - 1 : m[i].at + m[i].n <= m[j].at
               /\ \/ Written(sData[snd.pack], m[j])
                  \/ \E i \in DOMAIN q : q[i] = CopyIn(m[j], snd.pack)
    <3>1. CASE j = Len(snd.meta) + 1
      <4>1. m[j].at + m[j].n <= snd.offset + t.n
        BY <1>3, <2>3, <3>1 DEF BucketInv, EngineTypeOK, Tensors
      <4>2. ASSUME NEW i \in 1 .. j - 1 PROVE m[i].at + m[i].n <= m[j].at
        <5>1. i \in DOMAIN snd.meta
          BY <2>1, <3>1
        <5> QED
          BY <1>3, <2>3, <3>1, <5>1 DEF BucketInv, PackingSafe
      <4> QED
        BY <2>3, <2>5, <3>1, <4>1, <4>2
    <3>2. CASE j # Len(snd.meta) + 1
      <4>1. j \in DOMAIN snd.meta
        BY <2>1, <2>3, <3>2
      <4>2. \A i \in 1 .. j - 1 : i \in DOMAIN snd.meta
        BY <2>1, <4>1
      <4>3. /\ snd.meta[j].at + snd.meta[j].n <= snd.offset
            /\ \A i \in 1 .. j - 1 : snd.meta[i].at + snd.meta[i].n <= snd.meta[j].at
            /\ \/ Written(sData[snd.pack], snd.meta[j])
               \/ \E i \in DOMAIN sDefault : sDefault[i] = CopyIn(snd.meta[j], snd.pack)
        BY <4>1 DEF BucketInv, PackingSafe
      <4>4. snd.meta[j] \in Tensors /\ snd.offset \in Nat /\ t.n \in Nat
        <5>1. snd.meta \in Seq(Tensors) /\ snd.offset \in Nat
          BY DEF BucketInv, EngineTypeOK
        <5>2. t.n \in Nat
          BY <1>3 DEF Tensors
        <5> QED
          BY <2>1, <4>1, <5>1, <5>2, ElementOfSeq
      <4>5. m[j].at + m[j].n <= snd.offset + t.n
        BY <2>3, <4>1, <4>3, <4>4 DEF Tensors
      <4>6. \A i \in 1 .. j - 1 : m[i].at + m[i].n <= m[j].at
        BY <2>3, <4>1, <4>2, <4>3
      <4>7. \/ Written(sData[snd.pack], m[j])
            \/ \E i \in DOMAIN q : q[i] = CopyIn(m[j], snd.pack)
        BY <2>3, <2>5, <4>1, <4>3
      <4> QED
        BY <4>5, <4>6, <4>7
    <3> QED
      BY <3>1, <3>2
  <2>8. sDefault' = q /\ snd'.meta = m /\ sData' = sData
    BY <1>1, <1>5, <2>2, <2>4
  <2>9. \A b, u : Written(sData[b], u)' <=> Written(sData[b], u)
    BY <2>8 DEF Written
  <2> QED
    BY <1>5, <2>5, <2>6, <2>7, <2>8 DEF PackingSafe, Written
<1> QED
  BY <1>1, <1>4, <1>10, <1>11, <1>12, <1>13 DEF BucketInv

\* The wait for the other buffer is queued behind the copies.
LEMMA FlushBeginsKeeps ==
  ASSUME BucketInv, FlushBegins
  PROVE  BucketInv'
<1>1. /\ snd.pc = "pack" /\ snd' = [snd EXCEPT !.pc = "flush"]
      /\ sDefault' = IF snd.prev = Nil THEN sDefault ELSE Append(sDefault, WaitFor(snd.prev))
      /\ UNCHANGED <<direct, model, sNccl, sMeta, sData, sendEvent, goals, faults, receiver>>
  BY DEF FlushBegins, WaitFor
<1>2. /\ snd'.meta = snd.meta /\ snd'.next = snd.next /\ snd'.round = snd.round
      /\ snd'.pc = "flush" /\ snd'.pack = snd.pack /\ snd'.prev = snd.prev
      /\ snd'.offset = snd.offset
  BY <1>1 DEF BucketInv, EngineTypeOK
<1>3. EngineTypeOK'
  <2>1. "flush" \in SndPcs
    BY DEF SndPcs
  <2> QED
    BY <1>1, <2>1 DEF BucketInv, EngineTypeOK, receiver
<1>4. /\ Fresh' = Fresh /\ Copied' = Copied /\ Unsent' = Unsent /\ From(1)' = From(1)
      /\ Unpacked' = Unpacked
      /\ (LastHere <=> LastHere') /\ (HeaderSent <=> HeaderSent')
  BY <1>1, <1>2, ReceiverSame, SenderQueueSame, RestSame DEF receiver
<1>5. RoundsInStep' /\ Flow'
  <2>1. SenderMid /\ SenderMid'
    BY <1>1, <1>2 DEF SenderMid
  <2> QED
    BY <1>1, <1>2, <1>4, <2>1, LineStays DEF BucketInv, receiver
<1>6. CopiesSafe'
  BY <1>1, CopiesSame DEF BucketInv, receiver
<1>7. BucketsInOrder'
  BY <1>1, <1>2, <1>4 DEF BucketInv, BucketsInOrder, receiver, SendEventIs, AllWritten, Written
<1>8. PackingSafe'
  <2>1. \A b : WaitFor(b)' = WaitFor(b)
    BY <1>1 DEF WaitFor
  <2>2. \A b, t : Written(sData[b], t)' <=> Written(sData[b], t)
    BY <1>1 DEF Written
  <2>3. DOMAIN sDefault = 1 .. Len(sDefault) /\ Len(sDefault) \in Nat
    BY DEF BucketInv, PackingSafe
  <2>4. \A i \in DOMAIN sDefault : \E j \in DOMAIN snd.meta : sDefault[i] = CopyIn(snd.meta[j], snd.pack)
    BY <1>1 DEF BucketInv, PackingSafe
  <2>5. \A j \in DOMAIN snd.meta :
          /\ snd.meta[j].at + snd.meta[j].n <= snd.offset
          /\ \A i \in 1 .. j - 1 : snd.meta[i].at + snd.meta[i].n <= snd.meta[j].at
          /\ \/ Written(sData[snd.pack], snd.meta[j])
             \/ \E i \in DOMAIN sDefault : sDefault[i] = CopyIn(snd.meta[j], snd.pack)
    BY DEF BucketInv, PackingSafe
  <2>6. CASE snd.prev = Nil
    <3>1. sDefault' = sDefault
      BY <1>1, <2>6
    <3>2. sNccl = <<>>
      BY <2>6, EngineConstants DEF BucketInv, BucketsInOrder, Buffers
    <3>3. \A i \in DOMAIN sDefault' :
            \E j \in DOMAIN snd'.meta : sDefault'[i] = CopyIn(snd'.meta[j], snd'.pack)
      BY <1>2, <2>4, <3>1
    <3>4. \A j \in DOMAIN snd'.meta :
            /\ snd'.meta[j].at + snd'.meta[j].n <= snd'.offset
            /\ \A i \in 1 .. j - 1 : snd'.meta[i].at + snd'.meta[i].n <= snd'.meta[j].at
            /\ \/ Written(sData[snd.pack], snd'.meta[j])
               \/ \E i \in DOMAIN sDefault' : sDefault'[i] = CopyIn(snd'.meta[j], snd'.pack)
      BY <1>2, <2>5, <3>1
    <3>5. \A t : Written(sData'[snd'.pack], t) <=> Written(sData[snd.pack], t)
      BY <1>1, <1>2 DEF Written
    <3>6. sNccl' = <<>> /\ DOMAIN sDefault' = 1 .. Len(sDefault') /\ Len(sDefault') \in Nat
      BY <1>1, <2>3, <3>1, <3>2
    <3> QED
      BY <1>2, <3>3, <3>4, <3>5, <3>6, Zenon DEF PackingSafe
  <2>7. CASE snd.prev # Nil
    <3>1. PICK q : q = Append(sDefault, WaitFor(snd.prev))
      OBVIOUS
    <3>2. /\ DOMAIN q = 1 .. Len(sDefault) + 1 /\ Len(q) = Len(sDefault) + 1 /\ q # <<>>
          /\ q[Len(sDefault) + 1] = WaitFor(snd.prev)
          /\ \A i \in DOMAIN sDefault : i \in DOMAIN q /\ q[i] = sDefault[i]
      BY <2>3, <3>1
    <3>3. sDefault' = q
      BY <1>1, <2>7, <3>1
    <3>4. ASSUME NEW i \in DOMAIN q
          PROVE  \/ \E j \in DOMAIN snd.meta : q[i] = CopyIn(snd.meta[j], snd.pack)
                 \/ i = Len(q) /\ q[i] = WaitFor(snd.prev)
      <4>1. i = Len(sDefault) + 1 \/ i \in DOMAIN sDefault
        BY <2>3, <3>2
      <4> QED
        BY <2>4, <3>2, <4>1
    <3>5. \A j \in DOMAIN snd.meta :
             \/ Written(sData[snd.pack], snd.meta[j])
             \/ \E i \in DOMAIN q : q[i] = CopyIn(snd.meta[j], snd.pack)
      BY <2>5, <3>2
    <3>6. Len(q) \in Nat /\ DOMAIN q = 1 .. Len(q)
      BY <2>3, <3>2
    <3> QED
      BY <1>1, <1>2, <2>1, <2>2, <2>5, <2>7, <3>2, <3>3, <3>4, <3>5, <3>6 DEF PackingSafe, Written
  <2> QED
    BY <2>6, <2>7
<1> QED
  BY <1>1, <1>3, <1>5, <1>6, <1>7, <1>8 DEF BucketInv

\* A copy into the bucket touches no other tensor; a wait ends when the buffer is sent.
LEMMA SenderDefaultKeeps ==
  ASSUME BucketInv, SenderDefaultRuns
  PROVE  BucketInv'
<1>1. /\ sDefault # <<>> /\ sDefault' = Tail(sDefault)
      /\ UNCHANGED <<direct, model, snd, sNccl, sMeta, sendEvent, goals, faults, receiver>>
  BY DEF SenderDefaultRuns
<1>2. PICK op : op = Head(sDefault)
  OBVIOUS
<1>3. \/ op.op = "copy" /\ sData' = Filled(sData, op)
      \/ op.op = "wait" /\ sendEvent[op.buf].reached >= op.n /\ sData' = sData
  BY <1>2 DEF SenderDefaultRuns
<1>4. DOMAIN sDefault = 1 .. Len(sDefault) /\ Len(sDefault) \in Nat
  BY DEF BucketInv, PackingSafe
<1>5. /\ 1 \in DOMAIN sDefault /\ op = sDefault[1]
      /\ Len(sDefault') = Len(sDefault) - 1 /\ DOMAIN sDefault' = 1 .. Len(sDefault) - 1
      /\ Len(sDefault') \in Nat
      /\ \A i \in 1 .. Len(sDefault) - 1 : sDefault'[i] = sDefault[i + 1]
  BY <1>1, <1>2, <1>4
<1>6. /\ Fresh' = Fresh /\ Copied' = Copied /\ Unsent' = Unsent /\ From(1)' = From(1)
      /\ Unpacked' = Unpacked
      /\ (LastHere <=> LastHere') /\ (HeaderSent <=> HeaderSent')
  BY <1>1, ReceiverSame, SenderQueueSame, RestSame DEF receiver
<1>7. RoundsInStep' /\ Flow'
  <2>1. SenderMid <=> SenderMid'
    BY <1>1, <1>6 DEF SenderMid
  <2> QED
    BY <1>1, <1>6, <2>1, LineStays DEF BucketInv, receiver
<1>8. CopiesSafe'
  BY <1>1, CopiesSame DEF BucketInv, receiver
<1>9. \A j \in DOMAIN snd.meta : snd.meta[j] \in Tensors
  BY DEF BucketInv, EngineTypeOK
<1>10. CASE \E j \in DOMAIN snd.meta : op = CopyIn(snd.meta[j], snd.pack)
  <2>1. PICK k \in DOMAIN snd.meta : op = CopyIn(snd.meta[k], snd.pack)
    BY <1>10
  <2>2. /\ op.op = "copy" /\ op.w = snd.meta[k].w /\ op.buf = snd.pack
        /\ op.at = snd.meta[k].at /\ op.n = snd.meta[k].n
    BY <2>1 DEF CopyIn
  <2>3. PICK t : t = snd.meta[k]
    OBVIOUS
  <2>4. t \in Tensors
    BY <1>9, <2>1, <2>3
  <2>5. sData \in [Buffers -> Bytes] /\ snd.pack \in Buffers
    BY DEF BucketInv, EngineTypeOK
  <2>6. PICK d : d = sData[snd.pack]
    OBVIOUS
  <2>7. d \in Bytes
    BY <2>5, <2>6
  <2>8. PICK e : e = [x \in 1 .. BucketSize |-> IF x \in t.at + 1 .. t.at + t.n THEN t.w ELSE d[x]]
    OBVIOUS
  <2>9. sData' = [sData EXCEPT ![snd.pack] = e] /\ e \in Bytes
    <3>1. sData' = Filled(sData, op)
      BY <1>3, <2>2
    <3>2. DOMAIN d = 1 .. BucketSize
      BY <2>7 DEF Bytes
    <3>3. sData' = [sData EXCEPT ![snd.pack] = e]
      BY <2>2, <2>3, <2>5, <2>6, <2>8, <3>1, <3>2 DEF Filled
    <3>4. e \in Bytes
      BY <2>4, <2>7, <2>8 DEF Bytes, Tensors
    <3> QED
      BY <3>3, <3>4
  <2>10. sData' \in [Buffers -> Bytes] /\ sData'[snd.pack] = e
         /\ \A b \in Buffers : b # snd.pack => sData'[b] = sData[b]
    BY <2>5, <2>9
  <2>11. EngineTypeOK'
    BY <1>1, <2>10 DEF BucketInv, EngineTypeOK, receiver
  <2>12. BucketsInOrder'
    <3>1. sNccl # <<>> => snd.prev \in Buffers /\ snd.prev # snd.pack
      BY <2>5, EngineConstants DEF BucketInv, BucketsInOrder, Buffers
    <3>2. Len(sNccl) = 3 \/ Len(sNccl) = 2 => sNccl # <<>>
      BY EmptySeq
    <3>3. Len(sNccl) = 3 \/ Len(sNccl) = 2 => sData'[snd.prev] = sData[snd.prev]
      BY <2>10, <3>1, <3>2
    <3> QED
      BY <1>1, <1>6, <3>3, SMTT(20) DEF BucketInv, BucketsInOrder, receiver, SendEventIs, AllWritten, Written
  <2>13. PackingSafe'
    <3>1. Written(e, t)
      BY <2>4, <2>8 DEF Written, Tensors
    <3>2. ASSUME NEW j \in DOMAIN snd.meta, Written(d, snd.meta[j]) PROVE Written(e, snd.meta[j])
      <4>1. CASE j = k
        BY <2>3, <3>1, <4>1
      <4>2. CASE j # k
        <5>1. PICK u : u = snd.meta[j]
          OBVIOUS
        <5>2. u \in Tensors /\ DOMAIN snd.meta = 1 .. Len(snd.meta)
          BY <1>9, <5>1 DEF BucketInv, EngineTypeOK
        <5>3. u.at + u.n <= t.at \/ t.at + t.n <= u.at
          <6>1. j < k \/ k < j
            BY <2>1, <4>2, <5>2
          <6>2. CASE j < k
            <7>1. j \in 1 .. k - 1
              BY <2>1, <5>2, <6>2
            <7> QED
              BY <2>1, <2>3, <5>1, <7>1 DEF BucketInv, PackingSafe
          <6>3. CASE k < j
            <7>1. k \in 1 .. j - 1
              BY <2>1, <5>2, <6>3
            <7> QED
              BY <2>1, <2>3, <5>1, <7>1 DEF BucketInv, PackingSafe
          <6> QED
            BY <6>1, <6>2, <6>3
        <5>4. ASSUME NEW x \in (u.at + 1 .. u.at + u.n) \cap (1 .. BucketSize) PROVE e[x] = u.w
          <6>1. u.at \in Nat /\ u.n \in Nat /\ t.at \in Nat /\ t.n \in Nat
            BY <2>4, <5>2 DEF Tensors
          <6>2. x \notin t.at + 1 .. t.at + t.n
            BY <5>3, <6>1
          <6>3. e[x] = d[x]
            BY <2>8, <6>2
          <6> QED
            BY <3>2, <5>1, <6>3 DEF Written
        <5> QED
          BY <5>1, <5>4 DEF Written
      <4> QED
        BY <4>1, <4>2
    <3>3. ASSUME NEW j \in DOMAIN snd.meta
          PROVE  \/ Written(e, snd.meta[j])
                 \/ \E i \in DOMAIN sDefault' : sDefault'[i] = CopyIn(snd.meta[j], snd.pack)
      <4>1. CASE Written(d, snd.meta[j])
        BY <3>2, <4>1
      <4>2. CASE \E i \in DOMAIN sDefault : sDefault[i] = CopyIn(snd.meta[j], snd.pack)
        <5>1. PICK i \in DOMAIN sDefault : sDefault[i] = CopyIn(snd.meta[j], snd.pack)
          BY <4>2
        <5>2. CASE i = 1
          <6>1. CopyIn(snd.meta[j], snd.pack) = op
            BY <1>5, <5>1, <5>2
          <6>2. op.w = snd.meta[j].w /\ op.at = snd.meta[j].at /\ op.n = snd.meta[j].n
            BY <6>1 DEF CopyIn
          <6> QED
            BY <2>2, <2>3, <3>1, <6>2 DEF Written
        <5>3. CASE i # 1
          <6>1. i - 1 \in 1 .. Len(sDefault) - 1 /\ (i - 1) + 1 = i
            BY <1>4, <5>3
          <6>2. i - 1 \in DOMAIN sDefault' /\ sDefault'[i - 1] = CopyIn(snd.meta[j], snd.pack)
            BY <1>5, <5>1, <6>1
          <6> QED
            BY <6>2
        <5> QED
          BY <5>2, <5>3
      <4> QED
        BY <2>6, <4>1, <4>2 DEF BucketInv, PackingSafe
    <3>4. ASSUME NEW i \in DOMAIN sDefault'
          PROVE  \/ \E j \in DOMAIN snd.meta : sDefault'[i] = CopyIn(snd.meta[j], snd.pack)
                 \/ /\ i = Len(sDefault') /\ snd.pc = "flush" /\ snd.prev # Nil
                    /\ sDefault'[i] = WaitFor(snd.prev)
      <4>1. i + 1 \in DOMAIN sDefault /\ sDefault'[i] = sDefault[i + 1]
            /\ (i + 1 = Len(sDefault) => i = Len(sDefault'))
        BY <1>4, <1>5
      <4> QED
        BY <4>1 DEF BucketInv, PackingSafe
    <3>5. snd.pc = "flush" /\ sNccl # <<>> => sDefault' # <<>> /\ sDefault'[Len(sDefault')] = WaitFor(snd.prev)
      <4> SUFFICES ASSUME snd.pc = "flush", sNccl # <<>>
                   PROVE  sDefault' # <<>> /\ sDefault'[Len(sDefault')] = WaitFor(snd.prev)
        OBVIOUS
      <4>1. sDefault[Len(sDefault)] = WaitFor(snd.prev)
        BY DEF BucketInv, PackingSafe
      <4>2. Len(sDefault) # 1
        BY <1>5, <2>2, <4>1 DEF WaitFor
      <4>3. Len(sDefault) - 1 \in 1 .. Len(sDefault) - 1 /\ (Len(sDefault) - 1) + 1 = Len(sDefault)
        BY <1>4, <1>5, <4>2
      <4> QED
        BY <1>5, <4>1, <4>3
    <3>6. snd.pc \notin {"idle", "sync", "done"}
      BY <1>1 DEF BucketInv, PackingSafe
    <3>7. WaitFor(snd.prev)' = WaitFor(snd.prev)
      BY <1>1 DEF WaitFor
    <3>8. \A j \in DOMAIN snd.meta :
            /\ snd.meta[j].at + snd.meta[j].n <= snd.offset
            /\ \A i \in 1 .. j - 1 : snd.meta[i].at + snd.meta[i].n <= snd.meta[j].at
      BY DEF BucketInv, PackingSafe
    <3>9. \A j \in DOMAIN snd.meta : Written(e, snd.meta[j]) => Written(sData[snd.pack], snd.meta[j])'
      BY <1>1, <2>10 DEF Written
    <3> QED
      BY <1>1, <1>5, <3>3, <3>4, <3>5, <3>6, <3>7, <3>8, <3>9 DEF PackingSafe
  <2> QED
    BY <1>1, <1>7, <1>8, <2>11, <2>12, <2>13 DEF BucketInv, receiver
<1>11. CASE ~\E j \in DOMAIN snd.meta : op = CopyIn(snd.meta[j], snd.pack)
  <2>1. 1 = Len(sDefault) /\ snd.pc = "flush" /\ snd.prev # Nil /\ op = WaitFor(snd.prev)
    BY <1>5, <1>11 DEF BucketInv, PackingSafe
  <2>2. /\ op.op = "wait" /\ op.buf = snd.prev /\ op.n = sendEvent[snd.prev].made
    BY <2>1 DEF WaitFor
  <2>3. sData' = sData /\ sendEvent[snd.prev].reached >= sendEvent[snd.prev].made
    BY <1>3, <2>2
  <2>4. snd.prev \in Buffers
    BY <2>1 DEF BucketInv, EngineTypeOK
  <2>5. sendEvent[snd.prev].reached \in Nat
    BY <2>4 DEF BucketInv, EngineTypeOK
  <2>6. sNccl = <<>>
    BY <2>3, <2>4, <2>5 DEF BucketInv, BucketsInOrder, SendEventIs
  <2>7. Len(sDefault') = 0 /\ DOMAIN sDefault' = {} /\ DOMAIN sDefault' = 1 .. Len(sDefault')
    <3>1. Len(sDefault') = 1 - 1 /\ DOMAIN sDefault' = 1 .. 1 - 1
      BY <1>5, <2>1
    <3>2. 1 - 1 = 0 /\ 1 .. 0 = {}
      OBVIOUS
    <3> QED
      BY <3>1, <3>2
  <2>8. EngineTypeOK' /\ BucketsInOrder'
    <3>1. EngineTypeOK'
      BY <1>1, <2>3 DEF BucketInv, EngineTypeOK, receiver
    <3>2. BucketsInOrder'
      BY <1>1, <1>6, <2>3 DEF BucketInv, BucketsInOrder, receiver, SendEventIs, AllWritten, Written
    <3> QED
      BY <3>1, <3>2
  <2>9. PackingSafe'
    <3>1. \A j \in DOMAIN snd.meta : CopyIn(snd.meta[j], snd.pack) # op
      BY <2>2 DEF CopyIn
    <3>2. DOMAIN sDefault = {1}
      <4>1. 1 .. 1 = {1}
        OBVIOUS
      <4> QED
        BY <1>4, <2>1, <4>1
    <3>3. \A j \in DOMAIN snd.meta : Written(sData[snd.pack], snd.meta[j])
      BY <1>5, <3>1, <3>2 DEF BucketInv, PackingSafe
    <3>4. \A j \in DOMAIN snd.meta : Written(sData[snd.pack], snd.meta[j])'
      BY <1>1, <2>3, <3>3 DEF Written
    <3>5. Len(sDefault') \in Nat
      BY <2>7
    <3>6. \A j \in DOMAIN snd.meta :
            /\ snd.meta[j].at + snd.meta[j].n <= snd.offset
            /\ \A i \in 1 .. j - 1 : snd.meta[i].at + snd.meta[i].n <= snd.meta[j].at
      BY DEF BucketInv, PackingSafe
    <3> QED
      BY <1>1, <2>1, <2>6, <2>7, <3>4, <3>5, <3>6 DEF PackingSafe
  <2> QED
    BY <1>1, <1>7, <1>8, <2>8, <2>9 DEF BucketInv, receiver
<1> QED
  BY <1>10, <1>11

\* The bucket and its header are handed to NCCL.
LEMMA FlushIssuesKeeps ==
  ASSUME BucketInv, FlushIssues
  PROVE  BucketInv'
<1> DEFINE b == snd.pack
           last == snd.next > Len(model)
           pc == IF last THEN "sync" ELSE "pack"
<1>1. /\ snd.pc = "flush" /\ sDefault = <<>> /\ sDefault' = <<>>
      /\ sMeta' = [sMeta EXCEPT ![b] = [tensors |-> snd.meta, last |-> last]]
      /\ sNccl' = sNccl \o ToSend(b, 3)
      /\ sendEvent' = [sendEvent EXCEPT ![b].made = @ + 1]
      /\ snd' = [snd EXCEPT !.pc = pc, !.prev = b, !.pack = 1 - b, !.meta = <<>>, !.offset = 0]
      /\ UNCHANGED <<direct, model, sData, goals, faults, receiver>>
  BY DEF FlushIssues, ToSend
<1>2. /\ snd'.pc = pc /\ snd'.prev = b /\ snd'.pack = 1 - b /\ snd'.meta = <<>>
      /\ snd'.next = snd.next /\ snd'.round = snd.round /\ snd'.offset = 0
  BY <1>1 DEF BucketInv, EngineTypeOK
<1>3. b \in Buffers /\ 1 - b \in Buffers /\ 1 - (1 - b) = b /\ b # Nil
  BY EngineConstants DEF BucketInv, EngineTypeOK, Buffers
<1>4. sNccl = <<>> /\ sNccl' = ToSend(b, 3)
  <2>1. sNccl = <<>>
    BY <1>1 DEF BucketInv, PackingSafe
  <2> QED
    BY <1>1, <2>1 DEF ToSend
<1>5. PartsTyped /\ ~HeaderSent /\ Unsent = <<>>
  BY <1>4, BucketParts, SendStages DEF HeaderSent
<1>6. snd.meta \in Seq(Tensors) /\ last \in BOOLEAN /\ Len(model) \in Nat /\ snd.next \in Nat
  BY DEF BucketInv, EngineTypeOK
<1>7. sMeta'[b] = [tensors |-> snd.meta, last |-> last] /\ sMeta' \in [Buffers -> Metas]
  <2>1. [tensors |-> snd.meta, last |-> last] \in Metas
    BY <1>6 DEF Metas
  <2> QED
    BY <1>1, <1>3, <2>1 DEF BucketInv, EngineTypeOK
<1>8. HeaderSent' /\ Unsent' = snd.meta
  <2>1. HeadOp(sNccl') = "meta" /\ Head(sNccl').buf = b
    BY <1>4, SendStages
  <2> QED
    BY <1>7, <2>1 DEF HeaderSent, Unsent
<1>9. EngineTypeOK'
  <2>1. pc \in SndPcs
    BY DEF SndPcs
  <2>2. sendEvent' \in [Buffers -> [made : Nat, reached : Nat]]
    <3>1. sendEvent \in [Buffers -> [made : Nat, reached : Nat]]
      BY DEF BucketInv, EngineTypeOK
    <3> HIDE DEF b
    <3>2. sendEvent[b] \in [made : Nat, reached : Nat]
      BY <1>3, <3>1
    <3>3. [sendEvent[b] EXCEPT !.made = @ + 1] \in [made : Nat, reached : Nat]
      BY <3>2
    <3>4. sendEvent' = [sendEvent EXCEPT ![b] = [sendEvent[b] EXCEPT !.made = @ + 1]]
      BY <1>1
    <3> QED
      BY <3>1, <3>3, <3>4
  <2>3. snd' \in [pc : SndPcs, round : Nat, next : Nat \ {0}, pack : Buffers,
                  prev : Buffers \cup {Nil}, meta : Seq(Tensors), offset : Nat]
    <3>1. <<>> \in Seq(Tensors)
      BY EmptySeq
    <3> HIDE DEF pc, b
    <3> QED
      BY <1>1, <1>3, <2>1, <3>1 DEF BucketInv, EngineTypeOK
  <2> QED
    BY <1>1, <1>7, <2>2, <2>3 DEF BucketInv, EngineTypeOK, receiver
<1> HIDE DEF b
<1>10. /\ Fresh' = Fresh /\ Copied' = Copied /\ From(1)' = From(1)
       /\ Unpacked' = Unpacked /\ (LastHere <=> LastHere')
  BY <1>1, <1>2, ReceiverSame, RestSame DEF receiver
<1>11. RoundsInStep' /\ Flow'
  <2>1. SenderMid /\ SenderMid'
    BY <1>1, <1>2, <1>8 DEF SenderMid
  <2>2. PICK c, f, p, r : c = Copied /\ f = Ids(Fresh) /\ p = Ids(snd.meta) /\ r = Unpacked
    OBVIOUS
  <2>3. c \in Seq(Weights) /\ f \in Seq(Weights) /\ p \in Seq(Weights) /\ r \in Seq(Weights)
    BY <1>5, <2>2 DEF PartsTyped
  <2>4. /\ Line(c, f, p, <<>>, r) = Line(c, f, <<>>, p, r)
        /\ SenderLine(p, <<>>, r) = SenderLine(<<>>, p, r)
    BY <2>3, MoveSend, MoveSendOut
  <2>5. Pending' = Line(c, f, p, <<>>, r) /\ Outgoing' = SenderLine(p, <<>>, r)
    BY <1>2, <1>8, <1>10, <2>2, IdsOfNone, Zenon DEF Pending, Outgoing
  <2>6. Pending = Line(c, f, <<>>, p, r) /\ Outgoing = SenderLine(<<>>, p, r)
    BY <1>5, <2>2, IdsOfNone, Zenon DEF Pending, Outgoing
  <2>7. Pending' = Pending /\ Outgoing' = Outgoing
    BY <2>4, <2>5, <2>6
  <2> QED
    BY <1>1, <1>2, <1>10, <2>1, <2>7, LineKept DEF BucketInv, receiver
<1>12. CopiesSafe'
  BY <1>1, CopiesSame DEF BucketInv, receiver
<1>13. \A t : \A i : Written(sData[i], t)' <=> Written(sData[i], t)
  BY <1>1 DEF Written
<1>14. AllWritten(sData[b], snd.meta)
  <2>1. \A j \in DOMAIN snd.meta : Written(sData[b], snd.meta[j])
    BY <1>1 DEF BucketInv, PackingSafe, b
  <2> QED
    BY <2>1 DEF AllWritten
<1>15. BucketsInOrder'
  <2>1. Len(sNccl') = 3 /\ sNccl' # <<>> /\ Len(sNccl) = 0
    BY <1>4, SendStages, EmptySeq
  <2>2. \A i \in Buffers : SendEventIs(i, 0)
    BY <1>4 DEF BucketInv, BucketsInOrder
  <2>3. \A i \in Buffers :
          sendEvent'[i].made = sendEvent'[i].reached + (IF i = b THEN 1 ELSE 0)
    <3>1. \A i \in Buffers : sendEvent[i].made \in Nat /\ sendEvent[i].reached \in Nat
      BY DEF BucketInv, EngineTypeOK
    <3>2. /\ sendEvent'[b].made = sendEvent[b].made + 1 /\ sendEvent'[b].reached = sendEvent[b].reached
          /\ \A i \in Buffers : i # b => sendEvent'[i] = sendEvent[i]
      BY <1>1, <1>3 DEF BucketInv, EngineTypeOK, b
    <3> QED
      <4>1. ASSUME NEW i \in Buffers, i = b PROVE SendEventIs(i, 1)'
        BY <1>3, <2>2, <3>1, <3>2, <4>1 DEF SendEventIs
      <4>2. ASSUME NEW i \in Buffers, i # b PROVE SendEventIs(i, 0)'
        BY <2>2, <3>1, <3>2, <4>2 DEF SendEventIs
      <4> QED
        BY <4>1, <4>2 DEF SendEventIs
  <2>4. sMeta'[b].last <=> snd'.pc = "sync"
    <3>1. sMeta'[b].last = last
      BY <1>7
    <3>2. CASE last
      BY <1>2, <3>1, <3>2
    <3>3. CASE ~last
      BY <1>2, <3>1, <3>3
    <3> QED
      BY <3>2, <3>3
  <2>5. AllWritten(sData'[b], sMeta'[b].tensors)
    BY <1>1, <1>7, <1>14 DEF AllWritten, Written
  <2>6. snd'.pc \notin {"idle", "done"} /\ (snd'.pc = "sync" => snd'.next > Len(model'))
    BY <1>1, <1>2
  <2>7. /\ rcv.pc # "raw" /\ Len(rNccl) \in 0 .. 2 /\ rNccl = ToReceive(rcv.buf, Len(rNccl))
        /\ rcv.pc \in {"idle", "built", "done"} => rNccl = <<>>
        /\ rcv.pc \in {"idle", "done"} => rDefault = <<>>
        /\ Len(rNccl) # 1
        /\ rcv.pc = "wait" /\ rNccl = <<>> => AllWritten(rData[rcv.buf], rMeta[rcv.buf].tensors)
    BY <2>1 DEF BucketInv, BucketsInOrder
  <2>8. rcv'.pc = "wait" /\ rNccl' = <<>> => AllWritten(rData'[rcv'.buf], rMeta'[rcv'.buf].tensors)
    BY <1>1, <2>7 DEF receiver, AllWritten, Written
  <2>9. UNCHANGED <<rcv, rNccl, rDefault>>
    BY <1>1 DEF receiver
  <2>10. /\ Len(sNccl') \in 0 .. 3 /\ sNccl' = ToSend(snd'.prev, Len(sNccl'))
         /\ snd'.prev \in Buffers /\ snd'.prev = 1 - snd'.pack
    <3>1. Len(sNccl') = 3 /\ snd'.prev = b /\ snd'.pack = 1 - b
      BY <1>2, <2>1
    <3>2. sNccl' = ToSend(snd'.prev, Len(sNccl'))
      BY <1>4, <3>1, Zenon
    <3>3. snd'.prev = 1 - snd'.pack
      BY <1>3, <3>1
    <3> QED
      BY <1>3, <3>1, <3>2, <3>3
  <2>11. \A i \in Buffers :
           SendEventIs(i, IF i = snd.prev /\ sNccl # <<>> THEN 1 ELSE 0)'
    BY <1>2, <2>1, <2>3 DEF SendEventIs
  <2>12. /\ rcv'.pc # "raw" /\ Len(rNccl') \in 0 .. 2 /\ rNccl' = ToReceive(rcv'.buf, Len(rNccl'))
         /\ rcv'.pc \in {"idle", "built", "done"} => rNccl' = <<>>
         /\ rcv'.pc \in {"idle", "done"} => rDefault' = <<>>
         /\ Len(rNccl') # 1 /\ Len(sNccl') # 2
    BY <2>1, <2>7, <2>9
  <2>13. sMeta'[snd'.prev].last <=> snd'.pc = "sync"
    BY <1>2, <2>4
  <2>14. AllWritten(sData'[snd'.prev], sMeta'[snd'.prev].tensors)
    BY <1>2, <2>5
  <2> HIDE DEF last, pc
  <2> QED
    BY <2>6, <2>8, <2>10, <2>11, <2>12, <2>13, <2>14 DEF BucketsInOrder
<1>16. PackingSafe'
  <2>1. DOMAIN sDefault' = 1 .. Len(sDefault') /\ Len(sDefault') \in Nat
        /\ DOMAIN sDefault' = {} /\ DOMAIN snd'.meta = {}
    BY <1>1, <1>2
  <2> QED
    BY <1>1, <1>2, <2>1 DEF PackingSafe
<1> QED
  BY <1>1, <1>9, <1>11, <1>12, <1>15, <1>16 DEF BucketInv

\* A round begins: all of its weights join the line.
BeginsLine ==
  /\ EngineTypeOK' /\ Unpacked' = From(1)' /\ From(1)' \in Seq(Weights)
  /\ goals' = Append(goals, Chosen(From(1)')) /\ Chosen(From(1)') \in Seq(Weights)

LEMMA BeginsTyped ==
  ASSUME EngineTypeOK, NEW m \in Models, SendBegins(m)
  PROVE  BeginsLine
<1>1. /\ model' = m /\ goals' = Append(goals, Chosen([i \in DOMAIN m |-> <<snd.round + 1, i>>]))
      /\ snd' = [pc |-> "pack", round |-> snd.round + 1, next |-> 1, pack |-> 0,
                 prev |-> Nil, meta |-> <<>>, offset |-> 0]
      /\ UNCHANGED <<direct, sDefault, sNccl, sMeta, sData, sendEvent, faults, receiver>>
  BY DEF SendBegins
<1>2. m \in Seq(Nat) /\ Len(m) \in Nat /\ DOMAIN m = 1 .. Len(m)
  BY EngineConstants
<1>3. From(1)' = [i \in DOMAIN m |-> <<snd.round + 1, i>>]
  <2>1. Len(m) + 1 - 1 = Len(m) /\ \A k \in 1 .. Len(m) : 1 + k - 1 = k
    BY <1>2
  <2>2. From(1)' = [k \in 1 .. Len(m) + 1 - 1 |-> <<snd.round + 1, 1 + k - 1>>]
    BY <1>1 DEF From
  <2> QED
    BY <1>2, <2>1, <2>2
<1>4. EngineTypeOK' \/ Chosen(From(1)') \notin Seq(Weights)
  <2> SUFFICES ASSUME Chosen(From(1)') \in Seq(Weights) PROVE EngineTypeOK'
    OBVIOUS
  <2>1. goals' \in Seq(Seq(Weights))
    BY <1>1, <1>3, AppendProperties DEF EngineTypeOK
  <2>2. snd' \in [pc : SndPcs, round : Nat, next : Nat \ {0}, pack : Buffers,
                  prev : Buffers \cup {Nil}, meta : Seq(Tensors), offset : Nat]
    <3>1. /\ "pack" \in SndPcs /\ snd.round + 1 \in Nat /\ 1 \in Nat \ {0} /\ 0 \in Buffers
          /\ <<>> \in Seq(Tensors) /\ 0 \in Nat
      BY EmptySeq DEF EngineTypeOK, SndPcs, Buffers
    <3> QED
      BY <1>1, <3>1
  <2> QED
    BY <1>1, <1>2, <2>1, <2>2 DEF EngineTypeOK, receiver
<1>5. From(1)' \in Seq(Weights)
  <2>1. snd.round + 1 \in Nat
    BY SMTT(20) DEF EngineTypeOK
  <2>2. From(1)' \in [1 .. Len(m) -> Weights]
    <3>1. \A i \in DOMAIN m : <<snd.round + 1, i>> \in Weights
      BY <1>2, <2>1, EngineConstants DEF Weights
    <3> QED
      BY <1>2, <1>3, <3>1
  <2> QED
    BY <1>2, <2>2
<1>6. Unpacked' = From(1)'
  <2>1. snd'.next = 1 /\ model' = m
    BY <1>1
  <2>2. CASE 1 <= Len(m)
    BY <2>1, <2>2 DEF Unpacked, From
  <2>3. CASE ~(1 <= Len(m))
    <3>1. DOMAIN m = {}
      BY <1>2, <2>3
    <3>2. From(1)' = <<>>
      BY <1>3, <3>1
    <3> QED
      BY <2>1, <2>3, <3>2 DEF Unpacked
  <2> QED
    BY <2>2, <2>3
<1>7. Chosen(From(1)') \in Seq(Weights)
  BY <1>5, ChosenTyped
<1> QED
  BY <1>1, <1>3, <1>4, <1>5, <1>6, <1>7 DEF BeginsLine

LEMMA BeginsKeepsLine ==
  ASSUME EngineTypeOK, RoundsInStep, Flow, PartsTyped, NEW m \in Models, SendBegins(m),
         sNccl = <<>>
  PROVE  RoundsInStep' /\ Flow'
<1>1. BeginsLine
  BY BeginsTyped
<1>2. /\ snd.pc \in {"idle", "done"} /\ snd'.pc = "pack" /\ snd'.round = snd.round + 1
      /\ snd'.meta = <<>>
      /\ UNCHANGED <<sNccl, sMeta, receiver>>
  BY DEF SendBegins
<1>3. ~SenderMid /\ SenderMid' /\ Unsent = <<>> /\ Unsent' = <<>>
  BY <1>2, SendStages DEF SenderMid, HeaderSent, Unsent
<1>4. Fresh' = Fresh /\ Copied' = Copied /\ (LastHere <=> LastHere')
  BY <1>2, ReceiverSame DEF receiver
<1>5. PICK c, f, r : c = Copied /\ f = Ids(Fresh) /\ r = From(1)'
  OBVIOUS
<1>6. c \in Seq(Weights) /\ f \in Seq(Weights) /\ r \in Seq(Weights)
  BY <1>1, <1>5 DEF PartsTyped, BeginsLine
<1>7. Pending' = Line(c, f, <<>>, <<>>, r) /\ Outgoing' = r
  <2>1. Pending' = Line(c, f, <<>>, <<>>, r) /\ Outgoing' = SenderLine(<<>>, <<>>, r)
    BY <1>1, <1>2, <1>3, <1>4, <1>5, IdsOfNone, Zenon DEF Pending, Outgoing, BeginsLine
  <2> QED
    BY <1>6, <2>1, MoveBeginOut
<1>8. Pending = Line(c, f, <<>>, <<>>, <<>>)
  <2>1. Outgoing = <<>>
    BY <1>3 DEF RoundsInStep
  <2>2. Pending = c \o (f \o Outgoing)
    BY <1>5, Zenon DEF Pending, Outgoing, Line
  <2>3. SenderLine(<<>>, <<>>, <<>>) = <<>>
    BY MoveBeginOut, EmptySeq
  <2> QED
    BY <2>1, <2>2, <2>3 DEF Line
<1>9. PICK all : all = FlattenSeq(goals)
  OBVIOUS
<1>10. PICK p : p = Pending
  OBVIOUS
<1>11. p \in Seq(Weights)
  <2>1. <<>> \in Seq(Weights)
    BY EmptySeq
  <2> QED
    BY <1>6, <1>8, <1>10, <2>1, LineTyped
<1>12. Flow'
  <2>1. Pending' = p \o r
    BY <1>6, <1>7, <1>8, <1>10, MoveBegin
  <2>2. Chosen(p \o r) = Chosen(p) \o Chosen(r)
    BY <1>6, <1>11, ChosenConcat
  <2>3. PICK cp, cr : cp = Chosen(p) /\ cr = Chosen(r)
    OBVIOUS
  <2>4. cp \in Seq(Weights) /\ cr \in Seq(Weights) /\ loaded \in Seq(Weights)
    BY <1>6, <1>11, <2>3, ChosenTyped DEF EngineTypeOK
  <2>5. Associates(loaded, cp, cr)
    BY <2>4, Association
  <2>6. loaded \o cp = all
    BY <1>9, <1>10, <2>3 DEF Flow
  <2>7. FlattenSeq(Append(goals, cr)) = all \o cr
    BY <1>9, <2>4, FlattenAppend DEF EngineTypeOK
  <2>8. goals' = Append(goals, cr) /\ loaded' = loaded
    BY <1>1, <1>2, <1>5, <2>3 DEF BeginsLine, receiver
  <2>9. loaded \o (cp \o cr) = FlattenSeq(goals')
    BY <2>5, <2>6, <2>7, <2>8 DEF Associates
  <2> QED
    BY <2>1, <2>2, <2>3, <2>8, <2>9 DEF Flow
<1>13. RoundsInStep'
  <2>1. PICK cr : cr = Chosen(r)
    OBVIOUS
  <2>2. goals' = Append(goals, cr) /\ goals \in Seq(Seq(Weights)) /\ cr \in Seq(Weights)
    BY <1>1, <1>5, <2>1 DEF BeginsLine, EngineTypeOK
  <2>3. Len(goals') = Len(goals) + 1 /\ goals' # <<>> /\ goals'[Len(goals')] = cr
    BY <2>2, AppendProperties
  <2>4. goals'[Len(goals')] = Chosen(From(1))'
    BY <1>5, <2>1, <2>3 DEF Chosen, Wanted
  <2>5. reported' = reported /\ reported \in Nat /\ snd.round \in Nat
    BY <1>2 DEF receiver, EngineTypeOK
  <2> QED
    BY <1>2, <1>3, <1>4, <1>5, <1>7, <2>3, <2>4, <2>5 DEF RoundsInStep
<1> QED
  BY <1>12, <1>13

LEMMA BucketSendBeginsKeeps ==
  ASSUME BucketInv, NEW m \in Models, SendBegins(m)
  PROVE  BucketInv'
<1>1. /\ snd.pc \in {"idle", "done"} /\ model' = m
      /\ snd' = [pc |-> "pack", round |-> snd.round + 1, next |-> 1, pack |-> 0,
                 prev |-> Nil, meta |-> <<>>, offset |-> 0]
      /\ UNCHANGED <<direct, sDefault, sNccl, sMeta, sData, sendEvent, faults, receiver>>
  BY DEF SendBegins
<1>2. sNccl = <<>> /\ sDefault = <<>> /\ snd.meta = <<>>
  BY <1>1 DEF BucketInv, BucketsInOrder, PackingSafe
<1>3. EngineTypeOK'
  BY BeginsTyped DEF BucketInv, BeginsLine
<1>4. RoundsInStep' /\ Flow'
  BY <1>2, BucketParts, BeginsKeepsLine DEF BucketInv
<1>5. CopiesSafe'
  BY <1>1, CopiesSame DEF BucketInv, receiver
<1>6. BucketsInOrder'
  <2>1. Len(sNccl) = 0 /\ ToSend(Nil, 0) = <<>> /\ ~HeaderSent'
    BY <1>1, <1>2, SendStages DEF HeaderSent
  <2> QED
    BY <1>1, <1>2, <2>1 DEF BucketInv, BucketsInOrder, receiver, SendEventIs, AllWritten, Written
<1>7. PackingSafe'
  <2>1. DOMAIN sDefault' = {} /\ DOMAIN snd'.meta = {}
    BY <1>1, <1>2
  <2> QED
    BY <1>1, <1>2, <2>1 DEF BucketInv, PackingSafe
<1> QED
  BY <1>1, <1>3, <1>4, <1>5, <1>6, <1>7 DEF BucketInv

LEMMA BucketSendRaisesKeeps ==
  ASSUME BucketInv, SendRaises
  PROVE  BucketInv'
<1>1. /\ snd.pc = "pack" /\ snd' = [snd EXCEPT !.pc = "raised"] /\ faults' \in {faults, faults + 1}
      /\ UNCHANGED <<direct, model, sDefault, sNccl, sMeta, sData, sendEvent, goals, receiver>>
  BY DEF SendRaises, Packing
<1>2. /\ snd'.meta = snd.meta /\ snd'.next = snd.next /\ snd'.round = snd.round
      /\ snd'.pc = "raised" /\ snd'.pack = snd.pack /\ snd'.prev = snd.prev
      /\ snd'.offset = snd.offset
  BY <1>1 DEF BucketInv, EngineTypeOK
<1>3. EngineTypeOK'
  <2>1. "raised" \in SndPcs
    BY DEF SndPcs
  <2>2. faults' \in Nat
    BY <1>1 DEF BucketInv, EngineTypeOK
  <2>3. snd' \in [pc : SndPcs, round : Nat, next : Nat \ {0}, pack : Buffers,
                  prev : Buffers \cup {Nil}, meta : Seq(Tensors), offset : Nat]
    BY <1>1, <2>1 DEF BucketInv, EngineTypeOK
  <2> QED
    BY <1>1, <2>2, <2>3 DEF BucketInv, EngineTypeOK, receiver
<1>4. /\ Fresh' = Fresh /\ Copied' = Copied /\ Unsent' = Unsent /\ From(1)' = From(1)
      /\ Unpacked' = Unpacked
      /\ (LastHere <=> LastHere') /\ (HeaderSent <=> HeaderSent')
  BY <1>1, <1>2, ReceiverSame, SenderQueueSame, RestSame DEF receiver
<1>5. RoundsInStep' /\ Flow'
  <2>1. SenderMid /\ SenderMid'
    BY <1>1, <1>2 DEF SenderMid
  <2> QED
    BY <1>1, <1>2, <1>4, <2>1, LineStays DEF BucketInv, receiver
<1>6. CopiesSafe'
  BY <1>1, CopiesSame DEF BucketInv, receiver
<1>7. BucketsInOrder'
  BY <1>1, <1>2, <1>4, SMTT(20) DEF BucketInv, BucketsInOrder, receiver, SendEventIs, AllWritten, Written
<1>8. PackingSafe'
  <2>1. \A t : Written(sData'[snd'.pack], t) <=> Written(sData[snd.pack], t)
    BY <1>1, <1>2 DEF Written
  <2>2. \A i \in DOMAIN sDefault : \E j \in DOMAIN snd.meta : sDefault[i] = CopyIn(snd.meta[j], snd.pack)
    BY <1>1 DEF BucketInv, PackingSafe
  <2> QED
    BY <1>1, <1>2, <2>1, <2>2 DEF BucketInv, PackingSafe
<1> QED
  BY <1>1, <1>3, <1>5, <1>6, <1>7, <1>8 DEF BucketInv

LEMMA BucketSendReturnsKeeps ==
  ASSUME BucketInv, SendReturns
  PROVE  BucketInv'
<1>1. /\ snd.pc = "sync" /\ sNccl = <<>> /\ snd' = [snd EXCEPT !.pc = "done"]
      /\ UNCHANGED <<direct, model, sDefault, sNccl, sMeta, sData, sendEvent, goals, faults, receiver>>
  BY DEF SendReturns
<1>2. /\ snd'.meta = snd.meta /\ snd'.next = snd.next /\ snd'.round = snd.round
      /\ snd'.pc = "done" /\ snd'.pack = snd.pack /\ snd'.prev = snd.prev
      /\ snd'.offset = snd.offset
  BY <1>1 DEF BucketInv, EngineTypeOK
<1>3. EngineTypeOK'
  <2>1. "done" \in SndPcs
    BY DEF SndPcs
  <2> QED
    BY <1>1, <2>1 DEF BucketInv, EngineTypeOK, receiver
<1>4. /\ Fresh' = Fresh /\ Copied' = Copied /\ Unsent' = Unsent /\ From(1)' = From(1)
      /\ Unpacked' = Unpacked
      /\ (LastHere <=> LastHere') /\ (HeaderSent <=> HeaderSent')
  BY <1>1, <1>2, ReceiverSame, SenderQueueSame, RestSame DEF receiver
<1>5. RoundsInStep' /\ Flow'
  <2>1. ~SenderMid /\ ~SenderMid'
    BY <1>1, <1>2, SendStages DEF SenderMid, HeaderSent
  <2> QED
    BY <1>1, <1>2, <1>4, <2>1, LineStays DEF BucketInv, receiver
<1>6. CopiesSafe'
  BY <1>1, CopiesSame DEF BucketInv, receiver
<1>7. BucketsInOrder'
  <2>1. ~HeaderSent'
    BY <1>1, SendStages DEF HeaderSent
  <2> QED
    BY <1>1, <1>2, <2>1 DEF BucketInv, BucketsInOrder, receiver, SendEventIs, AllWritten, Written
<1>8. PackingSafe'
  <2>1. DOMAIN sDefault' = {} /\ DOMAIN snd'.meta = {} /\ sDefault' = <<>> /\ snd'.meta = <<>>
    BY <1>1, <1>2 DEF BucketInv, PackingSafe
  <2> QED
    BY <1>1, <1>2, <2>1 DEF BucketInv, PackingSafe
<1> QED
  BY <1>1, <1>3, <1>5, <1>6, <1>7, <1>8 DEF BucketInv

\* What the sender packs is not the receiver's business.
LEMMA PackingSame ==
  ASSUME PackingSafe, UNCHANGED <<snd, sDefault, sData>>,
         sNccl' # <<>> => sNccl # <<>>, \A b \in Buffers : sendEvent'[b].made = sendEvent[b].made,
         snd.prev \in Buffers \cup {Nil}
  PROVE  PackingSafe'
<1>1. \A b, t : Written(sData[b], t)' <=> Written(sData[b], t)
  BY DEF Written
<1>2. snd.prev # Nil => WaitFor(snd.prev)' = WaitFor(snd.prev)
  BY DEF WaitFor
<1>3. ASSUME NEW i \in DOMAIN sDefault
      PROVE  \/ \E j \in DOMAIN snd.meta : sDefault[i] = CopyIn(snd.meta[j], snd.pack)
             \/ /\ i = Len(sDefault) /\ snd.pc = "flush" /\ snd.prev # Nil
                /\ sDefault[i] = WaitFor(snd.prev)'
  BY <1>2 DEF PackingSafe
<1>4. ASSUME NEW j \in DOMAIN snd.meta
      PROVE  /\ snd.meta[j].at + snd.meta[j].n <= snd.offset
             /\ \A i \in 1 .. j - 1 : snd.meta[i].at + snd.meta[i].n <= snd.meta[j].at
             /\ \/ Written(sData[snd.pack], snd.meta[j])'
                \/ \E i \in DOMAIN sDefault : sDefault[i] = CopyIn(snd.meta[j], snd.pack)
  BY <1>1 DEF PackingSafe
<1>5. snd.pc = "flush" /\ sNccl' # <<>> =>
        sDefault # <<>> /\ sDefault[Len(sDefault)] = WaitFor(snd.prev)'
  <2> SUFFICES ASSUME snd.pc = "flush", sNccl' # <<>>
               PROVE  sDefault # <<>> /\ sDefault[Len(sDefault)] = WaitFor(snd.prev)'
    OBVIOUS
  <2>1. sDefault # <<>> /\ sDefault[Len(sDefault)] = WaitFor(snd.prev)
        /\ DOMAIN sDefault = 1 .. Len(sDefault) /\ Len(sDefault) \in Nat
    BY DEF PackingSafe
  <2>2. Len(sDefault) \in DOMAIN sDefault
    BY <2>1
  <2>3. sDefault[Len(sDefault)].op = "wait"
    BY <2>1 DEF WaitFor
  <2>4. ~\E j \in DOMAIN snd.meta : sDefault[Len(sDefault)] = CopyIn(snd.meta[j], snd.pack)
    <3>1. \A j : CopyIn(snd.meta[j], snd.pack).op = "copy"
      BY DEF CopyIn
    <3> QED
      BY <2>3, <3>1
  <2> QED
    BY <1>3, <2>1, <2>2, <2>4
<1> QED
  BY <1>1, <1>2, <1>3, <1>4, <1>5 DEF PackingSafe

\* A send is over: the buffer may be packed again.
LEMMA EventReachedKeeps ==
  ASSUME BucketInv, EventReached
  PROVE  BucketInv'
<1>1. /\ sNccl # <<>> /\ HeadOp(sNccl) = "event"
      /\ sendEvent' = [sendEvent EXCEPT ![Head(sNccl).buf].reached = @ + 1]
      /\ sNccl' = Tail(sNccl)
      /\ UNCHANGED <<direct, model, snd, sDefault, sMeta, sData, goals, faults, receiver>>
  BY DEF EventReached, HeadOp
<1>2. PICK b : b = snd.prev
  OBVIOUS
<1>3. b \in Buffers /\ sNccl = ToSend(b, 1) /\ Len(sNccl) = 1
  <2>1. b \in Buffers /\ sNccl = ToSend(b, Len(sNccl)) /\ Len(sNccl) \in 0 .. 3
    BY <1>1, <1>2 DEF BucketInv, BucketsInOrder
  <2> QED
    BY <1>1, <2>1, SendStages, SMTT(20)
<1>4. sNccl' = <<>> /\ Head(sNccl).buf = b /\ sNccl' = ToSend(b, 0) /\ Len(sNccl') = 0
  BY <1>1, <1>3, SendStages
<1>5. ~HeaderSent /\ ~HeaderSent'
  BY <1>1, <1>4, SendStages DEF HeaderSent
<1>6. /\ sendEvent \in [Buffers -> [made : Nat, reached : Nat]]
      /\ sendEvent' \in [Buffers -> [made : Nat, reached : Nat]]
      /\ sendEvent'[b].made = sendEvent[b].made /\ sendEvent'[b].reached = sendEvent[b].reached + 1
      /\ \A i \in Buffers : i # b => sendEvent'[i] = sendEvent[i]
  <2>1. sendEvent \in [Buffers -> [made : Nat, reached : Nat]]
    BY DEF BucketInv, EngineTypeOK
  <2>2. PICK e : e = [sendEvent[b] EXCEPT !.reached = @ + 1]
    OBVIOUS
  <2>3. e \in [made : Nat, reached : Nat] /\ e.made = sendEvent[b].made
        /\ e.reached = sendEvent[b].reached + 1
    BY <1>3, <2>1, <2>2
  <2>4. sendEvent' = [sendEvent EXCEPT ![b] = e]
    BY <1>1, <1>4, <2>2
  <2> QED
    BY <1>3, <2>1, <2>3, <2>4
<1>7. EngineTypeOK'
  BY <1>1, <1>6 DEF BucketInv, EngineTypeOK, receiver
<1>8. /\ Fresh' = Fresh /\ Copied' = Copied /\ Unsent' = Unsent /\ From(1)' = From(1)
      /\ Unpacked' = Unpacked /\ (LastHere <=> LastHere')
  BY <1>1, <1>5, ReceiverSame, RestSame DEF receiver, Unsent
<1>9. RoundsInStep' /\ Flow'
  <2>1. SenderMid <=> SenderMid'
    BY <1>1, <1>5 DEF SenderMid
  <2> QED
    BY <1>1, <1>8, <2>1, LineStays DEF BucketInv, receiver
<1>10. CopiesSafe'
  BY <1>1, CopiesSame DEF BucketInv, receiver
<1>11. BucketsInOrder'
  <2>1. \A i \in Buffers : sendEvent'[i].made = sendEvent'[i].reached
    <3>1. \A i \in Buffers : sendEvent[i].made = sendEvent[i].reached + (IF i = b THEN 1 ELSE 0)
      BY <1>1, <1>2 DEF BucketInv, BucketsInOrder, SendEventIs
    <3>2. \A i \in Buffers : sendEvent[i].made \in Nat /\ sendEvent[i].reached \in Nat
      BY <1>6
    <3> QED
      BY <1>3, <1>6, <3>1, <3>2
  <2>2. \A i \in Buffers : SendEventIs(i, 0)'
    <3>1. \A i \in Buffers : sendEvent'[i].reached \in Nat
      BY <1>6
    <3> QED
      BY <2>1, <3>1 DEF SendEventIs
  <2>3. \A i \in Buffers : SendEventIs(i, IF i = snd.prev /\ sNccl # <<>> THEN 1 ELSE 0)'
    BY <1>4, <2>2 DEF SendEventIs
  <2>4. sNccl' = ToSend(snd.prev', Len(sNccl'))
    BY <1>1, <1>2, <1>4
  <2>5. Len(rNccl') # 1 /\ Len(sNccl') # 2 /\ Len(sNccl') # 3 /\ Len(sNccl') \in 0 .. 3
    <3>1. Len(rNccl) # 1
      <4>1. Len(rNccl) = 1 <=> Len(sNccl) = 2
        BY DEF BucketInv, BucketsInOrder
      <4> QED
        BY <1>3, <4>1
    <3>2. rNccl' = rNccl
      BY <1>1 DEF receiver
    <3> QED
      BY <1>4, <3>1, <3>2
  <2> QED
    BY <1>1, <1>4, <1>5, <2>3, <2>4, <2>5 DEF BucketInv, BucketsInOrder, receiver, AllWritten, Written
<1>12. PackingSafe'
  <2>1. snd.prev \in Buffers \cup {Nil}
    BY <1>2, <1>3
  <2> QED
    BY <1>1, <1>4, <1>6, <2>1, PackingSame DEF BucketInv
<1> QED
  BY <1>1, <1>7, <1>9, <1>10, <1>11, <1>12 DEF BucketInv

\* What the receiver does leaves the sender's side of the invariant alone.
LEMMA ReceiverKeepsSender ==
  ASSUME BucketInv, UNCHANGED <<direct, sender>>
  PROVE  /\ (HeaderSent <=> HeaderSent') /\ (SenderMid <=> SenderMid') /\ Unsent' = Unsent
         /\ Unpacked' = Unpacked /\ From(1)' = From(1) /\ PackingSafe' /\ ~direct'
<1>1. /\ (HeaderSent <=> HeaderSent') /\ (SenderMid <=> SenderMid') /\ Unsent' = Unsent
      /\ Unpacked' = Unpacked /\ From(1)' = From(1)
  BY SenderSame
<1>2. PackingSafe'
  <2>1. snd.prev \in Buffers \cup {Nil} /\ PackingSafe
    BY DEF BucketInv, EngineTypeOK
  <2>2. UNCHANGED <<snd, sDefault, sData, sNccl, sendEvent>>
    BY DEF sender
  <2> QED
    BY <2>1, <2>2, PackingSame
<1> QED
  BY <1>1, <1>2 DEF BucketInv

LEMMA BucketReceiveBeginsKeeps ==
  ASSUME BucketInv, ReceiveBegins
  PROVE  BucketInv'
<1>1. /\ rcv.pc \in {"idle", "done"} /\ rcv' = [pc |-> "wait", buf |-> 0]
      /\ rNccl' = rNccl \o RecvPair(0)
      /\ UNCHANGED <<direct, sender, rDefault, rMeta, rData, loaded, reported>>
  BY DEF ReceiveBegins, BucketInv
<1>2. rNccl = <<>> /\ rDefault = <<>>
  BY <1>1 DEF BucketInv, BucketsInOrder
<1>3. rNccl' = ToReceive(0, 2) /\ Len(rNccl') = 2 /\ rNccl' # <<>> /\ HeadOp(rNccl') = "meta"
      /\ Len(rNccl) = 0
  <2>1. rNccl' = RecvPair(0)
    BY <1>1, <1>2 DEF RecvPair
  <2> QED
    BY <1>2, <2>1, ReceiveStages
<1>4. EngineTypeOK'
  <2>1. "wait" \in RcvPcs /\ 0 \in Buffers
    BY DEF RcvPcs, Buffers
  <2> QED
    BY <1>1, <2>1 DEF BucketInv, EngineTypeOK, sender
<1>5. /\ (HeaderSent <=> HeaderSent') /\ (SenderMid <=> SenderMid') /\ Unsent' = Unsent
      /\ Unpacked' = Unpacked /\ From(1)' = From(1) /\ PackingSafe' /\ ~direct'
  BY <1>1, ReceiverKeepsSender
<1>6. Fresh = <<>> /\ Fresh' = <<>> /\ ~LastHere /\ ~LastHere' /\ Copied' = Copied
  BY <1>1, <1>3 DEF Fresh, HasHeader, RawLeft, LastHere, Copied
<1>7. RoundsInStep' /\ Flow'
  BY <1>1, <1>5, <1>6, LineStays DEF BucketInv, sender
<1>8. CopiesSafe'
  <2>1. rcv'.pc \in RcvPcs
    BY <1>1 DEF RcvPcs
  <2> QED
    BY <1>1, <1>2, <2>1, CopiesSame DEF BucketInv
<1>9. BucketsInOrder'
  <2>1. Len(sNccl) # 2
    BY <1>3 DEF BucketInv, BucketsInOrder
  <2>2. rcv'.buf = 0 /\ rcv'.pc = "wait"
    BY <1>1
  <2> QED
    BY <1>1, <1>3, <1>5, <2>1, <2>2 DEF BucketInv, BucketsInOrder, sender, SendEventIs, AllWritten, Written
<1> QED
  BY <1>4, <1>5, <1>7, <1>8, <1>9 DEF BucketInv

LEMMA ReturnKeepsLine ==
  ASSUME EngineTypeOK, RoundsInStep, Flow, ReceiveReturns, Unsent' = Unsent, Unpacked' = Unpacked,
         From(1)' = From(1), SenderMid <=> SenderMid'
  PROVE  EngineTypeOK' /\ RoundsInStep' /\ Flow'
<1>1. /\ rcv.pc = "built" /\ rNccl = <<>> /\ rDefault = <<>> /\ reported' = reported + 1
      /\ rcv' = [rcv EXCEPT !.pc = "done"]
      /\ UNCHANGED <<direct, sender, rDefault, rNccl, rMeta, rData, loaded>>
  BY DEF ReceiveReturns, Drained
<1>2. rcv'.pc = "done" /\ "done" \in RcvPcs
  BY <1>1 DEF EngineTypeOK, RcvPcs
<1>3. EngineTypeOK'
  <2>1. rcv' \in [pc : RcvPcs, buf : Buffers]
    BY <1>1, <1>2 DEF EngineTypeOK
  <2>2. reported' \in Nat
    BY <1>1, SMTT(20) DEF EngineTypeOK
  <2> QED
    BY <1>1, <2>1, <2>2 DEF EngineTypeOK, sender
<1>4. Fresh = <<>> /\ Fresh' = <<>> /\ LastHere /\ ~LastHere' /\ Copied' = Copied
  BY <1>1, <1>2 DEF Fresh, HasHeader, RawLeft, LastHere, Copied
<1>5. snd'.meta = snd.meta
  BY <1>1 DEF sender
<1>6. Pending' = Pending /\ Outgoing' = Outgoing
  <2>1. Ids(Fresh)' = Ids(Fresh) /\ Ids(Unsent)' = Ids(Unsent) /\ Ids(snd.meta)' = Ids(snd.meta)
    BY <1>4, <1>5 DEF Ids
  <2> QED
    BY <1>4, <2>1, Zenon DEF Pending, Outgoing
<1>7. Flow'
  BY <1>1, <1>6 DEF Flow, sender
<1>8. RoundsInStep'
  <2>1. reported \in Nat /\ snd.round \in Nat
    BY DEF EngineTypeOK
  <2> QED
    BY <1>1, <1>4, <1>6, <2>1 DEF RoundsInStep, sender
<1> QED
  BY <1>3, <1>7, <1>8

LEMMA BucketReturnsKeeps ==
  ASSUME BucketInv, ReceiveReturns
  PROVE  BucketInv'
<1>1. /\ rNccl = <<>> /\ rDefault = <<>> /\ rcv.pc = "built" /\ rcv' = [rcv EXCEPT !.pc = "done"]
      /\ UNCHANGED <<direct, sender, rDefault, rNccl, rMeta, rData, loaded>>
  BY DEF ReceiveReturns, Drained
<1>2. rcv'.pc = "done" /\ "done" \in RcvPcs /\ rcv'.buf = rcv.buf
  BY <1>1 DEF BucketInv, EngineTypeOK, RcvPcs
<1>3. /\ (HeaderSent <=> HeaderSent') /\ (SenderMid <=> SenderMid') /\ Unsent' = Unsent
      /\ Unpacked' = Unpacked /\ From(1)' = From(1) /\ PackingSafe' /\ ~direct'
  BY <1>1, ReceiverKeepsSender
<1>4. EngineTypeOK' /\ RoundsInStep' /\ Flow'
  BY <1>3, ReturnKeepsLine DEF BucketInv
<1>5. CopiesSafe'
  BY <1>1, <1>2, CopiesSame DEF BucketInv
<1>6. BucketsInOrder'
  BY <1>1, <1>2, <1>3 DEF BucketInv, BucketsInOrder, sender, SendEventIs, AllWritten, Written
<1> QED
  BY <1>3, <1>4, <1>5, <1>6 DEF BucketInv

\* The first copy of the receiver's default stream is the first of what it copies.
LEMMA CopiedFirst ==
  ASSUME rDefault \in Seq(CopyOps), rDefault # <<>>, rDefault' = Tail(rDefault), NEW t,
         t = Head(rDefault).t
  PROVE  Copied = <<t.w>> \o Copied' /\ Copied' \in Seq(Weights) /\ t.w \in Weights
<1>1. /\ Len(rDefault) \in Nat \ {0} /\ DOMAIN rDefault = 1 .. Len(rDefault)
      /\ rDefault' \in Seq(CopyOps) /\ Len(rDefault') = Len(rDefault) - 1
      /\ Head(rDefault) = rDefault[1]
      /\ \A i \in 1 .. Len(rDefault') : rDefault'[i] = rDefault[i + 1]
  BY EmptySeq
<1>2. t = Head(rDefault).t /\ t.w \in Weights
  <2>1. rDefault[1] \in CopyOps
    BY <1>1, ElementOfSeq
  <2> QED
    BY <1>1, <2>1 DEF CopyOps, Tensors
<1>3. Copied = <<t.w>> \o Copied' /\ Copied' \in Seq(Weights)
  <2>1. Copied \in Seq(Weights) /\ Len(Copied) = Len(rDefault)
    BY CopiedIsTyped
  <2>2. Copied' = [i \in 1 .. Len(rDefault') |-> rDefault'[i].t.w] /\ Copied' \in Seq(Weights)
        /\ Len(Copied') = Len(rDefault')
    <3>1. /\ DOMAIN rDefault' = 1 .. Len(rDefault') /\ Len(rDefault') \in Nat
          /\ \A i \in 1 .. Len(rDefault') : rDefault'[i] \in CopyOps
      BY <1>1, LenProperties, ElementOfSeq
    <3>2. Copied' \in [1 .. Len(rDefault') -> Weights]
      BY <3>1 DEF Copied, CopyOps, Tensors
    <3> QED
      BY <3>1, <3>2 DEF Copied
  <2>3. PICK v : v = <<t.w>> \o Copied'
    OBVIOUS
  <2>4. /\ v \in Seq(Weights) /\ Len(v) = Len(rDefault)
        /\ \A i \in 1 .. Len(rDefault) : v[i] = IF i = 1 THEN t.w ELSE Copied'[i - 1]
    <3>1. PICK one, c : one = <<t.w>> /\ c = Copied'
      OBVIOUS
    <3>2. one \in Seq(Weights) /\ Len(one) = 1 /\ one[1] = t.w /\ c \in Seq(Weights)
          /\ Len(c) = Len(rDefault) - 1
      BY <1>1, <1>2, <2>2, <3>1
    <3>3. /\ one \o c \in Seq(Weights) /\ Len(one \o c) = Len(one) + Len(c)
          /\ \A i \in 1 .. Len(one) + Len(c) : (one \o c)[i] =
               IF i <= Len(one) THEN one[i] ELSE c[i - Len(one)]
      BY <3>2, ConcatProperties
    <3> QED
      <4>1. Len(one) + Len(c) = Len(rDefault) /\ one \o c = v
        BY <1>1, <2>3, <3>1, <3>2
      <4>2. \A i \in 1 .. Len(rDefault) : i <= 1 <=> i = 1
        BY <1>1
      <4>3. \A i \in 1 .. Len(rDefault) : v[i] = IF i <= 1 THEN one[i] ELSE c[i - 1]
        BY <3>2, <3>3, <4>1
      <4>4. \A i \in 1 .. Len(rDefault) : v[i] = IF i = 1 THEN t.w ELSE c[i - 1]
        BY <3>2, <4>2, <4>3
      <4>5. v \in Seq(Weights) /\ Len(v) = Len(rDefault)
        BY <3>3, <4>1
      <4> QED
        BY <3>1, <4>4, <4>5
  <2>5. ASSUME NEW i \in 1 .. Len(rDefault) PROVE Copied[i] = v[i]
    <3>1. Copied[i] = rDefault[i].t.w
      BY <1>1 DEF Copied
    <3>2. CASE i = 1
      BY <1>1, <1>2, <2>4, <3>1, <3>2
    <3>3. CASE i # 1
      <4>1. i - 1 \in 1 .. Len(rDefault') /\ (i - 1) + 1 = i
        BY <1>1, <3>3
      <4> QED
        <5>1. v[i] = Copied'[i - 1]
          BY <2>4, <3>3
        <5>2. Copied'[i - 1] = rDefault'[i - 1].t.w
          BY <2>2, <4>1
        <5>3. rDefault'[i - 1] = rDefault[i]
          BY <1>1, <4>1
        <5> QED
          BY <3>1, <5>1, <5>2, <5>3
    <3> QED
      BY <3>2, <3>3
  <2> QED
    BY <2>1, <2>2, <2>3, <2>4, <2>5, SeqEqual
<1> QED
  BY <1>2, <1>3

\* A copy into the model loads the first weight of the line.
Arrives ==
  /\ Len(loaded) < Len(FlattenSeq(goals))
  /\ loaded' = Append(loaded, FlattenSeq(goals)[Len(loaded) + 1])

LEMMA LoadKeeps ==
  ASSUME EngineTypeOK, RoundsInStep, Flow, CopiesSafe, PartsTyped, ReceiverDefaultRuns
  PROVE  /\ EngineTypeOK' /\ RoundsInStep' /\ Flow' /\ CopiesSafe'
         /\ loaded' = loaded \/ Arrives
<1>1. /\ rDefault # <<>> /\ rDefault' = Tail(rDefault)
      /\ UNCHANGED <<direct, sender, rcv, rNccl, rMeta, rData, reported>>
  BY DEF ReceiverDefaultRuns
<1>2. rDefault \in Seq(CopyOps)
  BY DEF CopiesSafe, CopyOps
<1>3. /\ Len(rDefault) \in Nat \ {0} /\ DOMAIN rDefault = 1 .. Len(rDefault)
      /\ rDefault' \in Seq(CopyOps) /\ Len(rDefault') = Len(rDefault) - 1
      /\ Head(rDefault) = rDefault[1]
      /\ \A i \in 1 .. Len(rDefault') : rDefault'[i] = rDefault[i + 1]
  BY <1>1, <1>2, EmptySeq
<1>4. PICK t \in Tensors, b \in Buffers : rDefault[1] = CopyOut(t, b) /\ Written(rData[b], t)
  BY <1>3 DEF CopiesSafe
<1>5. Head(rDefault).t = t /\ Head(rDefault).buf = b
  BY <1>3, <1>4 DEF CopyOut
<1>6. loaded' = IF Wanted(t.w) THEN Append(loaded, t.w) ELSE loaded
  <2> DEFINE bytes == {rData[b][x] : x \in (t.at + 1 .. t.at + t.n) \cap (1 .. BucketSize)}
  <2>1. bytes \subseteq {t.w}
    BY <1>4 DEF Written
  <2>2. loaded' = IF ~Wanted(t.w) THEN loaded
                  ELSE Append(loaded, IF bytes \subseteq {t.w} THEN t.w ELSE <<Nil, bytes>>)
    BY <1>5 DEF ReceiverDefaultRuns
  <2> HIDE DEF bytes
  <2> QED
    BY <2>1, <2>2
<1>7. t.w \in Weights
  BY DEF Tensors
<1>8. CopiesSafe'
  <2>1. \A i \in DOMAIN rDefault' : i + 1 \in DOMAIN rDefault /\ rDefault'[i] = rDefault[i + 1]
    BY <1>3
  <2>2. \A i \in DOMAIN rDefault' :
          \E u \in Tensors, d \in Buffers :
            /\ rDefault'[i] = CopyOut(u, d) /\ Written(rData[d], u)
            /\ rcv.pc = "built" \/ (rcv.pc = "wait" /\ (direct \/ d # rcv.buf))
    BY <2>1 DEF CopiesSafe
  <2>3. \A d, u : Written(rData[d], u)' <=> Written(rData[d], u)
    BY <1>1 DEF Written
  <2> QED
    BY <1>1, <1>3, <2>2, <2>3 DEF CopiesSafe, CopyOps
<1>9. Copied = <<t.w>> \o Copied' /\ Copied' \in Seq(Weights)
  <2>1. rDefault \in Seq(CopyOps) /\ rDefault # <<>> /\ rDefault' = Tail(rDefault)
    BY <1>1, <1>2
  <2> QED
    BY <1>5, <2>1, CopiedFirst
<1>10. /\ Fresh' = Fresh /\ (LastHere <=> LastHere')
       /\ (SenderMid <=> SenderMid') /\ Unsent' = Unsent
       /\ Unpacked' = Unpacked /\ From(1)' = From(1) /\ snd' = snd /\ goals' = goals
  BY <1>1, FreshSame, SenderSame DEF sender
<1>11. PICK l : l = Pending'
  OBVIOUS
<1>12. Pending = <<t.w>> \o l /\ l \in Seq(Weights) /\ Outgoing' = Outgoing
  <2>1. PICK c, f, u, p, q : c = Copied' /\ f = Ids(Fresh) /\ u = Ids(Unsent) /\ p = Ids(snd.meta)
                             /\ q = Unpacked
    OBVIOUS
  <2>2. PICK w : w = <<t.w>>
    OBVIOUS
  <2>3. /\ c \in Seq(Weights) /\ f \in Seq(Weights) /\ u \in Seq(Weights) /\ p \in Seq(Weights)
        /\ q \in Seq(Weights) /\ w \in Seq(Weights)
    BY <1>7, <1>9, <2>1, <2>2 DEF PartsTyped
  <2>4. Ids(Fresh)' = Ids(Fresh) /\ Ids(Unsent)' = Ids(Unsent) /\ Ids(snd.meta)' = Ids(snd.meta)
    BY <1>10 DEF Ids
  <2>5. l = Line(c, f, u, p, q) /\ Outgoing' = Outgoing
    BY <1>10, <1>11, <2>1, <2>4, Zenon DEF Pending, Outgoing
  <2>6. Pending = Line(w \o c, f, u, p, q)
    BY <1>9, <2>1, <2>2, Zenon DEF Pending
  <2> QED
    <3>1. Leads(w, Line(w \o c, f, u, p, q), Line(c, f, u, p, q))
      BY <2>3, MoveLoad
    <3>2. Line(c, f, u, p, q) \in Seq(Weights)
      BY <2>3, LineTyped
    <3> QED
      BY <2>2, <2>5, <2>6, <3>1, <3>2, Zenon DEF Leads
<1>13. PICK all : all = FlattenSeq(goals)
  OBVIOUS
<1>14. PICK w, old : w = t.w /\ old = loaded
  OBVIOUS
<1>15. old \in Seq(Weights) /\ w \in Weights /\ Makes(old, Then(w, l), all)
  BY <1>7, <1>12, <1>13, <1>14 DEF Flow, EngineTypeOK, Makes, Then
<1>16. /\ loaded' \in Seq(Weights) /\ loaded' \o Chosen(l) = all
       /\ loaded' = loaded \/ Arrives
  <2>1. CASE Wanted(w)
    <3>1. /\ Append(old, w) \in Seq(Weights) /\ Makes(Append(old, w), l, all)
          /\ Len(old) < Len(all) /\ all[Len(old) + 1] = w
      BY <1>12, <1>15, <2>1, FirstLoaded
    <3> QED
      BY <1>6, <1>13, <1>14, <2>1, <3>1 DEF Arrives, Makes
  <2>2. CASE ~Wanted(w)
    <3>1. Makes(old, l, all)
      BY <1>12, <1>15, <2>2, FirstSkipped
    <3> QED
      BY <1>6, <1>14, <1>15, <2>2, <3>1 DEF Makes
  <2> QED
    BY <2>1, <2>2
<1>17. Flow'
  BY <1>10, <1>11, <1>13, <1>16 DEF Flow, Chosen, Wanted
<1>18. RoundsInStep'
  BY <1>1, <1>10, <1>12 DEF RoundsInStep, Chosen, Wanted
<1>19. EngineTypeOK'
  BY <1>1, <1>16 DEF EngineTypeOK, sender
<1> QED
  BY <1>8, <1>16, <1>17, <1>18, <1>19

LEMMA BucketLoadKeeps ==
  ASSUME BucketInv, ReceiverDefaultRuns
  PROVE  BucketInv'
<1>1. /\ rDefault # <<>> /\ UNCHANGED <<direct, sender, rcv, rNccl, rMeta, rData, reported>>
  BY DEF ReceiverDefaultRuns
<1>2. (HeaderSent <=> HeaderSent') /\ PackingSafe' /\ ~direct'
  BY <1>1, ReceiverKeepsSender
<1>3. EngineTypeOK' /\ RoundsInStep' /\ Flow' /\ CopiesSafe'
  BY LoadKeeps, BucketParts DEF BucketInv
<1>4. BucketsInOrder'
  BY <1>1, <1>2 DEF BucketInv, BucketsInOrder, sender, SendEventIs, AllWritten, Written
<1> QED
  BY <1>2, <1>3, <1>4 DEF BucketInv

\* The copies of what a buffer holds are queued.
LEMMA CopiesQueued ==
  ASSUME EngineTypeOK, NEW b \in Buffers, rDefault' = CopiesOut(b),
         AllWritten(rData[b], rMeta[b].tensors), rData' = rData,
         rcv'.pc = "built" \/ (rcv'.pc = "wait" /\ (direct' \/ b # rcv'.buf))
  PROVE  CopiesSafe' /\ Copied' = Ids(rMeta[b].tensors)
<1>1. PICK ts : ts = rMeta[b].tensors
  OBVIOUS
<1>2. ts \in Seq(Tensors)
  BY <1>1 DEF EngineTypeOK, Metas
<1>3. DOMAIN ts = 1 .. Len(ts) /\ Len(ts) \in Nat /\ \A i \in 1 .. Len(ts) : ts[i] \in Tensors
  BY <1>2, LenProperties, ElementOfSeq
<1>4. rDefault' = [i \in 1 .. Len(ts) |-> CopyOut(ts[i], b)]
  BY <1>1, <1>3 DEF CopiesOut, CopyOut
<1>5. \A u : u \in Tensors => CopyOut(u, b) \in CopyOps /\ CopyOut(u, b).t = u
  BY DEF CopyOut, CopyOps
<1>6. rDefault' \in Seq(CopyOps)
  <2>1. rDefault' \in [1 .. Len(ts) -> CopyOps]
    BY <1>3, <1>4, <1>5
  <2> QED
    BY <1>3, <2>1
<1>7. \A i \in 1 .. Len(ts) : rDefault'[i] = CopyOut(ts[i], b) /\ Written(rData[b], ts[i])
  BY <1>1, <1>3, <1>4 DEF AllWritten
<1>8. \A u : Written(rData[b], u)' <=> Written(rData[b], u)
  BY DEF Written
<1>9. CopiesSafe'
  BY <1>3, <1>4, <1>6, <1>7, <1>8 DEF CopiesSafe, CopyOps
<1>10. Copied' = Ids(ts)
  <2>1. \A i \in 1 .. Len(ts) : rDefault'[i].t.w = ts[i].w
    BY <1>3, <1>5, <1>7
  <2>2. DOMAIN rDefault' = 1 .. Len(ts)
    BY <1>4
  <2> QED
    BY <1>3, <2>1, <2>2 DEF Copied, Ids
<1> QED
  BY <1>1, <1>9, <1>10

LEMMA TakeKeepsLine ==
  ASSUME EngineTypeOK, RoundsInStep, Flow, PartsTyped, UNCHANGED <<sender, loaded, reported>>,
         Copied = <<>>, Copied' = Ids(Fresh), Fresh' = <<>>, LastHere <=> LastHere'
  PROVE  RoundsInStep' /\ Flow'
<1>1. /\ (HeaderSent <=> HeaderSent') /\ (SenderMid <=> SenderMid') /\ Unsent' = Unsent
      /\ Unpacked' = Unpacked /\ From(1)' = From(1) /\ snd' = snd /\ goals' = goals
  BY SenderSame DEF sender
<1>2. PICK f, u, p, r : f = Ids(Fresh) /\ u = Ids(Unsent) /\ p = Ids(snd.meta) /\ r = Unpacked
  OBVIOUS
<1>3. f \in Seq(Weights) /\ u \in Seq(Weights) /\ p \in Seq(Weights) /\ r \in Seq(Weights)
  BY <1>2 DEF PartsTyped
<1>4. Ids(Unsent)' = Ids(Unsent) /\ Ids(snd.meta)' = Ids(snd.meta) /\ Ids(Fresh)' = <<>>
  BY <1>1, IdsOfNone DEF Ids
<1>5. Pending' = Line(f, <<>>, u, p, r) /\ Pending = Line(<<>>, f, u, p, r) /\ Outgoing' = Outgoing
  BY <1>1, <1>2, <1>4, Zenon DEF Pending, Outgoing
<1>6. Pending' = Pending
  BY <1>3, <1>5, MoveTake
<1> QED
  BY <1>1, <1>5, <1>6, LineKept

LEMMA TakeBucketKeeps ==
  ASSUME BucketInv, TakeBucket
  PROVE  BucketInv'
<1>1. PICK b : b = rcv.buf
  OBVIOUS
<1>2. /\ rcv.pc = "wait" /\ rNccl = <<>> /\ rDefault = <<>> /\ rDefault' = CopiesOut(b)
      /\ rNccl' = IF rMeta[b].last THEN <<>> ELSE RecvPair(1 - b)
      /\ rcv' = IF rMeta[b].last THEN [rcv EXCEPT !.pc = "built"] ELSE [rcv EXCEPT !.buf = 1 - b]
      /\ UNCHANGED <<direct, sender, rMeta, rData, loaded, reported>>
  BY <1>1 DEF TakeBucket, Drained
<1>3. /\ b \in Buffers /\ 1 - b \in Buffers /\ 1 - b # b /\ rMeta[b].last \in BOOLEAN
      /\ rcv \in [pc : RcvPcs, buf : Buffers] /\ "built" \in RcvPcs
  BY <1>1, SMTT(20) DEF BucketInv, EngineTypeOK, Buffers, Metas, RcvPcs
<1>4. AllWritten(rData[b], rMeta[b].tensors) /\ Len(sNccl) # 2
  <2>1. Len(rNccl) # 1
    BY <1>2, EmptySeq
  <2> QED
    BY <1>1, <1>2, <2>1 DEF BucketInv, BucketsInOrder
<1>5. HasHeader /\ Fresh = rMeta[b].tensors /\ (LastHere <=> rMeta[b].last)
  <2>1. HasHeader
    BY <1>2, SendStages DEF HasHeader
  <2> QED
    BY <1>1, <1>2, <2>1 DEF Fresh, LastHere
<1>6. /\ rcv' \in [pc : RcvPcs, buf : Buffers]
      /\ \/ /\ rMeta[b].last /\ rcv'.pc = "built" /\ rcv'.buf = b /\ rNccl' = <<>>
         \/ /\ ~rMeta[b].last /\ rcv'.pc = "wait" /\ rcv'.buf = 1 - b
            /\ rNccl' = ToReceive(1 - b, 2)
  BY <1>1, <1>2, <1>3, ReceiveStages
<1>7. ~HasHeader' /\ ~RawLeft' /\ (LastHere' <=> rMeta[b].last) /\ Fresh' = <<>>
  <2>1. rcv'.pc # "raw"
    BY <1>6
  <2>2. ~HasHeader'
    BY <1>6, ReceiveStages DEF HasHeader
  <2> QED
    BY <1>6, <2>1, <2>2 DEF RawLeft, LastHere, Fresh
<1>8. /\ (HeaderSent <=> HeaderSent') /\ PackingSafe' /\ ~direct' /\ ~direct
  BY <1>2, ReceiverKeepsSender DEF BucketInv
<1>9. CopiesSafe' /\ Copied' = Ids(rMeta[b].tensors)
  <2>1. rcv'.pc = "built" \/ (rcv'.pc = "wait" /\ (direct' \/ b # rcv'.buf))
    BY <1>3, <1>6
  <2> QED
    BY <1>2, <1>3, <1>4, <2>1, CopiesQueued DEF BucketInv
<1>10. EngineTypeOK'
  BY <1>2, <1>6 DEF BucketInv, EngineTypeOK, sender
<1>11. RoundsInStep' /\ Flow'
  <2>1. Copied = <<>>
    BY <1>2 DEF Copied
  <2> QED
    BY <1>2, <1>5, <1>7, <1>9, <2>1, BucketParts, TakeKeepsLine DEF BucketInv
<1>12. BucketsInOrder'
  <2>1. Len(rNccl') \in {0, 2} /\ rNccl' = ToReceive(rcv'.buf, Len(rNccl'))
        /\ (rcv'.pc = "wait" => rNccl' # <<>>) /\ (rcv'.pc = "built" => rNccl' = <<>>)
        /\ rcv'.pc \in {"wait", "built"}
    <3>1. CASE rMeta[b].last
      <4>1. rNccl' = <<>> /\ rcv'.pc = "built" /\ Len(rNccl') = 0
        BY <1>6, <3>1, EmptySeq
      <4> QED
        BY <4>1, ReceiveStages
    <3>2. CASE ~rMeta[b].last
      <4>1. rNccl' = ToReceive(1 - b, 2) /\ rcv'.pc = "wait" /\ rcv'.buf = 1 - b
        BY <1>6, <3>2
      <4> QED
        BY <4>1, ReceiveStages
    <3> QED
      BY <3>1, <3>2
  <2>2. UNCHANGED <<snd, sNccl, sMeta, sData, sendEvent, model>>
    BY <1>2 DEF sender
  <2>3. /\ Len(sNccl) \in 0 .. 3 /\ sNccl = ToSend(snd.prev, Len(sNccl))
        /\ sNccl # <<>> => snd.prev \in Buffers
        /\ snd.prev # Nil => snd.prev = 1 - snd.pack
        /\ snd.pc \in {"idle", "done"} => sNccl = <<>>
        /\ snd.pc = "sync" => snd.next > Len(model)
        /\ \A i \in Buffers : SendEventIs(i, IF i = snd.prev /\ sNccl # <<>> THEN 1 ELSE 0)
        /\ HeaderSent => (sMeta[snd.prev].last <=> snd.pc = "sync")
        /\ Len(sNccl) = 3 => AllWritten(sData[snd.prev], sMeta[snd.prev].tensors)
    BY DEF BucketInv, BucketsInOrder
  <2>4. \A i \in Buffers : SendEventIs(i, IF i = snd.prev /\ sNccl # <<>> THEN 1 ELSE 0)'
    BY <2>2, <2>3 DEF SendEventIs
  <2>5. AllWritten(sData[snd.prev], sMeta[snd.prev].tensors)' <=>
          AllWritten(sData[snd.prev], sMeta[snd.prev].tensors)
    BY <2>2 DEF AllWritten, Written
  <2>6. Len(rNccl') \in 0 .. 2 /\ Len(rNccl') # 1 /\ Len(sNccl') # 2
    <3>1. \A n \in {0, 2} : n \in 0 .. 2 /\ n # 1
      OBVIOUS
    <3> QED
      BY <1>4, <2>1, <2>2, <3>1
  <2> QED
    BY <1>8, <2>1, <2>2, <2>3, <2>4, <2>5, <2>6 DEF BucketsInOrder
<1> QED
  BY <1>8, <1>9, <1>10, <1>11, <1>12 DEF BucketInv

\* A header arrives: what it announces is the receiver's, and so is the round with
\* its last one.
LEMMA HeaderKeepsLine ==
  ASSUME EngineTypeOK, RoundsInStep, Flow, PartsTyped,
         UNCHANGED <<snd, model, goals, loaded, reported, rDefault>>,
         HeaderSent, ~HeaderSent', Fresh = <<>>, Fresh' = Unsent, ~LastHere,
         LastHere' <=> snd.pc = "sync", snd.pc \in {"pack", "flush", "raised", "sync"},
         snd.pc = "sync" => snd.next > Len(model) /\ snd.meta = <<>>
  PROVE  RoundsInStep' /\ Flow'
<1>1. Unsent' = <<>> /\ Unpacked' = Unpacked /\ From(1)' = From(1) /\ Copied' = Copied
  BY RestSame DEF Unsent, Copied
<1>2. PICK c, u, p, r : c = Copied /\ u = Ids(Unsent) /\ p = Ids(snd.meta) /\ r = Unpacked
  OBVIOUS
<1>3. c \in Seq(Weights) /\ u \in Seq(Weights) /\ p \in Seq(Weights) /\ r \in Seq(Weights)
  BY <1>2 DEF PartsTyped
<1>4. Ids(Fresh)' = u /\ Ids(Unsent)' = <<>> /\ Ids(snd.meta)' = p /\ Ids(Fresh) = <<>>
  <2>1. Ids(Fresh)' = u
    BY <1>2 DEF Ids
  <2>2. Ids(Unsent)' = <<>>
    BY <1>1, IdsOfNone DEF Ids
  <2>3. Ids(snd.meta)' = p /\ Ids(Fresh) = <<>>
    BY <1>2, IdsOfNone DEF Ids
  <2> QED
    BY <2>1, <2>2, <2>3
<1>5. Pending' = Line(c, u, <<>>, p, r) /\ Pending = Line(c, <<>>, u, p, r)
  BY <1>1, <1>2, <1>4, Zenon DEF Pending
<1>6. Pending' = Pending
  BY <1>3, <1>5, MoveTransfer
<1>7. Flow'
  BY <1>6 DEF Flow, Chosen, Wanted
<1>8. SenderMid /\ (SenderMid' <=> snd.pc # "sync")
  BY DEF SenderMid
<1>9. snd.pc = "sync" => Outgoing' = <<>>
  <2> SUFFICES ASSUME snd.pc = "sync" PROVE Outgoing' = <<>>
    OBVIOUS
  <2>1. p = <<>>
    BY <1>2, IdsOfNone
  <2>2. Unpacked' = <<>>
    <3>1. snd.next \in Nat /\ Len(model) \in Nat
      BY DEF EngineTypeOK
    <3> QED
      BY <1>1, <3>1 DEF Unpacked
  <2>3. Outgoing' = SenderLine(<<>>, <<>>, <<>>)
    BY <1>4, <2>1, <2>2, Zenon DEF Outgoing
  <2> QED
    BY <2>3, MoveBeginOut, EmptySeq
<1>10. RoundsInStep'
  <2>1. reported \in Nat /\ snd.round \in Nat
    BY DEF EngineTypeOK
  <2> QED
    BY <1>1, <1>8, <1>9, <2>1 DEF RoundsInStep, Chosen, Wanted
<1> QED
  BY <1>7, <1>10

\* The sender's side of the invariant once the header has left.
LEMMA HeaderArrivesKeeps ==
  ASSUME BucketInv, Transfer, Head(sNccl).op = "meta"
  PROVE  BucketInv'
<1>1. PICK a, b : a = snd.prev /\ b = rcv.buf
  OBVIOUS
<1>2. /\ sNccl # <<>> /\ rNccl # <<>> /\ HeadOp(sNccl) = "meta" /\ HeadOp(rNccl) = "meta"
      /\ rMeta' = [rMeta EXCEPT ![Head(rNccl).buf] = sMeta[Head(sNccl).buf]]
      /\ sNccl' = Tail(sNccl) /\ rNccl' = Tail(rNccl)
      /\ UNCHANGED <<direct, model, snd, sDefault, sMeta, sData, sendEvent, goals, faults,
                     rcv, rDefault, rData, loaded, reported>>
  BY DEF Transfer, HeadOp
<1>3. a \in Buffers /\ sNccl = ToSend(a, 3) /\ Len(sNccl) = 3
  <2>1. a \in Buffers /\ sNccl = ToSend(a, Len(sNccl)) /\ Len(sNccl) \in 0 .. 3
    BY <1>1, <1>2 DEF BucketInv, BucketsInOrder
  <2>2. sNccl = ToSend(a, 3)
    BY <1>2, <2>1, SendStageOf
  <2> QED
    BY <2>1, <2>2, SendStages
<1>4. b \in Buffers /\ rNccl = ToReceive(b, 2) /\ rcv.pc = "wait" /\ Len(rNccl) = 2
  <2>1. b \in Buffers /\ rNccl = ToReceive(b, Len(rNccl)) /\ Len(rNccl) \in 0 .. 2
        /\ rcv.pc = "wait"
    BY <1>1, <1>2 DEF BucketInv, BucketsInOrder, EngineTypeOK, RcvPcs
  <2>2. rNccl = ToReceive(b, 2)
    BY <1>2, <2>1, ReceiveStageOf
  <2> QED
    BY <2>1, <2>2, ReceiveStages
<1>5. /\ sNccl' = ToSend(a, 2) /\ Len(sNccl') = 2 /\ sNccl' # <<>> /\ HeadOp(sNccl') = "data"
      /\ Head(sNccl).buf = a
  <2>1. Tail(ToSend(a, 3)) = ToSend(a, 2) /\ Head(ToSend(a, 3)) = [op |-> "meta", buf |-> a]
    BY SendStages
  <2>2. sNccl' = ToSend(a, 2) /\ Head(sNccl).buf = a
    BY <1>2, <1>3, <2>1
  <2> QED
    BY <2>2, SendStages
<1>6. /\ rNccl' = ToReceive(b, 1) /\ Len(rNccl') = 1 /\ rNccl' # <<>> /\ HeadOp(rNccl') = "data"
      /\ Head(rNccl).buf = b
  <2>1. Tail(ToReceive(b, 2)) = ToReceive(b, 1) /\ Head(ToReceive(b, 2)) = [op |-> "meta", buf |-> b]
    BY ReceiveStages
  <2>2. rNccl' = ToReceive(b, 1) /\ Head(rNccl).buf = b
    BY <1>2, <1>4, <2>1
  <2> QED
    BY <2>2, ReceiveStages
<1>7. rMeta' \in [Buffers -> Metas] /\ rMeta'[b] = sMeta[a]
  <2>1. rMeta \in [Buffers -> Metas] /\ sMeta[a] \in Metas
    BY <1>3 DEF BucketInv, EngineTypeOK
  <2> QED
    BY <1>2, <1>4, <1>5, <1>6, <2>1
<1>8. EngineTypeOK'
  BY <1>2, <1>7 DEF BucketInv, EngineTypeOK
<1>9. HeaderSent /\ ~HeaderSent' /\ (sMeta[a].last <=> snd.pc = "sync")
  <2>1. HeaderSent /\ ~HeaderSent'
    BY <1>2, <1>5 DEF HeaderSent
  <2> QED
    BY <1>1, <2>1 DEF BucketInv, BucketsInOrder
<1>10. ~HasHeader /\ HasHeader' /\ Fresh = <<>> /\ Fresh' = Unsent
  <2>1. ~HasHeader /\ HasHeader' /\ ~RawLeft
    BY <1>2, <1>4, <1>6 DEF HasHeader, RawLeft
  <2>2. Unsent = sMeta[a].tensors
    BY <1>5, <1>9 DEF Unsent
  <2> QED
    BY <1>1, <1>2, <1>7, <2>1, <2>2 DEF Fresh
<1>11. ~LastHere /\ (LastHere' <=> snd.pc = "sync")
  BY <1>1, <1>2, <1>4, <1>7, <1>9, <1>10 DEF LastHere
<1>12. RoundsInStep' /\ Flow'
  <2>1. snd.pc \in {"pack", "flush", "raised", "sync"}
    BY <1>2 DEF BucketInv, BucketsInOrder, EngineTypeOK, SndPcs
  <2>2. snd.pc = "sync" => snd.next > Len(model) /\ snd.meta = <<>>
    BY DEF BucketInv, BucketsInOrder, PackingSafe
  <2> QED
    BY <1>2, <1>9, <1>10, <1>11, <2>1, <2>2, BucketParts, HeaderKeepsLine DEF BucketInv
<1>13. CopiesSafe'
  BY <1>2, CopiesSame DEF BucketInv
<1>14. PackingSafe'
  <2>1. snd.prev \in Buffers \cup {Nil}
    BY <1>1, <1>3
  <2> QED
    BY <1>2, <2>1, PackingSame DEF BucketInv
<1>15. BucketsInOrder'
  <2>1. AllWritten(sData[a], sMeta[a].tensors)
    BY <1>1, <1>3 DEF BucketInv, BucketsInOrder
  <2>2. AllWritten(sData'[a], rMeta'[b].tensors)
    BY <1>2, <1>7, <2>1 DEF AllWritten, Written
  <2>3. \A i \in Buffers : SendEventIs(i, IF i = snd.prev /\ sNccl # <<>> THEN 1 ELSE 0)'
    <3>1. \A i \in Buffers : SendEventIs(i, IF i = snd.prev /\ sNccl # <<>> THEN 1 ELSE 0)
      BY DEF BucketInv, BucketsInOrder
    <3> QED
      BY <1>2, <1>5, <3>1 DEF SendEventIs
  <2>4. /\ Len(sNccl') \in 0 .. 3 /\ sNccl' = ToSend(snd'.prev, Len(sNccl')) /\ snd'.prev = a
        /\ Len(rNccl') \in 0 .. 2 /\ rNccl' = ToReceive(rcv'.buf, Len(rNccl')) /\ rcv'.buf = b
        /\ Len(sNccl') # 3 /\ rcv'.pc = "wait"
    <3>1. /\ snd'.prev = a /\ rcv'.buf = b /\ rcv'.pc = "wait" /\ Len(sNccl') = 2 /\ Len(rNccl') = 1
      BY <1>1, <1>2, <1>4, <1>5, <1>6
    <3>2. sNccl' = ToSend(snd'.prev, Len(sNccl')) /\ rNccl' = ToReceive(rcv'.buf, Len(rNccl'))
      BY <1>5, <1>6, <3>1, Zenon
    <3> QED
      BY <3>1, <3>2
  <2>5. /\ snd.prev # Nil => snd.prev = 1 - snd.pack
        /\ snd.pc \notin {"idle", "done"}
        /\ snd.pc = "sync" => snd.next > Len(model)
    BY <1>2 DEF BucketInv, BucketsInOrder
  <2> QED
    BY <1>2, <1>3, <1>5, <1>6, <1>9, <2>2, <2>3, <2>4, <2>5 DEF BucketsInOrder
<1> QED
  BY <1>2, <1>8, <1>12, <1>13, <1>14, <1>15 DEF BucketInv

LEMMA DataArrivesKeeps ==
  ASSUME BucketInv, Transfer, Head(sNccl).op = "data"
  PROVE  BucketInv'
<1>1. PICK a, b : a = snd.prev /\ b = rcv.buf
  OBVIOUS
<1>2. /\ sNccl # <<>> /\ rNccl # <<>> /\ HeadOp(sNccl) = "data" /\ HeadOp(rNccl) = "data"
      /\ rData' = [rData EXCEPT ![Head(rNccl).buf] = sData[Head(sNccl).buf]]
      /\ sNccl' = Tail(sNccl) /\ rNccl' = Tail(rNccl)
      /\ UNCHANGED <<direct, model, snd, sDefault, sMeta, sData, sendEvent, goals, faults,
                     rcv, rDefault, rMeta, loaded, reported>>
  BY DEF Transfer, HeadOp
<1>3. a \in Buffers /\ sNccl = ToSend(a, 2) /\ Len(sNccl) = 2
  <2>1. a \in Buffers /\ sNccl = ToSend(a, Len(sNccl)) /\ Len(sNccl) \in 0 .. 3
    BY <1>1, <1>2 DEF BucketInv, BucketsInOrder
  <2>2. sNccl = ToSend(a, 2)
    BY <1>2, <2>1, SendStageOf
  <2> QED
    BY <2>1, <2>2, SendStages
<1>4. b \in Buffers /\ rNccl = ToReceive(b, 1) /\ rcv.pc = "wait" /\ Len(rNccl) = 1
  <2>1. b \in Buffers /\ rNccl = ToReceive(b, Len(rNccl)) /\ Len(rNccl) \in 0 .. 2
        /\ rcv.pc = "wait"
    BY <1>1, <1>2 DEF BucketInv, BucketsInOrder, EngineTypeOK, RcvPcs
  <2>2. rNccl = ToReceive(b, 1)
    BY <1>2, <2>1, ReceiveStageOf
  <2> QED
    BY <2>1, <2>2, ReceiveStages
<1>5. /\ sNccl' = ToSend(a, 1) /\ Len(sNccl') = 1 /\ sNccl' # <<>> /\ HeadOp(sNccl') = "event"
      /\ Head(sNccl).buf = a
  <2>1. Tail(ToSend(a, 2)) = ToSend(a, 1) /\ Head(ToSend(a, 2)) = [op |-> "data", buf |-> a]
    BY SendStages
  <2>2. sNccl' = ToSend(a, 1) /\ Head(sNccl).buf = a
    BY <1>2, <1>3, <2>1
  <2> QED
    BY <2>2, SendStages
<1>6. /\ rNccl' = ToReceive(b, 0) /\ Len(rNccl') = 0 /\ rNccl' = <<>> /\ HeadOp(rNccl') = "nothing"
      /\ Head(rNccl).buf = b
  <2>1. Tail(ToReceive(b, 1)) = ToReceive(b, 0) /\ Head(ToReceive(b, 1)) = [op |-> "data", buf |-> b]
    BY ReceiveStages
  <2>2. rNccl' = ToReceive(b, 0) /\ Head(rNccl).buf = b
    BY <1>2, <1>4, <2>1
  <2>3. rNccl' = <<>>
    BY <2>2, ReceiveStages
  <2> QED
    BY <2>2, <2>3, SendStages, EmptySeq
<1>7. /\ rData' \in [Buffers -> Bytes] /\ rData'[b] = sData[a]
      /\ \A i \in Buffers : i # b => rData'[i] = rData[i]
  <2>1. rData \in [Buffers -> Bytes] /\ sData[a] \in Bytes
    BY <1>3 DEF BucketInv, EngineTypeOK
  <2> QED
    BY <1>2, <1>4, <1>5, <1>6, <2>1
<1>8. EngineTypeOK'
  BY <1>2, <1>7 DEF BucketInv, EngineTypeOK
<1>9. ~HeaderSent /\ ~HeaderSent' /\ (SenderMid <=> SenderMid') /\ Unsent' = Unsent
  <2>1. ~HeaderSent /\ ~HeaderSent'
    BY <1>2, <1>5 DEF HeaderSent
  <2> QED
    BY <1>2, <2>1 DEF SenderMid, Unsent
<1>10. HasHeader /\ HasHeader' /\ Fresh' = Fresh /\ (LastHere <=> LastHere')
  <2>1. HasHeader /\ HasHeader' /\ ~RawLeft /\ ~RawLeft'
    BY <1>2, <1>4, <1>6 DEF HasHeader, RawLeft
  <2> QED
    BY <1>2, <2>1 DEF Fresh, LastHere
<1>11. RoundsInStep' /\ Flow'
  <2>1. Copied' = Copied /\ Unpacked' = Unpacked /\ From(1)' = From(1)
    BY <1>2, RestSame DEF Copied
  <2> QED
    BY <1>2, <1>9, <1>10, <2>1, LineStays DEF BucketInv
<1>12. CopiesSafe'
  <2>1. ASSUME NEW i \in DOMAIN rDefault
        PROVE  \E t \in Tensors, d \in Buffers :
                 /\ rDefault[i] = CopyOut(t, d) /\ Written(rData[d], t)'
                 /\ rcv.pc = "built" \/ (rcv.pc = "wait" /\ (direct \/ d # rcv.buf))
    <3>1. PICK t \in Tensors, d \in Buffers :
             /\ rDefault[i] = CopyOut(t, d) /\ Written(rData[d], t)
             /\ rcv.pc = "built" \/ (rcv.pc = "wait" /\ (direct \/ d # rcv.buf))
      BY DEF BucketInv, CopiesSafe
    <3>2. d # b
      BY <1>1, <1>4, <3>1 DEF BucketInv
    <3>3. Written(rData[d], t)'
      BY <1>7, <3>1, <3>2 DEF Written
    <3> QED
      BY <3>1, <3>3
  <2> QED
    BY <1>2, <2>1 DEF BucketInv, CopiesSafe
<1>13. PackingSafe'
  <2>1. snd.prev \in Buffers \cup {Nil}
    BY <1>1, <1>3
  <2> QED
    BY <1>2, <2>1, PackingSame DEF BucketInv
<1>14. BucketsInOrder'
  <2>1. AllWritten(sData[a], rMeta[b].tensors)
    BY <1>1, <1>3 DEF BucketInv, BucketsInOrder
  <2>2. AllWritten(rData'[b], rMeta'[b].tensors)
    BY <1>2, <1>7, <2>1 DEF AllWritten, Written
  <2>3. \A i \in Buffers : SendEventIs(i, IF i = snd.prev /\ sNccl # <<>> THEN 1 ELSE 0)'
    <3>1. \A i \in Buffers : SendEventIs(i, IF i = snd.prev /\ sNccl # <<>> THEN 1 ELSE 0)
      BY DEF BucketInv, BucketsInOrder
    <3> QED
      BY <1>2, <1>5, <3>1 DEF SendEventIs
  <2>4. /\ Len(sNccl') \in 0 .. 3 /\ sNccl' = ToSend(snd'.prev, Len(sNccl')) /\ snd'.prev = a
        /\ Len(rNccl') \in 0 .. 2 /\ rNccl' = ToReceive(rcv'.buf, Len(rNccl')) /\ rcv'.buf = b
        /\ Len(sNccl') \notin {2, 3} /\ Len(rNccl') # 1 /\ rcv'.pc = "wait"
    <3>1. /\ snd'.prev = a /\ rcv'.buf = b /\ rcv'.pc = "wait" /\ Len(sNccl') = 1 /\ Len(rNccl') = 0
      BY <1>1, <1>2, <1>4, <1>5, <1>6
    <3>2. sNccl' = ToSend(snd'.prev, Len(sNccl')) /\ rNccl' = ToReceive(rcv'.buf, Len(rNccl'))
      BY <1>5, <1>6, <3>1, Zenon
    <3> QED
      BY <3>1, <3>2
  <2>5. /\ snd.prev # Nil => snd.prev = 1 - snd.pack
        /\ snd.pc \notin {"idle", "done"}
        /\ snd.pc = "sync" => snd.next > Len(model)
    BY <1>2 DEF BucketInv, BucketsInOrder
  <2> QED
    BY <1>2, <1>3, <1>5, <1>6, <1>9, <2>2, <2>3, <2>4, <2>5 DEF BucketsInOrder
<1> QED
  BY <1>2, <1>8, <1>11, <1>12, <1>13, <1>14 DEF BucketInv

LEMMA BucketNext ==
  ASSUME BucketInv, Next, ~LoadRaises, ~DirectRaises
  PROVE  BucketInv'
<1>1. ASSUME NEW m \in Models, SendBegins(m) PROVE BucketInv'
  BY <1>1, BucketSendBeginsKeeps
<1>2. CASE ReceiveBegins
  BY <1>2, BucketReceiveBeginsKeeps
<1>3. CASE SendRaises
  BY <1>3, BucketSendRaisesKeeps
<1>4. CASE SenderSteps
  <2>1. ~SendDirect
    BY DEF SendDirect, BucketInv
  <2> QED
    BY <1>4, <2>1, PackKeeps, FlushBeginsKeeps, FlushIssuesKeeps, BucketSendReturnsKeeps
       DEF SenderSteps
<1>5. CASE ReceiverSteps
  <2>1. ~TakeDirect /\ ~DirectTaken
    BY DEF TakeDirect, DirectTaken, BucketInv, BucketsInOrder
  <2> QED
    BY <1>5, <2>1, TakeBucketKeeps, BucketReturnsKeeps DEF ReceiverSteps
<1>6. CASE Transfer
  <2>1. sNccl = ToSend(snd.prev, Len(sNccl)) /\ Len(sNccl) \in 0 .. 3 /\ sNccl # <<>>
    BY <1>6 DEF Transfer, BucketInv, BucketsInOrder
  <2>2. Head(sNccl).op # "raw"
    BY <2>1, SendStages
  <2>3. Head(sNccl).op = "meta" \/ Head(sNccl).op = "data"
    BY <1>6, <2>2 DEF Transfer
  <2> QED
    BY <1>6, <2>3, HeaderArrivesKeeps, DataArrivesKeeps
<1>7. CASE SenderDefaultRuns \/ EventReached \/ ReceiverDefaultRuns
  BY <1>7, SenderDefaultKeeps, EventReachedKeeps, BucketLoadKeeps
<1> QED
  BY <1>1, <1>2, <1>3, <1>4, <1>5, <1>6, <1>7 DEF Next, StreamSteps

-----------------------------------------------------------------------------
(***************************************************************************)
(* Weights on their own.                                                   *)
(***************************************************************************)
DirectInv ==
  /\ direct /\ EngineTypeOK /\ RoundsInStep /\ Flow /\ CopiesSafe /\ DirectInOrder

LEMMA DirectParts ==
  ASSUME DirectInv
  PROVE  /\ PartsTyped /\ (HasHeader <=> rcv.pc = "wait" /\ rNccl = <<>>)
         /\ (HeaderSent => Head(sNccl).buf = 0 /\ Unsent = sMeta[0].tensors)
         /\ HeadOp(sNccl) \in {"nothing", "meta", "raw"} /\ (sNccl = <<>> <=> HeadOp(sNccl) = "nothing")
         /\ (HeadOp(sNccl) = "raw" => RawAhead /\ rMeta[0].tensors \in Seq(Tensors)
              /\ sNccl = <<[op |-> "raw", w |-> rMeta[0].tensors[1].w]>>)
<1>1. \/ sNccl = <<>> /\ HeadOp(sNccl) = "nothing"
      \/ sNccl # <<>> /\ HeadOp(sNccl) = "meta" /\ Head(sNccl).buf = 0
      \/ sNccl # <<>> /\ HeadOp(sNccl) = "raw" /\ RawAhead
         /\ sNccl = <<[op |-> "raw", w |-> rMeta[0].tensors[1].w]>>
  BY DEF DirectInv, DirectInOrder, HeadOp
<1>2. 0 \in Buffers /\ rMeta[0].tensors \in Seq(Tensors)
  BY DEF Buffers, DirectInv, EngineTypeOK, Metas
<1>3. HeaderSent => Head(sNccl).buf = 0 /\ Unsent = sMeta[0].tensors
  BY <1>1 DEF HeaderSent, Unsent
<1>4. PartsTyped
  BY <1>2, <1>3, PartsAreTyped DEF DirectInv
<1>5. rcv.pc = "wait" => (HeadOp(rNccl) # "meta" <=> rNccl = <<>>)
  BY DEF DirectInv, DirectInOrder, HeadOp
<1> QED
  BY <1>1, <1>2, <1>3, <1>4, <1>5 DEF HasHeader

LEMMA OneOf ==
  ASSUME NEW m \in Metas, OneTensor(m)
  PROVE  /\ m.tensors[1] \in Tensors /\ m.tensors = <<m.tensors[1]>>
         /\ Ids(m.tensors) = <<m.tensors[1].w>> /\ m.tensors[1].w \in Weights
<1>1. PICK ts : ts = m.tensors
  OBVIOUS
<1>2. ts \in Seq(Tensors) /\ Len(ts) = 1
  BY <1>1 DEF Metas, OneTensor
<1>3. ts[1] \in Tensors /\ ts = <<ts[1]>>
  BY <1>2
<1>4. ts[1].w \in Weights
  BY <1>3 DEF Tensors
<1>5. Ids(ts) = <<ts[1].w>>
  BY <1>3, IdsOfOne
<1> QED
  BY <1>1, <1>3, <1>4, <1>5

LEMMA DirectSendBeginsKeeps ==
  ASSUME DirectInv, NEW m \in Models, SendBegins(m)
  PROVE  DirectInv'
<1>1. /\ snd.pc \in {"idle", "done"} /\ model' = m
      /\ snd' = [pc |-> "pack", round |-> snd.round + 1, next |-> 1, pack |-> 0,
                 prev |-> Nil, meta |-> <<>>, offset |-> 0]
      /\ UNCHANGED <<direct, sDefault, sNccl, sMeta, sData, sendEvent, faults, receiver>>
  BY DEF SendBegins
<1>2. sNccl = <<>>
  BY <1>1 DEF DirectInv, DirectInOrder
<1>3. EngineTypeOK'
  BY BeginsTyped DEF DirectInv, BeginsLine
<1>4. RoundsInStep' /\ Flow'
  BY <1>2, DirectParts, BeginsKeepsLine DEF DirectInv
<1>5. CopiesSafe'
  BY <1>1, CopiesSame DEF DirectInv, receiver
<1>6. DirectInOrder'
  <2>1. RawAhead' <=> RawAhead
    BY <1>1 DEF RawAhead, receiver
  <2>2. LastHere' <=> LastHere
    BY <1>1, ReceiverSame DEF receiver
  <2> QED
    BY <1>1, <1>2, <2>1, <2>2 DEF DirectInv, DirectInOrder, receiver, Written, HeadOp
<1> QED
  BY <1>1, <1>3, <1>4, <1>5, <1>6 DEF DirectInv

LEMMA DirectSendRaisesKeeps ==
  ASSUME DirectInv, SendRaises
  PROVE  DirectInv'
<1>1. /\ snd.pc = "pack" /\ snd' = [snd EXCEPT !.pc = "raised"] /\ faults' \in {faults, faults + 1}
      /\ UNCHANGED <<direct, model, sDefault, sNccl, sMeta, sData, sendEvent, goals, receiver>>
  BY DEF SendRaises, Packing
<1>2. /\ snd'.meta = snd.meta /\ snd'.next = snd.next /\ snd'.round = snd.round
      /\ snd'.pc = "raised"
  BY <1>1 DEF DirectInv, EngineTypeOK
<1>3. EngineTypeOK'
  <2>1. "raised" \in SndPcs
    BY DEF SndPcs
  <2>2. faults' \in Nat
    BY <1>1 DEF DirectInv, EngineTypeOK
  <2>3. snd' \in [pc : SndPcs, round : Nat, next : Nat \ {0}, pack : Buffers,
                  prev : Buffers \cup {Nil}, meta : Seq(Tensors), offset : Nat]
    BY <1>1, <2>1 DEF DirectInv, EngineTypeOK
  <2> QED
    BY <1>1, <2>2, <2>3 DEF DirectInv, EngineTypeOK, receiver
<1>4. /\ Fresh' = Fresh /\ Copied' = Copied /\ Unsent' = Unsent /\ From(1)' = From(1)
      /\ Unpacked' = Unpacked
      /\ (LastHere <=> LastHere') /\ (HeaderSent <=> HeaderSent')
  BY <1>1, <1>2, ReceiverSame, SenderQueueSame, RestSame DEF receiver
<1>5. RoundsInStep' /\ Flow'
  <2>1. SenderMid /\ SenderMid'
    BY <1>1, <1>2 DEF SenderMid
  <2> QED
    BY <1>1, <1>2, <1>4, <2>1, LineStays DEF DirectInv, receiver
<1>6. CopiesSafe'
  BY <1>1, CopiesSame DEF DirectInv, receiver
<1>7. DirectInOrder'
  <2>1. RawAhead' <=> RawAhead
    BY <1>1 DEF RawAhead, receiver
  <2> QED
    BY <1>1, <1>2, <1>4, <2>1 DEF DirectInv, DirectInOrder, receiver, Written, HeadOp
<1> QED
  BY <1>1, <1>3, <1>5, <1>6, <1>7 DEF DirectInv

LEMMA DirectSendReturnsKeeps ==
  ASSUME DirectInv, SendReturns
  PROVE  DirectInv'
<1>1. /\ snd.pc = "sync" /\ sNccl = <<>> /\ snd' = [snd EXCEPT !.pc = "done"]
      /\ UNCHANGED <<direct, model, sDefault, sNccl, sMeta, sData, sendEvent, goals, faults, receiver>>
  BY DEF SendReturns
<1>2. /\ snd'.meta = snd.meta /\ snd'.next = snd.next /\ snd'.round = snd.round
      /\ snd'.pc = "done"
  BY <1>1 DEF DirectInv, EngineTypeOK
<1>3. EngineTypeOK'
  <2>1. "done" \in SndPcs
    BY DEF SndPcs
  <2> QED
    BY <1>1, <2>1 DEF DirectInv, EngineTypeOK, receiver
<1>4. /\ Fresh' = Fresh /\ Copied' = Copied /\ Unsent' = Unsent /\ From(1)' = From(1)
      /\ Unpacked' = Unpacked
      /\ (LastHere <=> LastHere') /\ (HeaderSent <=> HeaderSent')
  BY <1>1, <1>2, ReceiverSame, SenderQueueSame, RestSame DEF receiver
<1>5. RoundsInStep' /\ Flow'
  <2>1. ~SenderMid /\ ~SenderMid'
    BY <1>1, <1>2, SendStages DEF SenderMid, HeaderSent
  <2> QED
    BY <1>1, <1>2, <1>4, <2>1, LineStays DEF DirectInv, receiver
<1>6. CopiesSafe'
  BY <1>1, CopiesSame DEF DirectInv, receiver
<1>7. DirectInOrder'
  <2>1. RawAhead' <=> RawAhead
    BY <1>1 DEF RawAhead, receiver
  <2> QED
    BY <1>1, <1>2, <1>4, <2>1 DEF DirectInv, DirectInOrder, receiver, Written, HeadOp
<1> QED
  BY <1>1, <1>3, <1>5, <1>6, <1>7 DEF DirectInv

\* The header of a weight, or the sentinel.
LEMMA SendDirectKeeps ==
  ASSUME DirectInv, SendDirect
  PROVE  DirectInv'
<1>0. PICK entry : entry = DirectEntry(snd.next)
  OBVIOUS
<1>1. PICK more \in BOOLEAN : (more <=> snd.next <= Len(model)) /\ entry = DirectEntry(snd.next)
  <2>1. (snd.next <= Len(model)) \in BOOLEAN
    OBVIOUS
  <2> QED
    BY <1>0, <2>1
<1>2. /\ snd.pc = "pack" /\ sNccl = <<>>
      /\ sMeta' = [sMeta EXCEPT ![0] = IF more THEN [tensors |-> <<entry>>, last |-> FALSE]
                                       ELSE [tensors |-> <<>>, last |-> TRUE]]
      /\ sNccl' = <<[op |-> "meta", buf |-> 0]>>
                  \o (IF more THEN <<[op |-> "raw", w |-> entry.w]>> ELSE <<>>)
      /\ snd' = [snd EXCEPT !.next = @ + 1, !.pc = IF more THEN "pack" ELSE "sync"]
      /\ UNCHANGED <<direct, model, sDefault, sData, sendEvent, goals, faults, receiver>>
  BY <1>1 DEF SendDirect
<1>3. Len(model) \in Nat /\ snd.next \in Nat \ {0} /\ model \in Seq(Nat) /\ more \in BOOLEAN
      /\ snd.meta = <<>>
  BY <1>1 DEF DirectInv, EngineTypeOK, DirectInOrder
<1>4. more => /\ entry \in Tensors /\ entry.w = Weight(snd.next) /\ entry.w \in Weights
              /\ snd.next <= Len(model)
  <2> SUFFICES ASSUME more
               PROVE  /\ entry \in Tensors /\ entry.w = Weight(snd.next) /\ entry.w \in Weights
                      /\ snd.next <= Len(model)
    OBVIOUS
  <2>1. snd.next \in 1 .. Len(model) /\ model[snd.next] \in Nat
    BY <1>1, <1>3
  <2>2. Weight(snd.next) \in Weights
    BY <2>1, WeightIsTyped DEF Weight, DirectInv
  <2> QED
    BY <1>1, <2>1, <2>2 DEF DirectEntry, Tensors
<1>5. PICK h : h = IF more THEN [tensors |-> <<entry>>, last |-> FALSE]
                   ELSE [tensors |-> <<>>, last |-> TRUE]
  OBVIOUS
<1>6. h \in Metas /\ 0 \in Buffers
  <2>1. CASE more
    <3>1. <<entry>> \in Seq(Tensors)
      BY <1>4, <2>1
    <3> QED
      BY <1>5, <2>1, <3>1 DEF Metas, Buffers
  <2>2. CASE ~more
    <3>1. <<>> \in Seq(Tensors)
      BY EmptySeq
    <3> QED
      BY <1>5, <2>2, <3>1 DEF Metas, Buffers
  <2> QED
    BY <2>1, <2>2
<1>7. sMeta' \in [Buffers -> Metas] /\ sMeta'[0] = h
  BY <1>2, <1>5, <1>6 DEF DirectInv, EngineTypeOK
<1>8. /\ snd'.meta = <<>> /\ snd'.next = snd.next + 1 /\ snd'.round = snd.round
      /\ snd'.pc = IF more THEN "pack" ELSE "sync"
  BY <1>2, <1>3 DEF DirectInv, EngineTypeOK
<1>9. EngineTypeOK'
  <2>1. (IF more THEN "pack" ELSE "sync") \in SndPcs /\ snd.next + 1 \in Nat \ {0}
    BY <1>3 DEF SndPcs
  <2>2. snd' \in [pc : SndPcs, round : Nat, next : Nat \ {0}, pack : Buffers,
                  prev : Buffers \cup {Nil}, meta : Seq(Tensors), offset : Nat]
    BY <1>2, <2>1 DEF DirectInv, EngineTypeOK
  <2> QED
    BY <1>2, <1>7, <2>2 DEF DirectInv, EngineTypeOK, receiver
<1>10. /\ sNccl' # <<>> /\ HeadOp(sNccl') = "meta" /\ Head(sNccl').buf = 0
       /\ sNccl' = IF more THEN <<[op |-> "meta", buf |-> 0], [op |-> "raw", w |-> entry.w]>>
                   ELSE <<[op |-> "meta", buf |-> 0]>>
  BY <1>2, <1>3 DEF HeadOp
<1>11. HeaderSent' /\ Unsent' = h.tensors /\ ~HeaderSent /\ Unsent = <<>>
  BY <1>2, <1>7, <1>10, SendStages DEF HeaderSent, Unsent
<1>12. /\ Fresh' = Fresh /\ Copied' = Copied /\ From(1)' = From(1)
       /\ (LastHere <=> LastHere') /\ PartsTyped /\ (RawAhead' <=> RawAhead) /\ ~RawAhead
  <2>1. RawAhead' <=> RawAhead
    BY <1>2 DEF RawAhead, receiver
  <2>2. ~RawAhead
    BY <1>2, SendStages DEF DirectInv, DirectInOrder
  <2> QED
    BY <1>2, <1>8, <2>1, <2>2, ReceiverSame, RestSame, DirectParts DEF receiver
<1>13. PICK c, f, r, w : /\ c = Copied /\ f = Ids(Fresh) /\ r = Unpacked' /\ w = Ids(h.tensors)
  OBVIOUS
<1>14. Unpacked = w \o r /\ r \in Seq(Weights) /\ w \in Seq(Weights)
  <2>1. CASE more
    <3>1. w = <<entry.w>>
      BY <1>5, <1>13, <2>1, IdsOfOne
    <3>2. Unpacked = From(snd.next)
      BY <1>1, <2>1 DEF Unpacked
    <3>3. Unpacked' = IF snd.next + 1 <= Len(model) THEN From(snd.next + 1) ELSE <<>>
      BY <1>2, <1>8, RestSame
    <3>4. Unpacked = <<entry.w>> \o Unpacked'
      BY <1>3, <1>4, <2>1, <3>2, <3>3, FromNext DEF DirectInv
    <3>5. Unpacked' \in Seq(Weights)
      <4>1. snd.next + 1 \in Nat \ {0} /\ (snd.next + 1 <= Len(model) => snd.next + 1 <= Len(model) + 1)
        BY <1>3
      <4> QED
        BY <3>3, <4>1, FromIsTyped, EmptySeq DEF FromTyped, DirectInv
    <3>6. w \in Seq(Weights)
      BY <1>4, <2>1, <3>1
    <3> QED
      BY <1>13, <3>1, <3>4, <3>5, <3>6
  <2>2. CASE ~more
    <3>1. w = <<>>
      BY <1>5, <1>13, <2>2, IdsOfNone
    <3>2. Unpacked = <<>>
      BY <1>1, <2>2 DEF Unpacked
    <3>3. ~(snd.next + 1 <= Len(model))
      BY <1>1, <1>3, <2>2
    <3>4. Unpacked' = <<>>
      BY <1>2, <1>8, <3>3, RestSame
    <3> QED
      BY <1>13, <3>1, <3>2, <3>4, NoneBefore, EmptySeq
  <2> QED
    BY <2>1, <2>2
<1>15. Pending' = Pending /\ Outgoing' = Outgoing
  <2>1. c \in Seq(Weights) /\ f \in Seq(Weights)
    BY <1>12, <1>13 DEF PartsTyped
  <2>2. /\ Ids(Fresh)' = f /\ Ids(Unsent)' = w /\ Ids(snd.meta)' = <<>>
        /\ Ids(Unsent) = <<>> /\ Ids(snd.meta) = <<>>
    BY <1>3, <1>8, <1>11, <1>12, <1>13, IdsOfNone DEF Ids
  <2>3. /\ Pending' = Line(c, f, w, <<>>, r) /\ Outgoing' = SenderLine(w, <<>>, r)
        /\ Pending = Line(c, f, <<>>, <<>>, w \o r) /\ Outgoing = SenderLine(<<>>, <<>>, w \o r)
    BY <1>12, <1>13, <1>14, <2>2, Zenon DEF Pending, Outgoing
  <2>4. Line(c, f, w, <<>>, r) = Line(c, f, <<>>, <<>>, w \o r)
    BY <1>14, <2>1, MoveSendOne
  <2>5. SenderLine(w, <<>>, r) = SenderLine(<<>>, <<>>, w \o r)
    BY <1>14, MoveSendOneOut
  <2> QED
    BY <2>3, <2>4, <2>5
<1>16. RoundsInStep' /\ Flow'
  <2>1. SenderMid /\ SenderMid'
    BY <1>2, <1>8, <1>11 DEF SenderMid
  <2> QED
    BY <1>2, <1>8, <1>12, <1>15, <2>1, LineKept DEF DirectInv, receiver
<1>17. CopiesSafe'
  BY <1>2, CopiesSame DEF DirectInv, receiver
<1>18. DirectInOrder'
  <2>1. CASE more
    <3>1. /\ sMeta'[0].tensors = <<entry>> /\ ~sMeta'[0].last /\ OneTensor(sMeta'[0])
          /\ sMeta'[0].tensors[1].w = entry.w
      BY <1>5, <1>7, <2>1 DEF OneTensor
    <3>2. /\ OneTensor(sMeta[0])' /\ snd'.pc \in {"pack", "raised"}
          /\ sNccl' = <<[op |-> "meta", buf |-> 0], [op |-> "raw", w |-> sMeta'[0].tensors[1].w]>>
      BY <1>8, <1>10, <2>1, <3>1
    <3>3. snd'.pc = "pack" /\ sDefault' = sDefault
      BY <1>2, <1>8, <2>1
    <3> QED
      BY <1>2, <1>8, <1>12, <3>2, <3>3 DEF DirectInv, DirectInOrder, receiver, Written
  <2>2. CASE ~more
    <3>1. /\ sNccl' = <<[op |-> "meta", buf |-> 0]>> /\ sMeta'[0] = [tensors |-> <<>>, last |-> TRUE]
          /\ snd'.pc = "sync" /\ snd'.next > Len(model')
      BY <1>1, <1>2, <1>3, <1>5, <1>7, <1>8, <1>10, <2>2
    <3> QED
      BY <1>2, <1>8, <1>12, <3>1 DEF DirectInv, DirectInOrder, receiver, Written
  <2> QED
    BY <2>1, <2>2
<1> QED
  BY <1>2, <1>9, <1>16, <1>17, <1>18 DEF DirectInv

LEMMA DirectReceiveBeginsKeeps ==
  ASSUME DirectInv, ReceiveBegins
  PROVE  DirectInv'
<1>1. /\ rcv.pc \in {"idle", "done"} /\ rcv' = [pc |-> "wait", buf |-> 0]
      /\ rNccl' = rNccl \o <<[op |-> "meta", buf |-> 0]>>
      /\ UNCHANGED <<direct, sender, rDefault, rMeta, rData, loaded, reported>>
  BY DEF ReceiveBegins, DirectInv
<1>2. rNccl = <<>> /\ rDefault = <<>>
  BY <1>1 DEF DirectInv, DirectInOrder
<1>3. rNccl' = <<[op |-> "meta", buf |-> 0]>> /\ rNccl' # <<>> /\ HeadOp(rNccl') = "meta"
  BY <1>1, <1>2 DEF HeadOp
<1>4. EngineTypeOK'
  <2>1. "wait" \in RcvPcs /\ 0 \in Buffers
    BY DEF RcvPcs, Buffers
  <2> QED
    BY <1>1, <2>1 DEF DirectInv, EngineTypeOK, sender
<1>5. /\ (SenderMid <=> SenderMid') /\ Unsent' = Unsent /\ Unpacked' = Unpacked /\ From(1)' = From(1)
  BY <1>1, SenderSame
<1>6. Fresh = <<>> /\ Fresh' = <<>> /\ ~LastHere /\ ~LastHere' /\ Copied' = Copied
      /\ ~RawAhead /\ ~RawAhead'
  BY <1>1, <1>3 DEF Fresh, HasHeader, RawLeft, LastHere, Copied, RawAhead
<1>7. RoundsInStep' /\ Flow'
  BY <1>1, <1>5, <1>6, LineStays DEF DirectInv, sender
<1>8. CopiesSafe'
  <2>1. rcv'.pc \in RcvPcs
    BY <1>1 DEF RcvPcs
  <2> QED
    BY <1>1, <1>2, <2>1, CopiesSame DEF DirectInv
<1>9. DirectInOrder'
  BY <1>1, <1>3, <1>6 DEF DirectInv, DirectInOrder, sender, Written
<1> QED
  BY <1>1, <1>4, <1>7, <1>8, <1>9 DEF DirectInv

LEMMA DirectReturnsKeeps ==
  ASSUME DirectInv, ReceiveReturns
  PROVE  DirectInv'
<1>1. /\ rNccl = <<>> /\ rDefault = <<>> /\ rcv.pc = "built" /\ rcv' = [rcv EXCEPT !.pc = "done"]
      /\ UNCHANGED <<direct, sender, rDefault, rNccl, rMeta, rData, loaded>>
  BY DEF ReceiveReturns, Drained
<1>2. rcv'.pc = "done" /\ "done" \in RcvPcs /\ rcv'.buf = rcv.buf
  BY <1>1 DEF DirectInv, EngineTypeOK, RcvPcs
<1>3. /\ (SenderMid <=> SenderMid') /\ Unsent' = Unsent /\ Unpacked' = Unpacked /\ From(1)' = From(1)
  BY <1>1, SenderSame
<1>4. EngineTypeOK' /\ RoundsInStep' /\ Flow'
  BY <1>3, ReturnKeepsLine DEF DirectInv
<1>5. CopiesSafe'
  BY <1>1, <1>2, CopiesSame DEF DirectInv
<1>6. DirectInOrder'
  <2>1. ~RawAhead /\ ~RawAhead' /\ ~LastHere'
    BY <1>1, <1>2 DEF RawAhead, LastHere, HasHeader
  <2> QED
    BY <1>1, <1>2, <2>1 DEF DirectInv, DirectInOrder, sender, Written
<1> QED
  BY <1>1, <1>4, <1>5, <1>6 DEF DirectInv

\* The receiver knows the next weight, or the end.
LEMMA TakeDirectKeeps ==
  ASSUME DirectInv, TakeDirect
  PROVE  DirectInv'
<1>1. /\ rcv.pc = "wait" /\ rNccl = <<>> /\ rDefault = <<>>
      /\ UNCHANGED <<direct, sender, rDefault, rMeta, rData, loaded, reported>>
  BY DEF TakeDirect, Drained
<1>2. rcv.buf = 0 /\ rcv \in [pc : RcvPcs, buf : Buffers]
  BY DEF DirectInv, DirectInOrder, EngineTypeOK
<1>3. HasHeader /\ (LastHere <=> rMeta[0].last) /\ Fresh = rMeta[0].tensors
  BY <1>1, <1>2, DirectParts DEF LastHere, Fresh
<1>4. /\ (SenderMid <=> SenderMid') /\ Unsent' = Unsent /\ Unpacked' = Unpacked /\ From(1)' = From(1)
  BY <1>1, SenderSame
<1>5. CASE rMeta[0].last
  <2>1. rcv' = [rcv EXCEPT !.pc = "built"] /\ rNccl' = rNccl
    BY <1>5 DEF TakeDirect
  <2>2. rcv'.pc = "built" /\ rcv'.buf = 0 /\ rcv' \in [pc : RcvPcs, buf : Buffers]
    BY <1>2, <2>1 DEF RcvPcs
  <2>3. EngineTypeOK'
    BY <1>1, <2>2 DEF DirectInv, EngineTypeOK, sender
  <2>4. Fresh = <<>> /\ Fresh' = <<>> /\ LastHere /\ LastHere' /\ Copied' = Copied
        /\ ~RawAhead /\ ~RawAhead'
    <3>1. Fresh = <<>> /\ LastHere
      BY <1>3, <1>5 DEF DirectInv, DirectInOrder
    <3> QED
      BY <1>1, <1>5, <2>1, <2>2, <3>1 DEF Fresh, HasHeader, RawLeft, LastHere, Copied, RawAhead
  <2>5. RoundsInStep' /\ Flow'
    BY <1>1, <1>4, <2>4, LineStays DEF DirectInv, sender
  <2>6. CopiesSafe'
    BY <1>1, <2>2, CopiesSame DEF DirectInv
  <2>7. DirectInOrder'
    BY <1>1, <2>1, <2>2, <2>4 DEF DirectInv, DirectInOrder, sender, Written
  <2> QED
    BY <1>1, <2>3, <2>5, <2>6, <2>7 DEF DirectInv
<1>6. CASE ~rMeta[0].last
  <2>1. /\ rcv' = [rcv EXCEPT !.pc = "raw"]
        /\ rNccl' = <<[op |-> "raw", into |-> Place[rMeta[0].tensors[1].w[2]]]>>
    BY <1>6 DEF TakeDirect
  <2>2. rcv'.pc = "raw" /\ rcv'.buf = 0 /\ rcv' \in [pc : RcvPcs, buf : Buffers] /\ rNccl' # <<>>
    BY <1>2, <2>1 DEF RcvPcs
  <2>3. EngineTypeOK'
    BY <1>1, <2>2 DEF DirectInv, EngineTypeOK, sender
  <2>4. Fresh' = Fresh /\ ~LastHere /\ ~LastHere' /\ Copied' = Copied /\ RawAhead /\ RawAhead'
    BY <1>1, <1>3, <1>6, <2>1, <2>2 DEF Fresh, HasHeader, RawLeft, LastHere, Copied, RawAhead
  <2>5. RoundsInStep' /\ Flow'
    BY <1>1, <1>4, <2>4, LineStays DEF DirectInv, sender
  <2>6. CopiesSafe'
    BY <1>1, <2>2, CopiesSame DEF DirectInv
  <2>7. DirectInOrder'
    <3>1. UNCHANGED <<snd, sNccl, sMeta, sDefault, rMeta, model>>
      BY <1>1 DEF sender
    <3>2. /\ rNccl' = <<[op |-> "raw", into |-> Place[rMeta'[0].tensors[1].w[2]]]>>
          /\ rDefault' = <<>>
      BY <1>1, <2>1
    <3> QED
      BY <2>2, <2>4, <3>1, <3>2 DEF DirectInv, DirectInOrder
  <2> QED
    BY <1>1, <2>3, <2>5, <2>6, <2>7 DEF DirectInv
<1> QED
  BY <1>5, <1>6

\* The weight has arrived: a padded one is copied into its place, one that has no
\* place is dropped.
LEMMA DirectTakenKeeps ==
  ASSUME DirectInv, DirectTaken
  PROVE  DirectInv'
<1>1. PICK t, pl : t = rMeta[0].tensors[1] /\ pl = Place[t.w[2]]
  OBVIOUS
<1>2. /\ rcv.pc = "raw" /\ rNccl = <<>>
      /\ rDefault' = IF pl = "padded" THEN CopiesOut(0) ELSE <<>>
      /\ rNccl' = <<[op |-> "meta", buf |-> 0]>>
      /\ rcv' = [rcv EXCEPT !.pc = "wait"]
      /\ UNCHANGED <<direct, sender, rMeta, rData, loaded, reported>>
  BY <1>1 DEF DirectTaken
<1>3. /\ rcv.buf = 0 /\ rcv \in [pc : RcvPcs, buf : Buffers] /\ OneTensor(rMeta[0])
      /\ rDefault = <<>> /\ 0 \in Buffers
      /\ pl # "fits" => Written(rData[0], t)
  BY <1>1, <1>2 DEF DirectInv, DirectInOrder, EngineTypeOK, Buffers
<1>4. /\ t \in Tensors /\ rMeta[0].tensors = <<t>> /\ Ids(rMeta[0].tensors) = <<t.w>>
      /\ t.w \in Weights
  BY <1>1, <1>3, OneOf DEF DirectInv, EngineTypeOK
<1>5. pl \in {"fits", "padded", "none"} /\ (pl = "none" => ~Wanted(t.w))
  <2>1. 1 \in DOMAIN rMeta[0].tensors
    BY <1>4
  <2>2. pl # "mismatch"
    BY <1>1, <2>1 DEF DirectTaken, Refused
  <2> QED
    BY <1>1, <1>4, <2>2 DEF Weights, Wanted
<1>6. rcv'.pc = "wait" /\ rcv'.buf = 0 /\ rcv' \in [pc : RcvPcs, buf : Buffers]
      /\ rNccl' # <<>> /\ HeadOp(rNccl') = "meta"
  BY <1>2, <1>3 DEF RcvPcs, HeadOp
<1>7. EngineTypeOK'
  BY <1>2, <1>6 DEF DirectInv, EngineTypeOK, sender
<1>8. /\ (SenderMid <=> SenderMid') /\ Unsent' = Unsent /\ Unpacked' = Unpacked /\ From(1)' = From(1)
  BY <1>2, SenderSame
<1>9. /\ ~LastHere /\ ~LastHere' /\ ~RawAhead /\ ~RawAhead' /\ Copied = <<>> /\ Fresh' = <<>>
      /\ Fresh = IF pl = "fits" THEN <<>> ELSE rMeta[0].tensors
  <2>1. /\ ~LastHere /\ ~LastHere' /\ ~RawAhead /\ ~RawAhead' /\ ~HasHeader /\ ~HasHeader'
        /\ ~RawLeft' /\ (RawLeft <=> pl # "fits")
    BY <1>1, <1>2, <1>6 DEF HasHeader, RawLeft, LastHere, RawAhead
  <2>2. Copied = <<>>
    BY <1>3 DEF Copied
  <2> QED
    BY <1>3, <2>1, <2>2 DEF Fresh
<1>10. DirectInOrder'
  BY <1>2, <1>6, <1>9 DEF DirectInv, DirectInOrder, sender
<1>11. CASE pl = "padded"
  <2>1. AllWritten(rData[0], rMeta[0].tensors)
    <3>1. DOMAIN rMeta[0].tensors = {1}
      BY <1>4
    <3> QED
      BY <1>3, <1>4, <1>11, <3>1 DEF AllWritten
  <2>2. CopiesSafe' /\ Copied' = Ids(rMeta[0].tensors)
    BY <1>2, <1>3, <1>6, <1>11, <2>1, CopiesQueued DEF DirectInv
  <2>3. RoundsInStep' /\ Flow'
    <3>1. Copied' = Ids(Fresh)
      BY <1>9, <1>11, <2>2
    <3> QED
      BY <1>2, <1>9, <3>1, DirectParts, TakeKeepsLine DEF DirectInv
  <2> QED
    BY <1>2, <1>7, <1>10, <2>2, <2>3 DEF DirectInv
<1>12. CASE pl # "padded"
  <2>1. rDefault' = <<>> /\ Copied' = <<>>
    BY <1>2, <1>12 DEF Copied
  <2>2. CopiesSafe'
    BY <1>2, <1>3, <1>6, <2>1, CopiesSame DEF DirectInv
  <2>3. CASE pl = "fits"
    <3>1. Fresh' = Fresh /\ Copied' = Copied
      BY <1>9, <2>1, <2>3
    <3>2. RoundsInStep' /\ Flow'
      BY <1>2, <1>8, <1>9, <3>1, LineStays DEF DirectInv, sender
    <3> QED
      BY <1>2, <1>7, <1>10, <2>2, <3>2 DEF DirectInv
  <2>4. CASE pl = "none"
    <3>1. PICK u, p, r, w, old, all : /\ u = Ids(Unsent) /\ p = Ids(snd.meta) /\ r = Unpacked
                                      /\ w = t.w /\ old = loaded /\ all = FlattenSeq(goals)
      OBVIOUS
    <3>2. u \in Seq(Weights) /\ p \in Seq(Weights) /\ r \in Seq(Weights) /\ w \in Weights
          /\ old \in Seq(Weights)
      BY <1>4, <3>1, DirectParts DEF PartsTyped, DirectInv, EngineTypeOK
    <3>3. PICK one, l : one = <<w>> /\ l = Line(<<>>, <<>>, u, p, r)
      OBVIOUS
    <3>4. one \in Seq(Weights) /\ l \in Seq(Weights)
      <4>1. <<>> \in Seq(Weights)
        BY EmptySeq
      <4>2. Line(<<>>, <<>>, u, p, r) \in Seq(Weights)
        BY <3>2, <4>1, LineTyped
      <4> QED
        BY <3>2, <3>3, <4>2
    <3>5. Ids(Fresh) = one
      BY <1>4, <1>9, <2>4, <3>1, <3>3
    <3>6. Pending = Line(<<>>, one, u, p, r)
      BY <1>9, <3>1, <3>5, Zenon DEF Pending
    <3>7. Leads(one, Line(<<>>, one, u, p, r), l)
      BY <3>2, <3>3, <3>4, MoveRaw
    <3>8. Pending = Then(w, l)
      BY <3>3, <3>6, <3>7 DEF Leads, Then
    <3>9. Pending' = l /\ Outgoing' = Outgoing
      <4>1. Ids(Unsent)' = Ids(Unsent) /\ Ids(snd.meta)' = Ids(snd.meta) /\ Ids(Fresh)' = <<>>
        BY <1>2, <1>8, <1>9, IdsOfNone DEF Ids, sender
      <4> QED
        BY <1>8, <2>1, <3>1, <3>3, <4>1, Zenon DEF Pending, Outgoing
    <3>10. Makes(old, Then(w, l), all)
      BY <3>1, <3>8 DEF DirectInv, Flow, Makes
    <3>11. Makes(old, l, all)
      BY <1>5, <2>4, <3>1, <3>2, <3>4, <3>10, FirstSkipped
    <3>12. Flow'
      BY <1>2, <3>1, <3>9, <3>11 DEF Flow, Makes, sender
    <3>13. RoundsInStep'
      BY <1>2, <1>8, <1>9, <3>9 DEF DirectInv, RoundsInStep, sender
    <3> QED
      BY <1>2, <1>7, <1>10, <2>2, <3>12, <3>13 DEF DirectInv
  <2> QED
    BY <1>5, <1>12, <2>3, <2>4
<1> QED
  BY <1>11, <1>12

LEMMA DirectLoadKeeps ==
  ASSUME DirectInv, ReceiverDefaultRuns
  PROVE  DirectInv'
<1>1. /\ rDefault # <<>> /\ UNCHANGED <<direct, sender, rcv, rNccl, rMeta, rData, reported>>
  BY DEF ReceiverDefaultRuns
<1>2. EngineTypeOK' /\ RoundsInStep' /\ Flow' /\ CopiesSafe'
  BY LoadKeeps, DirectParts DEF DirectInv
<1>3. rcv.pc \notin {"idle", "done", "raw"}
  BY <1>1 DEF DirectInv, DirectInOrder
<1>4. (RawAhead' <=> RawAhead) /\ (LastHere <=> LastHere')
  BY <1>1, FreshSame DEF RawAhead
<1>5. DirectInOrder'
  BY <1>1, <1>3, <1>4 DEF DirectInv, DirectInOrder, sender
<1> QED
  BY <1>1, <1>2, <1>5 DEF DirectInv

LEMMA DirectHeaderKeeps ==
  ASSUME DirectInv, Transfer, Head(sNccl).op = "meta"
  PROVE  DirectInv'
<1>1. /\ sNccl # <<>> /\ rNccl # <<>> /\ HeadOp(sNccl) = "meta" /\ HeadOp(rNccl) = "meta"
      /\ rMeta' = [rMeta EXCEPT ![Head(rNccl).buf] = sMeta[Head(sNccl).buf]]
      /\ sNccl' = Tail(sNccl) /\ rNccl' = Tail(rNccl)
      /\ UNCHANGED <<direct, model, snd, sDefault, sMeta, sData, sendEvent, goals, faults,
                     rcv, rDefault, rData, loaded, reported>>
  BY DEF Transfer, HeadOp
<1>2. rcv.pc = "wait" /\ rNccl = <<[op |-> "meta", buf |-> 0]>> /\ rcv.buf = 0
  BY <1>1 DEF DirectInv, DirectInOrder, EngineTypeOK, RcvPcs, HeadOp
<1>3. rNccl' = <<>> /\ Head(rNccl).buf = 0 /\ 0 \in Buffers /\ HeadOp(<<>>) = "nothing"
  BY <1>1, <1>2 DEF Buffers, HeadOp
<1>4. HeaderSent /\ Head(sNccl).buf = 0 /\ Unsent = sMeta[0].tensors
  BY <1>1, DirectParts DEF HeaderSent
<1>5. rMeta' \in [Buffers -> Metas] /\ rMeta'[0] = sMeta[0]
  <2>1. rMeta \in [Buffers -> Metas] /\ sMeta[0] \in Metas
    BY <1>3 DEF DirectInv, EngineTypeOK
  <2> QED
    BY <1>1, <1>3, <1>4, <2>1
<1>6. EngineTypeOK'
  BY <1>1, <1>5 DEF DirectInv, EngineTypeOK
<1>7. ~HasHeader /\ HasHeader' /\ Fresh = <<>> /\ Fresh' = Unsent
      /\ ~LastHere /\ (LastHere' <=> sMeta[0].last)
  <2>1. ~HasHeader /\ HasHeader' /\ ~RawLeft
    BY <1>1, <1>2, <1>3 DEF HasHeader, RawLeft
  <2> QED
    BY <1>1, <1>2, <1>4, <1>5, <2>1 DEF Fresh, LastHere
<1>8. \/ /\ sNccl' = <<>> /\ sMeta[0] = [tensors |-> <<>>, last |-> TRUE] /\ snd.pc = "sync"
      \/ /\ OneTensor(sMeta[0]) /\ snd.pc \in {"pack", "raised"}
         /\ sNccl' = <<[op |-> "raw", w |-> sMeta[0].tensors[1].w]>>
  <2>1. \/ /\ sNccl = <<[op |-> "meta", buf |-> 0]>> /\ sMeta[0] = [tensors |-> <<>>, last |-> TRUE]
           /\ snd.pc = "sync"
        \/ /\ OneTensor(sMeta[0]) /\ snd.pc \in {"pack", "raised"}
           /\ sNccl = <<[op |-> "meta", buf |-> 0], [op |-> "raw", w |-> sMeta[0].tensors[1].w]>>
        \/ sNccl = <<[op |-> "raw", w |-> rMeta[0].tensors[1].w]>>
    BY <1>1 DEF DirectInv, DirectInOrder
  <2>2. sNccl # <<[op |-> "raw", w |-> rMeta[0].tensors[1].w]>>
    BY <1>1 DEF HeadOp
  <2>3. \A x, y : Tail(<<x>>) = <<>> /\ Tail(<<x, y>>) = <<y>>
    OBVIOUS
  <2> QED
    BY <1>1, <2>1, <2>2, <2>3, Zenon
<1>9. ~HeaderSent' /\ (LastHere' <=> snd.pc = "sync") /\ snd.pc \in {"pack", "raised", "sync"}
  <2>1. HeadOp(sNccl') # "meta"
    BY <1>8 DEF HeadOp
  <2> QED
    BY <1>7, <1>8, <2>1 DEF HeaderSent, OneTensor
<1>10. RoundsInStep' /\ Flow'
  <2>1. snd.pc = "sync" => snd.next > Len(model) /\ snd.meta = <<>>
    BY DEF DirectInv, DirectInOrder
  <2> QED
    BY <1>1, <1>4, <1>7, <1>9, <2>1, DirectParts, HeaderKeepsLine DEF DirectInv
<1>11. CopiesSafe'
  BY <1>1, CopiesSame DEF DirectInv
<1>12. DirectInOrder'
  <2>1. RawAhead' <=> ~sMeta[0].last
    BY <1>1, <1>2, <1>3, <1>5 DEF RawAhead
  <2>2. CASE snd.pc = "sync"
    <3>1. sNccl' = <<>> /\ rMeta'[0].tensors = <<>> /\ ~RawAhead'
      BY <1>5, <1>8, <2>1, <2>2
    <3> QED
      BY <1>1, <1>2, <1>3, <3>1 DEF DirectInv, DirectInOrder
  <2>3. CASE snd.pc # "sync"
    <3>1. /\ sNccl' = <<[op |-> "raw", w |-> rMeta'[0].tensors[1].w]>> /\ RawAhead' /\ ~LastHere'
          /\ snd.pc \in {"pack", "raised"} /\ OneTensor(rMeta'[0]) /\ HeadOp(sNccl') = "raw"
      BY <1>5, <1>8, <1>9, <2>1, <2>3 DEF OneTensor, HeadOp
    <3>2. OneTensor(rMeta[0])'
      BY <3>1
    <3> QED
      BY <1>1, <1>2, <1>3, <3>1, <3>2 DEF DirectInv, DirectInOrder
  <2> QED
    BY <2>2, <2>3
<1> QED
  BY <1>1, <1>6, <1>10, <1>11, <1>12 DEF DirectInv

LEMMA RawTransfer ==
  ASSUME DirectInv, Transfer, Head(sNccl).op = "raw", NEW t, t = rMeta[0].tensors[1]
  PROVE  /\ rcv.pc = "raw" /\ rcv.buf = 0 /\ rDefault = <<>> /\ OneTensor(rMeta[0])
         /\ t \in Tensors /\ rMeta[0].tensors = <<t>> /\ Ids(rMeta[0].tensors) = <<t.w>>
         /\ t.w \in Weights
         /\ Head(sNccl).w = t.w /\ Head(rNccl).into = Place[t.w[2]]
         /\ rNccl # <<>> /\ sNccl' = <<>> /\ rNccl' = <<>> /\ snd.pc \in {"pack", "raised"}
         /\ UNCHANGED <<direct, model, snd, sDefault, sMeta, sData, sendEvent, goals, faults,
                        rcv, rDefault, rMeta, reported>>
<1>1. /\ sNccl # <<>> /\ rNccl # <<>> /\ HeadOp(sNccl) = "raw" /\ HeadOp(rNccl) = "raw"
      /\ sNccl' = Tail(sNccl) /\ rNccl' = Tail(rNccl)
      /\ UNCHANGED <<direct, model, snd, sDefault, sMeta, sData, sendEvent, goals, faults,
                     rcv, rDefault, rMeta, reported>>
  BY DEF Transfer, HeadOp
<1>2. sNccl = <<[op |-> "raw", w |-> t.w]>> /\ RawAhead
  BY <1>1, DirectParts
<1>3. snd.pc \in {"pack", "raised"} /\ rcv.buf = 0
  BY <1>1 DEF DirectInv, DirectInOrder, HeadOp
<1>4. rcv.pc = "raw"
  BY <1>1, <1>2 DEF RawAhead
<1>5. OneTensor(rMeta[0]) /\ rDefault = <<>> /\ rNccl = <<[op |-> "raw", into |-> Place[t.w[2]]]>>
  BY <1>1, <1>4 DEF DirectInv, DirectInOrder
<1>6. rMeta[0] \in Metas
  BY DEF DirectInv, EngineTypeOK, Buffers
<1>7. /\ t \in Tensors /\ rMeta[0].tensors = <<t>> /\ Ids(rMeta[0].tensors) = <<t.w>>
      /\ t.w \in Weights
  BY <1>5, <1>6, OneOf
<1> QED
  BY <1>1, <1>2, <1>3, <1>4, <1>5, <1>7

\* What the order says once the weight is in its view or in scratch memory.
LEMMA RawInOrder ==
  ASSUME DirectInv, Transfer, Head(sNccl).op = "raw",
         Place[rMeta[0].tensors[1].w[2]] # "fits" => Written(rData[0], rMeta[0].tensors[1])'
  PROVE  DirectInOrder' /\ ~HeaderSent /\ ~HeaderSent' /\ (SenderMid <=> SenderMid')
         /\ ~LastHere /\ ~LastHere' /\ Fresh = rMeta[0].tensors
         /\ Fresh' = (IF Place[rMeta[0].tensors[1].w[2]] = "fits" THEN <<>> ELSE Fresh)
<1>1. PICK t : t = rMeta[0].tensors[1]
  OBVIOUS
<1>2. /\ rcv.pc = "raw" /\ rcv.buf = 0 /\ rDefault = <<>> /\ OneTensor(rMeta[0])
      /\ rNccl # <<>> /\ sNccl' = <<>> /\ rNccl' = <<>> /\ snd.pc \in {"pack", "raised"}
      /\ UNCHANGED <<direct, model, snd, sDefault, sMeta, sData, sendEvent, goals, faults,
                     rcv, rDefault, rMeta, reported>>
  BY <1>1, RawTransfer
<1>3. ~HeaderSent /\ ~HeaderSent' /\ (SenderMid <=> SenderMid')
  <2>1. ~HeaderSent /\ ~HeaderSent'
    BY <1>2, SendStages DEF HeaderSent, HeadOp, Transfer
  <2> QED
    BY <1>2, <2>1 DEF SenderMid
<1>4. ~HasHeader /\ ~HasHeader' /\ ~LastHere /\ ~LastHere' /\ ~RawAhead' /\ RawLeft
      /\ (RawLeft' <=> Place[t.w[2]] # "fits")
  BY <1>1, <1>2 DEF HasHeader, LastHere, RawAhead, RawLeft
<1>5. Fresh = rMeta[0].tensors /\ Fresh' = (IF Place[t.w[2]] = "fits" THEN <<>> ELSE Fresh)
  BY <1>2, <1>4 DEF Fresh
<1>6. DirectInOrder'
  <2>1. OneTensor(rMeta[0])'
    BY <1>2
  <2>2. Place[rMeta'[0].tensors[1].w[2]] # "fits" => Written(rData'[0], rMeta'[0].tensors[1])
    BY <1>2
  <2> QED
    BY <1>2, <1>4, <2>1, <2>2 DEF DirectInv, DirectInOrder
<1> QED
  BY <1>1, <1>3, <1>4, <1>5, <1>6

LEMMA RawArrivesKeeps ==
  ASSUME DirectInv, Transfer, Head(sNccl).op = "raw"
  PROVE  DirectInv' /\ (loaded' = loaded \/ Arrives)
<1>1. PICK t : t = rMeta[0].tensors[1]
  OBVIOUS
<1>2. /\ rcv.pc = "raw" /\ rcv.buf = 0 /\ rDefault = <<>> /\ OneTensor(rMeta[0])
      /\ t \in Tensors /\ rMeta[0].tensors = <<t>> /\ Ids(rMeta[0].tensors) = <<t.w>>
      /\ t.w \in Weights /\ Head(sNccl).w = t.w /\ Head(rNccl).into = Place[t.w[2]]
      /\ rNccl # <<>> /\ sNccl' = <<>> /\ rNccl' = <<>> /\ snd.pc \in {"pack", "raised"}
      /\ UNCHANGED <<direct, model, snd, sDefault, sMeta, sData, sendEvent, goals, faults,
                     rcv, rDefault, rMeta, reported>>
  BY <1>1, RawTransfer
<1>3. Copied = <<>> /\ Copied' = <<>> /\ Unpacked' = Unpacked /\ From(1)' = From(1)
  BY <1>2, RestSame DEF Copied
<1>4. CASE Place[t.w[2]] = "fits"
  <2>1. loaded' = Append(loaded, t.w) /\ rData' = rData
    BY <1>2, <1>4 DEF Transfer
  <2>2. DirectInOrder' /\ ~HeaderSent /\ ~HeaderSent' /\ (SenderMid <=> SenderMid')
        /\ ~LastHere /\ ~LastHere' /\ Fresh = <<t>> /\ Fresh' = <<>>
    BY <1>1, <1>2, <1>4, RawInOrder
  <2>3. Unsent' = Unsent /\ Unsent = <<>>
    BY <2>2 DEF Unsent
  <2>4. PICK p, r, w, old, all : /\ p = Ids(snd.meta) /\ r = Unpacked
                                 /\ w = t.w /\ old = loaded /\ all = FlattenSeq(goals)
    OBVIOUS
  <2>5. p \in Seq(Weights) /\ r \in Seq(Weights) /\ w \in Weights /\ old \in Seq(Weights)
        /\ <<>> \in Seq(Weights)
    BY <1>2, <2>4, DirectParts, EmptySeq DEF PartsTyped, DirectInv, EngineTypeOK
  <2>6. PICK one, l : one = <<w>> /\ l = Line(<<>>, <<>>, <<>>, p, r)
    OBVIOUS
  <2>7. one \in Seq(Weights) /\ l \in Seq(Weights)
    <3>1. Line(<<>>, <<>>, <<>>, p, r) \in Seq(Weights)
      BY <2>5, LineTyped
    <3> QED
      BY <2>5, <2>6, <3>1
  <2>8. Ids(Fresh) = one /\ Ids(Unsent) = <<>>
    BY <2>2, <2>3, <2>4, <2>6, IdsOfOne, IdsOfNone
  <2>9. Pending = Line(<<>>, one, <<>>, p, r)
    BY <1>3, <2>4, <2>8, Zenon DEF Pending
  <2>10. Leads(one, Line(<<>>, one, <<>>, p, r), l)
    BY <2>5, <2>6, <2>7, MoveRaw
  <2>11. Pending = Then(w, l)
    BY <2>6, <2>9, <2>10 DEF Leads, Then
  <2>12. Pending' = l /\ Outgoing' = Outgoing
    <3>1. Ids(Unsent)' = <<>> /\ Ids(snd.meta)' = p /\ Ids(Fresh)' = <<>>
      BY <1>2, <2>2, <2>3, <2>4, IdsOfNone DEF Ids
    <3> QED
      BY <1>3, <2>4, <2>6, <2>8, <3>1, Zenon DEF Pending, Outgoing
  <2>13. Makes(old, Then(w, l), all) /\ Wanted(w)
    BY <1>4, <2>4, <2>11 DEF DirectInv, Flow, Makes, Wanted
  <2>14. /\ Append(old, w) \in Seq(Weights) /\ Makes(Append(old, w), l, all)
         /\ Len(old) < Len(all) /\ all[Len(old) + 1] = w
    BY <2>5, <2>7, <2>13, FirstLoaded
  <2>15. Arrives /\ loaded' \in Seq(Weights)
    BY <2>1, <2>4, <2>14 DEF Arrives
  <2>16. Flow'
    BY <1>2, <2>1, <2>4, <2>12, <2>14 DEF Flow, Makes
  <2>17. RoundsInStep'
    BY <1>2, <1>3, <2>2, <2>12 DEF DirectInv, RoundsInStep
  <2>18. EngineTypeOK'
    BY <1>2, <2>1, <2>15 DEF DirectInv, EngineTypeOK
  <2>19. CopiesSafe'
    BY <1>2, <2>1, CopiesSame DEF DirectInv
  <2> QED
    BY <1>2, <2>2, <2>15, <2>16, <2>17, <2>18, <2>19 DEF DirectInv
<1>5. CASE Place[t.w[2]] # "fits"
  <2>1. loaded' = loaded /\ rData' = [rData EXCEPT ![0] = [x \in DOMAIN @ |-> t.w]]
    BY <1>2, <1>5 DEF Transfer
  <2>2. rData' \in [Buffers -> Bytes] /\ \A x \in 1 .. BucketSize : rData'[0][x] = t.w
    <3>1. 0 \in Buffers /\ rData \in [Buffers -> Bytes]
      BY DEF DirectInv, EngineTypeOK, Buffers
    <3>2. DOMAIN rData[0] = 1 .. BucketSize
      BY <3>1 DEF Bytes
    <3>3. PICK e : e = [x \in 1 .. BucketSize |-> t.w]
      OBVIOUS
    <3>4. e \in Bytes
      BY <1>2, <3>3 DEF Bytes
    <3>5. rData' = [rData EXCEPT ![0] = e]
      BY <2>1, <3>1, <3>2, <3>3
    <3> QED
      BY <3>1, <3>3, <3>4, <3>5
  <2>3. Written(rData[0], rMeta[0].tensors[1])'
    BY <1>1, <1>2, <2>2 DEF Written
  <2>4. DirectInOrder' /\ ~HeaderSent /\ ~HeaderSent' /\ (SenderMid <=> SenderMid')
        /\ ~LastHere /\ ~LastHere' /\ Fresh' = Fresh
    BY <1>1, <1>5, <2>3, RawInOrder
  <2>5. Unsent' = Unsent
    BY <2>4 DEF Unsent
  <2>6. RoundsInStep' /\ Flow'
    BY <1>2, <1>3, <2>1, <2>4, <2>5, LineStays DEF DirectInv
  <2>7. EngineTypeOK'
    BY <1>2, <2>1, <2>2 DEF DirectInv, EngineTypeOK
  <2>8. CopiesSafe'
    BY <1>2 DEF DirectInv, CopiesSafe
  <2> QED
    BY <1>2, <2>1, <2>4, <2>6, <2>7, <2>8 DEF DirectInv
<1> QED
  BY <1>4, <1>5

LEMMA DirectNext ==
  ASSUME DirectInv, Next, ~LoadRaises, ~DirectRaises
  PROVE  DirectInv'
<1>1. ASSUME NEW m \in Models, SendBegins(m) PROVE DirectInv'
  BY <1>1, DirectSendBeginsKeeps
<1>2. CASE ReceiveBegins
  BY <1>2, DirectReceiveBeginsKeeps
<1>3. CASE SendRaises
  BY <1>3, DirectSendRaisesKeeps
<1>4. CASE SenderSteps
  <2>1. ~Pack /\ ~FlushBegins /\ ~FlushIssues
    BY DEF Pack, FlushBegins, FlushIssues, DirectInv, DirectInOrder
  <2> QED
    BY <1>4, <2>1, SendDirectKeeps, DirectSendReturnsKeeps DEF SenderSteps
<1>5. CASE ReceiverSteps
  <2>1. ~TakeBucket
    BY DEF TakeBucket, DirectInv
  <2> QED
    BY <1>5, <2>1, TakeDirectKeeps, DirectTakenKeeps, DirectReturnsKeeps DEF ReceiverSteps
<1>6. CASE Transfer
  <2>1. Head(sNccl).op = "meta" \/ Head(sNccl).op = "raw"
    <3>1. sNccl # <<>>
      BY <1>6 DEF Transfer
    <3> QED
      BY <3>1, DirectParts DEF HeadOp
  <2> QED
    BY <1>6, <2>1, DirectHeaderKeeps, RawArrivesKeeps
<1>7. CASE SenderDefaultRuns \/ EventReached
  <2>1. ~SenderDefaultRuns
    BY DEF SenderDefaultRuns, DirectInv, DirectInOrder
  <2>2. ~EventReached
    BY DirectParts DEF EventReached, HeadOp
  <2> QED
    BY <1>7, <2>1, <2>2
<1>8. CASE ReceiverDefaultRuns
  BY <1>8, DirectLoadKeeps
<1> QED
  BY <1>1, <1>2, <1>3, <1>4, <1>5, <1>6, <1>7, <1>8 DEF Next, StreamSteps

-----------------------------------------------------------------------------
LEMMA EngineInit ==
  ASSUME Init
  PROVE  InStep
<1>1. /\ direct \in BOOLEAN /\ model = <<>> /\ sDefault = <<>> /\ sNccl = <<>> /\ rDefault = <<>>
      /\ rNccl = <<>> /\ goals = <<>> /\ loaded = <<>> /\ reported = 0 /\ faults = 0
      /\ snd = [pc |-> "idle", round |-> 0, next |-> 1, pack |-> 0, prev |-> Nil,
                meta |-> <<>>, offset |-> 0]
      /\ sMeta = [b \in Buffers |-> NoMeta] /\ rMeta = [b \in Buffers |-> NoMeta]
      /\ sData = [b \in Buffers |-> Blank] /\ rData = [b \in Buffers |-> Blank]
      /\ sendEvent = [b \in Buffers |-> [made |-> 0, reached |-> 0]]
      /\ rcv = [pc |-> "idle", buf |-> 0]
  BY DEF Init
<1>2. EngineTypeOK
  <2>1. <<>> \in Seq(Nat) /\ <<>> \in Seq(Tensors) /\ <<>> \in Seq(Weights) /\ <<>> \in Seq(Seq(Weights))
    BY EmptySeq
  <2>2. NoMeta \in Metas /\ Blank \in Bytes
    BY <2>1 DEF NoMeta, Blank, Metas, Bytes
  <2>3. snd \in [pc : SndPcs, round : Nat, next : Nat \ {0}, pack : Buffers,
                 prev : Buffers \cup {Nil}, meta : Seq(Tensors), offset : Nat]
    BY <1>1, <2>1 DEF SndPcs, Buffers
  <2>4. rcv \in [pc : RcvPcs, buf : Buffers]
    BY <1>1 DEF RcvPcs, Buffers
  <2> QED
    BY <1>1, <2>1, <2>2, <2>3, <2>4 DEF EngineTypeOK
<1>3. ~LastHere /\ ~SenderMid /\ ~RawAhead /\ Fresh = <<>> /\ Unsent = <<>> /\ Copied = <<>>
      /\ Unpacked = <<>>
  <2>1. ~HeaderSent
    BY <1>1 DEF HeaderSent, HeadOp
  <2>2. Len(model) = 0
    BY <1>1
  <2> QED
    BY <1>1, <2>1, <2>2
       DEF LastHere, HasHeader, SenderMid, RawAhead, Fresh, RawLeft, Unsent, Copied, Unpacked
<1>4. Outgoing = <<>> /\ Pending = <<>>
  <2>1. Ids(Fresh) = <<>> /\ Ids(Unsent) = <<>> /\ Ids(snd.meta) = <<>>
    BY <1>1, <1>3, IdsOfNone
  <2>2. Outgoing = SenderLine(<<>>, <<>>, <<>>) /\ Pending = Line(<<>>, <<>>, <<>>, <<>>, <<>>)
    BY <1>3, <2>1, Zenon DEF Outgoing, Pending
  <2>3. <<>> \in Seq(Weights)
    BY EmptySeq
  <2>4. SenderLine(<<>>, <<>>, <<>>) = <<>>
    BY <2>3, MoveBeginOut
  <2>5. Line(<<>>, <<>>, <<>>, <<>>, <<>>) = SenderLine(<<>>, <<>>, <<>>)
    BY <2>3, MoveEnd
  <2> QED
    BY <2>2, <2>4, <2>5
<1>5. Flow
  <2>1. <<>> \o <<>> = <<>>
    BY NoneBefore, EmptySeq
  <2> QED
    BY <1>1, <1>4, <2>1, ChosenNothing, FlattenNothing DEF Flow
<1>6. RoundsInStep
  BY <1>1, <1>3, <1>4 DEF RoundsInStep
<1>7. CopiesSafe
  BY <1>1, EmptySeq DEF CopiesSafe
<1>8. DirectInOrder
  BY <1>1, <1>3 DEF DirectInOrder
<1>9. BucketsInOrder /\ PackingSafe
  <2>1. BucketsInOrder
    <3>1. ToSend(Nil, 0) = <<>> /\ ToReceive(0, 0) = <<>> /\ Len(<<>>) = 0 /\ HeadOp(<<>>) = "nothing"
      BY SendStages, ReceiveStages, EmptySeq
    <3>2. \A b \in Buffers : SendEventIs(b, 0)
      BY <1>1 DEF SendEventIs
    <3> QED
      BY <1>1, <3>1, <3>2 DEF BucketsInOrder, HeaderSent
  <2>2. PackingSafe
    BY <1>1 DEF PackingSafe
  <2> QED
    BY <2>1, <2>2
<1> QED
  BY <1>2, <1>5, <1>6, <1>7, <1>8, <1>9 DEF InStep

LEMMA StepCases == InStep <=> (BucketInv \/ DirectInv)
BY DEF InStep, BucketInv, DirectInv, EngineTypeOK

LEMMA EngineStutters ==
  ASSUME InStep, UNCHANGED engineVars
  PROVE  InStep'
<1>1. /\ UNCHANGED <<direct, model, snd, sDefault, sNccl, sMeta, sData, sendEvent, rcv>>
      /\ UNCHANGED <<rDefault, rNccl, rMeta, rData, goals, loaded, reported, faults>>
  BY DEF engineVars
<1>2. /\ Fresh' = Fresh /\ Copied' = Copied /\ Unsent' = Unsent /\ From(1)' = From(1)
      /\ Unpacked' = Unpacked
      /\ (LastHere <=> LastHere') /\ (HeaderSent <=> HeaderSent')
  BY <1>1, ReceiverSame, SenderQueueSame, RestSame
<1>3. EngineTypeOK'
  BY <1>1 DEF InStep, EngineTypeOK
<1>4. RoundsInStep' /\ Flow'
  <2>1. SenderMid <=> SenderMid'
    BY <1>1, <1>2 DEF SenderMid
  <2> QED
    BY <1>1, <1>2, <2>1, LineStays DEF InStep
<1>5. CopiesSafe'
  BY <1>1, CopiesSame DEF InStep
<1>6. ASSUME direct' PROVE DirectInOrder'
  <2>1. RawAhead' <=> RawAhead
    BY <1>1 DEF RawAhead
  <2>2. DirectInOrder
    BY <1>1, <1>6 DEF InStep
  <2> QED
    BY <1>1, <1>2, <2>1, <2>2 DEF DirectInOrder, Written
<1>7. ASSUME ~direct' PROVE BucketsInOrder' /\ PackingSafe'
  <2>1. BucketsInOrder /\ PackingSafe
    BY <1>1, <1>7 DEF InStep
  <2>2. BucketsInOrder'
    BY <1>1, <1>2, <2>1 DEF BucketsInOrder, SendEventIs, AllWritten, Written
  <2>3. PackingSafe'
    BY <1>1, <2>1, PackingSame DEF InStep, EngineTypeOK
  <2> QED
    BY <2>2, <2>3
<1> QED
  BY <1>3, <1>4, <1>5, <1>6, <1>7 DEF InStep

-----------------------------------------------------------------------------
(***************************************************************************)
(* After a receive has raised the receiver asks for nothing more; what it  *)
(* had queued by then still goes into the model.                           *)
(***************************************************************************)
\* The bytes of the copies still queued stay where they are.
CopiesHeld ==
  /\ rDefault \in Seq(CopyOps)
  /\ \A i \in DOMAIN rDefault :
       rDefault[i].buf = rcv.buf /\ Written(rData[rcv.buf], rDefault[i].t)

\* The model has, or is about to have, the first weights of the line.
StartLoaded == \E rest \in Seq(Weights) : Makes(loaded, Copied \o rest, FlattenSeq(goals))

RecvOps(b) == [op : {"meta", "data"}, buf : {1 - b}]

BrokenOff ==
  /\ rcv.pc = "raised" /\ rcv.buf \in Buffers /\ DOMAIN rData = Buffers
  /\ "round" \in DOMAIN snd /\ snd.round \in Nat
  /\ goals \in Seq(Seq(Weights)) /\ loaded \in Seq(Weights)
  /\ StartLoaded /\ CopiesHeld
  /\ rNccl \in Seq(RecvOps(rcv.buf))

LEMMA DirectRaisesBreaks ==
  ASSUME DirectInv, DirectRaises
  PROVE  BrokenOff'
<1>1. /\ rcv.pc = "raw" /\ rNccl = <<>> /\ rcv' = [rcv EXCEPT !.pc = "raised"]
      /\ UNCHANGED <<direct, sender, rDefault, rNccl, rMeta, rData, loaded, reported>>
  BY DEF DirectRaises
<1>2. /\ rDefault = <<>> /\ rcv \in [pc : RcvPcs, buf : Buffers] /\ snd.round \in Nat
      /\ "round" \in DOMAIN snd /\ goals \in Seq(Seq(Weights)) /\ loaded \in Seq(Weights)
      /\ DOMAIN rData = Buffers
  BY <1>1 DEF DirectInv, DirectInOrder, EngineTypeOK
<1>3. rcv'.pc = "raised" /\ rcv'.buf \in Buffers
  BY <1>1, <1>2
<1>4. CopiesHeld' /\ rNccl' \in Seq(RecvOps(rcv'.buf))
  BY <1>1, <1>2, EmptySeq DEF CopiesHeld
<1>5. StartLoaded'
  <2>1. PICK c, u, l : c = Copied' /\ u = Ids(Fresh) /\ l = Pending
    OBVIOUS
  <2>2. Copied = <<>> /\ c = <<>>
    BY <1>1, <1>2, <2>1 DEF Copied
  <2>3. l \in Seq(Weights)
    <3>1. PICK f, w, p, q : f = Ids(Fresh) /\ w = Ids(Unsent) /\ p = Ids(snd.meta) /\ q = Unpacked
      OBVIOUS
    <3>2. f \in Seq(Weights) /\ w \in Seq(Weights) /\ p \in Seq(Weights) /\ q \in Seq(Weights)
      BY <3>1, DirectParts DEF PartsTyped
    <3>3. <<>> \in Seq(Weights)
      BY EmptySeq
    <3>4. l = Line(<<>>, f, w, p, q)
      BY <2>1, <2>2, <3>1, Zenon DEF Pending
    <3> QED
      BY <3>2, <3>3, <3>4, LineTyped
  <2>4. c \o l = l
    BY <2>2, <2>3, NoneBefore
  <2>5. loaded \o Chosen(l) = FlattenSeq(goals)
    BY <2>1 DEF DirectInv, Flow
  <2>6. loaded' = loaded /\ goals' = goals
    BY <1>1 DEF sender
  <2> QED
    BY <2>1, <2>3, <2>4, <2>5, <2>6 DEF StartLoaded, Makes, Chosen, Wanted
<1> QED
  BY <1>1, <1>2, <1>3, <1>4, <1>5 DEF BrokenOff, sender

LEMMA FirstOnes ==
  ASSUME NEW S, NEW s, NEW n \in Nat, \A j \in 1 .. n : s[j] \in S
  PROVE  /\ SubSeq(s, 1, n) \in Seq(S) /\ Len(SubSeq(s, 1, n)) = n
         /\ \A j \in 1 .. n : SubSeq(s, 1, n)[j] = s[j]
<1>1. n \in Int /\ 1 \in Int
  OBVIOUS
<1>2. /\ SubSeq(s, 1, n) \in Seq(S)
      /\ Len(SubSeq(s, 1, n)) = IF 1 <= n THEN n - 1 + 1 ELSE 0
      /\ \A j \in 1 .. n - 1 + 1 : SubSeq(s, 1, n)[j] = s[1 + j - 1]
  BY <1>1, SubSeqProperties
<1>3. (IF 1 <= n THEN n - 1 + 1 ELSE 0) = n /\ n - 1 + 1 = n /\ \A j \in 1 .. n : 1 + j - 1 = j
  OBVIOUS
<1> QED
  BY <1>2, <1>3

\* The copies of the tensors before the one refused are queued.
LEMMA SomeCopied ==
  ASSUME EngineTypeOK, NEW b \in Buffers, NEW i \in Refused(b),
         rDefault' = SubSeq(CopiesOut(b), 1, i - 1), rData' = rData, rcv'.buf = b,
         AllWritten(rData[b], rMeta[b].tensors)
  PROVE  /\ CopiesHeld' /\ Copied' \in Seq(Weights)
         /\ \E rest \in Seq(Weights) : Ids(rMeta[b].tensors) = Copied' \o rest
<1>1. PICK ts, ops : ts = rMeta[b].tensors /\ ops = CopiesOut(b)
  OBVIOUS
<1>2. /\ ts \in Seq(Tensors) /\ DOMAIN ts = 1 .. Len(ts) /\ Len(ts) \in Nat
      /\ \A j \in 1 .. Len(ts) : ts[j] \in Tensors
  <2>1. ts \in Seq(Tensors)
    BY <1>1 DEF EngineTypeOK, Metas
  <2> QED
    BY <2>1, LenProperties, ElementOfSeq
<1>3. i \in 1 .. Len(ts) /\ i \in Int
  BY <1>1, <1>2 DEF Refused
<1>4. \A j \in 1 .. Len(ts) : ops[j] = CopyOut(ts[j], b) /\ ops[j] \in CopyOps
  <2>1. \A j \in 1 .. Len(ts) : ops[j] = CopyOut(ts[j], b)
    BY <1>1, <1>2 DEF CopiesOut, CopyOut
  <2> QED
    BY <1>2, <2>1 DEF CopyOut, CopyOps
<1>5. /\ rDefault' \in Seq(CopyOps) /\ Len(rDefault') = i - 1
      /\ \A j \in 1 .. i - 1 : rDefault'[j] = CopyOut(ts[j], b)
  <2>1. \A j \in 1 .. i - 1 : j \in 1 .. Len(ts) /\ ops[j] \in CopyOps
    BY <1>2, <1>3, <1>4
  <2>2. i - 1 \in Nat
    BY <1>2, <1>3
  <2>3. /\ SubSeq(ops, 1, i - 1) \in Seq(CopyOps) /\ Len(SubSeq(ops, 1, i - 1)) = i - 1
        /\ \A j \in 1 .. i - 1 : SubSeq(ops, 1, i - 1)[j] = ops[j]
    BY <2>1, <2>2, FirstOnes
  <2>4. SubSeq(ops, 1, i - 1) = rDefault'
    BY <1>1
  <2> QED
    BY <1>4, <2>1, <2>3, <2>4
<1>6. DOMAIN rDefault' = 1 .. i - 1 /\ \A j \in 1 .. i - 1 : j \in DOMAIN ts
  BY <1>2, <1>3, <1>5, LenProperties
<1>7. CopiesHeld'
  <2>1. \A j \in 1 .. i - 1 : Written(rData[b], ts[j])
    BY <1>1, <1>6 DEF AllWritten
  <2>2. \A u : Written(rData[b], u)' <=> Written(rData[b], u)
    BY DEF Written
  <2>3. \A j \in 1 .. i - 1 : rDefault'[j].buf = b /\ rDefault'[j].t = ts[j]
    <3>1. \A u : CopyOut(u, b).buf = b /\ CopyOut(u, b).t = u
      BY DEF CopyOut
    <3> QED
      BY <1>5, <3>1
  <2> QED
    BY <1>5, <1>6, <2>1, <2>2, <2>3 DEF CopiesHeld, CopyOps
<1>8. PICK ids : ids = Ids(ts)
  OBVIOUS
<1>9. ids \in Seq(Weights) /\ Len(ids) = Len(ts) /\ \A j \in 1 .. Len(ts) : ids[j] = ts[j].w
  BY <1>2, <1>8, IdsTyped DEF Ids
<1>10. PICK front, rest : front = SubSeq(ids, 1, i - 1) /\ rest = SubSeq(ids, i, Len(ids))
  OBVIOUS
<1>11. /\ front \in Seq(Weights) /\ rest \in Seq(Weights) /\ Len(front) = i - 1
       /\ \A j \in 1 .. i - 1 : front[j] = ts[j].w
  <2>1. \A j \in 1 .. i - 1 : j \in 1 .. Len(ts)
    BY <1>2, <1>3
  <2>2. \A j \in 1 .. i - 1 : ids[j] \in Weights
    BY <1>9, <2>1, ElementOfSeq
  <2>3. /\ front \in Seq(Weights) /\ Len(front) = i - 1
        /\ \A j \in 1 .. i - 1 : front[j] = ids[j]
    <3>1. i - 1 \in Nat
      BY <1>2, <1>3
    <3> QED
      BY <1>10, <2>2, <3>1, FirstOnes
  <2>4. rest \in Seq(Weights)
    <3>1. \A j \in i .. Len(ids) : ids[j] \in Weights
      <4>1. \A j \in i .. Len(ids) : j \in 1 .. Len(ids)
        BY <1>2, <1>3, <1>9
      <4> QED
        BY <1>9, <4>1, ElementOfSeq
    <3>2. i \in Int /\ Len(ids) \in Int
      BY <1>2, <1>3, <1>9
    <3> QED
      BY <1>10, <3>1, <3>2, SubSeqProperties
  <2> QED
    BY <1>9, <2>1, <2>3, <2>4
<1>12. ids = front \o rest
  <2>1. SubSeq(ids, 1, Len(ids)) = ids
    BY <1>9, SubSeqFull
  <2>2. /\ 1 \in 1 .. Len(ids) + 1 /\ i - 1 \in 1 - 1 .. Len(ids) /\ Len(ids) \in i - 1 .. Len(ids)
        /\ i - 1 + 1 = i
    BY <1>2, <1>3, <1>9
  <2>3. SubSeq(ids, 1, i - 1) \o SubSeq(ids, i - 1 + 1, Len(ids)) = SubSeq(ids, 1, Len(ids))
    BY <1>9, <2>2, ConcatAdjacentSubSeq
  <2> QED
    BY <1>10, <2>1, <2>2, <2>3
<1>13. Copied' = front
  <2>1. Copied' = [j \in 1 .. i - 1 |-> rDefault'[j].t.w]
    BY <1>6 DEF Copied
  <2>2. \A j \in 1 .. i - 1 : rDefault'[j].t.w = front[j]
    <3>1. \A u : CopyOut(u, b).t = u
      BY DEF CopyOut
    <3>2. \A j \in 1 .. i - 1 : rDefault'[j].t = ts[j]
      BY <1>5, <3>1
    <3> QED
      BY <1>11, <3>2
  <2>3. front = [j \in 1 .. i - 1 |-> front[j]]
    BY <1>11
  <2> QED
    BY <2>1, <2>2, <2>3
<1> QED
  BY <1>1, <1>7, <1>8, <1>11, <1>12, <1>13

LEMMA LoadRaisesBreaks ==
  ASSUME BucketInv, LoadRaises
  PROVE  BrokenOff'
<1>1. PICK b : b = rcv.buf
  OBVIOUS
<1>2. /\ rcv.pc = "wait" /\ rNccl = <<>> /\ rDefault = <<>>
      /\ rNccl' = IF rMeta[b].last THEN <<>> ELSE RecvPair(1 - b)
      /\ rcv' = [rcv EXCEPT !.pc = "raised"]
      /\ UNCHANGED <<direct, sender, rMeta, rData, loaded, reported>>
  BY <1>1 DEF LoadRaises, Drained
<1>3. PICK i \in Refused(b) : rDefault' = SubSeq(CopiesOut(b), 1, i - 1)
  BY <1>1 DEF LoadRaises
<1>4. /\ b \in Buffers /\ rcv \in [pc : RcvPcs, buf : Buffers] /\ snd.round \in Nat
      /\ "round" \in DOMAIN snd /\ goals \in Seq(Seq(Weights)) /\ loaded \in Seq(Weights)
      /\ DOMAIN rData = Buffers
  BY <1>1 DEF BucketInv, EngineTypeOK
<1>5. rcv'.pc = "raised" /\ rcv'.buf = b
  BY <1>1, <1>2, <1>4
<1>6. AllWritten(rData[b], rMeta[b].tensors)
  BY <1>1, <1>2 DEF BucketInv, BucketsInOrder
<1>7. /\ CopiesHeld' /\ Copied' \in Seq(Weights)
      /\ \E rest \in Seq(Weights) : Ids(rMeta[b].tensors) = Copied' \o rest
  BY <1>2, <1>3, <1>4, <1>5, <1>6, SomeCopied DEF BucketInv
<1>8. rNccl' \in Seq(RecvOps(b))
  <2>1. \A o \in {"meta", "data"} : [op |-> o, buf |-> 1 - b] \in RecvOps(b)
    BY DEF RecvOps
  <2>2. RecvPair(1 - b) \in Seq(RecvOps(b)) /\ <<>> \in Seq(RecvOps(b))
    BY <2>1, EmptySeq DEF RecvPair
  <2> QED
    BY <1>2, <2>2
<1>9. StartLoaded'
  <2>1. PICK c, f, u, p, q : c = Copied' /\ f = Ids(Fresh) /\ u = Ids(Unsent) /\ p = Ids(snd.meta)
                             /\ q = Unpacked
    OBVIOUS
  <2>2. HasHeader /\ Fresh = rMeta[b].tensors
    <3>1. HasHeader
      BY <1>2 DEF HasHeader, HeadOp
    <3> QED
      BY <1>1, <3>1 DEF Fresh
  <2>3. /\ f \in Seq(Weights) /\ u \in Seq(Weights) /\ p \in Seq(Weights) /\ q \in Seq(Weights)
        /\ c \in Seq(Weights)
    BY <1>7, <2>1, BucketParts DEF PartsTyped
  <2>4. PICK rest \in Seq(Weights) : f = c \o rest
    BY <1>7, <2>1, <2>2, Zenon
  <2>5. PICK tail : tail = SenderLine(u, p, q)
    OBVIOUS
  <2>6. tail \in Seq(Weights)
    BY <2>3, <2>5, Joined DEF SenderLine
  <2>7. PICK l : l = Pending
    OBVIOUS
  <2>8. l = c \o (rest \o tail) /\ rest \o tail \in Seq(Weights)
    <3>1. Copied = <<>>
      BY <1>2 DEF Copied
    <3>2. l = <<>> \o (f \o tail)
      BY <2>1, <2>5, <2>7, <3>1, Zenon DEF Pending, Line
    <3>3. f \o tail \in Seq(Weights) /\ rest \o tail \in Seq(Weights)
      BY <2>3, <2>6, Joined
    <3>4. <<>> \o (f \o tail) = f \o tail
      BY <3>3, NoneBefore
    <3>5. Associates(c, rest, tail)
      BY <2>3, <2>6, Association
    <3> QED
      BY <2>4, <3>2, <3>3, <3>4, <3>5 DEF Associates
  <2>9. loaded \o Chosen(l) = FlattenSeq(goals)
    BY <2>7 DEF BucketInv, Flow
  <2>10. loaded' = loaded /\ goals' = goals
    BY <1>2 DEF sender
  <2>11. PICK more \in Seq(Weights) : more = rest \o tail
    BY <2>8
  <2>12. loaded' \o Chosen(Copied' \o more) = FlattenSeq(goals')
    BY <2>1, <2>8, <2>9, <2>10, <2>11, Zenon
  <2> QED
    BY <2>12 DEF StartLoaded, Makes, Chosen, Wanted
<1> QED
  BY <1>2, <1>4, <1>5, <1>7, <1>8, <1>9 DEF BrokenOff, sender

\* What changes nothing the receiver still uses keeps the rest as it is.
LEMMA BrokenSame ==
  ASSUME BrokenOff, UNCHANGED <<rcv, rDefault, loaded, goals>>, rData'[rcv.buf] = rData[rcv.buf],
         DOMAIN rData' = DOMAIN rData, rNccl' \in Seq(RecvOps(rcv.buf)), "round" \in DOMAIN snd', snd'.round = snd.round
  PROVE  BrokenOff'
<1>1. Copied' = Copied
  BY DEF Copied
<1>2. StartLoaded'
  BY <1>1 DEF BrokenOff, StartLoaded, Makes, Chosen, Wanted
<1>3. CopiesHeld'
  BY DEF BrokenOff, CopiesHeld, Written
<1> QED
  BY <1>2, <1>3 DEF BrokenOff

LEMMA BrokenSender ==
  ASSUME BrokenOff,
         SendRaises \/ SenderSteps \/ SenderDefaultRuns \/ EventReached
  PROVE  BrokenOff'
<1>1. "round" \in DOMAIN snd /\ rNccl \in Seq(RecvOps(rcv.buf))
  BY DEF BrokenOff
<1>2. UNCHANGED <<rcv, rDefault, rNccl, rData, loaded, goals>>
  BY DEF SendRaises, SenderSteps, SenderDefaultRuns, EventReached, Pack, FlushBegins, FlushIssues,
         SendDirect, SendReturns, receiver
<1>3. \/ snd' = snd
      \/ \E pc : snd' = [snd EXCEPT !.pc = pc]
      \/ \E next, pc : snd' = [snd EXCEPT !.next = next, !.pc = pc]
      \/ \E next, offset, meta : snd' = [snd EXCEPT !.next = next, !.offset = offset, !.meta = meta]
      \/ \E pc, prev, pack : snd' = [snd EXCEPT !.pc = pc, !.prev = prev, !.pack = pack,
                                                !.meta = <<>>, !.offset = 0]
  <2>1. CASE SendRaises \/ SenderDefaultRuns \/ EventReached
    BY <2>1 DEF SendRaises, SenderDefaultRuns, EventReached
  <2>2. CASE Pack
    BY <2>2 DEF Pack
  <2>3. CASE FlushBegins \/ SendReturns
    BY <2>3 DEF FlushBegins, SendReturns
  <2>4. CASE FlushIssues
    BY <2>4 DEF FlushIssues
  <2>5. CASE SendDirect
    BY <2>5 DEF SendDirect
  <2> QED
    BY <2>1, <2>2, <2>3, <2>4, <2>5 DEF SenderSteps
<1>4. "round" \in DOMAIN snd' /\ snd'.round = snd.round
  BY <1>1, <1>3
<1> QED
  BY <1>1, <1>2, <1>4, BrokenSame

\* A header or a bucket the receiver had asked for arrives in the other buffer.
LEMMA BrokenTransfer ==
  ASSUME BrokenOff, Transfer
  PROVE  BrokenOff' /\ loaded' = loaded
<1>1. /\ rNccl # <<>> /\ rNccl' = Tail(rNccl) /\ Head(sNccl).op = Head(rNccl).op
      /\ UNCHANGED <<snd, goals, rcv, rDefault>>
  BY DEF Transfer
<1>2. rNccl \in Seq(RecvOps(rcv.buf)) /\ rcv.buf \in Buffers /\ "round" \in DOMAIN snd
  BY DEF BrokenOff
<1>3. /\ Head(rNccl).op \in {"meta", "data"} /\ Head(rNccl).buf = 1 - rcv.buf
      /\ rNccl' \in Seq(RecvOps(rcv.buf))
  <2>1. Head(rNccl) \in RecvOps(rcv.buf) /\ Tail(rNccl) \in Seq(RecvOps(rcv.buf))
    BY <1>1, <1>2, HeadTailProperties
  <2> QED
    BY <1>1, <2>1 DEF RecvOps
<1>4. 1 - rcv.buf # rcv.buf
  BY <1>2 DEF Buffers
<1>5. loaded' = loaded /\ rData'[rcv.buf] = rData[rcv.buf] /\ DOMAIN rData' = DOMAIN rData
  <2>1. Head(sNccl).op # "raw"
    BY <1>1, <1>3
  <2>2. \/ rData' = rData
        \/ rData' = [rData EXCEPT ![Head(rNccl).buf] = sData[Head(sNccl).buf]]
    BY <2>1 DEF Transfer
  <2>3. loaded' = loaded
    BY <2>1 DEF Transfer
  <2>4. PICK d, k, x : d = Head(rNccl).buf /\ k = rcv.buf /\ x = sData[Head(sNccl).buf]
    OBVIOUS
  <2>5. d # k
    BY <1>3, <1>4, <2>4
  <2>6. rData' = rData \/ rData' = [rData EXCEPT ![d] = x]
    BY <2>2, <2>4
  <2>7. k \in DOMAIN rData
    BY <1>2, <2>4 DEF BrokenOff
  <2>8. rData'[k] = rData[k] /\ DOMAIN rData' = DOMAIN rData
    BY <2>5, <2>6, <2>7
  <2> QED
    BY <2>3, <2>4, <2>8
<1> QED
  BY <1>1, <1>2, <1>3, <1>5, BrokenSame

\* A copy queued before goes into the model.
LEMMA BrokenLoad ==
  ASSUME BrokenOff, ReceiverDefaultRuns
  PROVE  BrokenOff' /\ (loaded' = loaded \/ Arrives)
<1>1. /\ rDefault # <<>> /\ rDefault' = Tail(rDefault)
      /\ UNCHANGED <<snd, goals, rcv, rNccl, rData>>
  BY DEF ReceiverDefaultRuns, sender
<1>2. rDefault \in Seq(CopyOps) /\ loaded \in Seq(Weights)
  BY DEF BrokenOff, CopiesHeld
<1>3. /\ Len(rDefault) \in Nat \ {0} /\ DOMAIN rDefault = 1 .. Len(rDefault)
      /\ rDefault' \in Seq(CopyOps) /\ Len(rDefault') = Len(rDefault) - 1
      /\ DOMAIN rDefault' = 1 .. Len(rDefault')
      /\ Head(rDefault) = rDefault[1]
      /\ \A i \in 1 .. Len(rDefault') : rDefault'[i] = rDefault[i + 1]
  BY <1>1, <1>2, EmptySeq
<1>4. PICK t : t = Head(rDefault).t
  OBVIOUS
<1>5. Copied = <<t.w>> \o Copied' /\ Copied' \in Seq(Weights) /\ t.w \in Weights
  BY <1>1, <1>2, <1>4, CopiedFirst
<1>6. Head(rDefault).buf = rcv.buf /\ Written(rData[rcv.buf], t)
  <2>1. 1 \in DOMAIN rDefault /\ rDefault[1].t = t /\ Head(rDefault) = rDefault[1]
    BY <1>3, <1>4
  <2>2. \A i \in DOMAIN rDefault :
          rDefault[i].buf = rcv.buf /\ Written(rData[rcv.buf], rDefault[i].t)
    BY DEF BrokenOff, CopiesHeld
  <2> QED
    BY <2>1, <2>2
<1>7. loaded' = IF Wanted(t.w) THEN Append(loaded, t.w) ELSE loaded
  <2> DEFINE bytes == {rData[rcv.buf][x] : x \in (t.at + 1 .. t.at + t.n) \cap (1 .. BucketSize)}
  <2>1. bytes \subseteq {t.w}
    BY <1>6 DEF Written
  <2>2. loaded' = IF ~Wanted(t.w) THEN loaded
                  ELSE Append(loaded, IF bytes \subseteq {t.w} THEN t.w ELSE <<Nil, bytes>>)
    BY <1>4, <1>6 DEF ReceiverDefaultRuns
  <2> HIDE DEF bytes
  <2> QED
    BY <2>1, <2>2
<1>8. PICK c, w, old, all : c = Copied' /\ w = t.w /\ old = loaded /\ all = FlattenSeq(goals)
  OBVIOUS
<1>9. PICK rest \in Seq(Weights) : Makes(old, Copied \o rest, all)
  BY <1>8 DEF BrokenOff, StartLoaded
<1>10. PICK l : l = c \o rest
  OBVIOUS
<1>11. l \in Seq(Weights) /\ Makes(old, Then(w, l), all)
  <2>1. <<w>> \in Seq(Weights) /\ c \in Seq(Weights)
    BY <1>5, <1>8
  <2>2. Associates(<<w>>, c, rest)
    BY <2>1, Association
  <2>3. l \in Seq(Weights)
    BY <1>10, <2>1, Joined
  <2>4. Copied = <<w>> \o c
    BY <1>5, <1>8
  <2>5. Copied \o rest = Then(w, l)
    BY <1>10, <2>2, <2>4 DEF Then, Associates
  <2> QED
    BY <1>9, <2>3, <2>5
<1>12. /\ loaded' \in Seq(Weights) /\ loaded' \o Chosen(l) = all
       /\ loaded' = loaded \/ Arrives
  <2>1. old \in Seq(Weights) /\ w \in Weights
    BY <1>2, <1>5, <1>8
  <2>2. CASE Wanted(w)
    <3>1. /\ Append(old, w) \in Seq(Weights) /\ Makes(Append(old, w), l, all)
          /\ Len(old) < Len(all) /\ all[Len(old) + 1] = w
      BY <1>11, <2>1, <2>2, FirstLoaded
    <3> QED
      BY <1>7, <1>8, <2>2, <3>1 DEF Arrives, Makes
  <2>3. CASE ~Wanted(w)
    <3>1. Makes(old, l, all)
      BY <1>11, <2>1, <2>3, FirstSkipped
    <3> QED
      BY <1>7, <1>8, <2>1, <2>3, <3>1 DEF Makes
  <2> QED
    BY <2>2, <2>3
<1>13. StartLoaded'
  <2>1. loaded' \o Chosen(Copied' \o rest) = FlattenSeq(goals')
    BY <1>1, <1>8, <1>10, <1>12
  <2> QED
    BY <1>9, <2>1 DEF StartLoaded, Makes, Chosen, Wanted
<1>14. CopiesHeld'
  <2>1. \A i \in DOMAIN rDefault' : i + 1 \in DOMAIN rDefault /\ rDefault'[i] = rDefault[i + 1]
    BY <1>3
  <2>2. \A i \in DOMAIN rDefault' :
          rDefault'[i].buf = rcv.buf /\ Written(rData[rcv.buf], rDefault'[i].t)
    BY <2>1 DEF BrokenOff, CopiesHeld
  <2>3. \A d, u : Written(rData[d], u)' <=> Written(rData[d], u)
    BY <1>1 DEF Written
  <2> QED
    BY <1>1, <1>3, <2>2, <2>3 DEF CopiesHeld, CopyOps
<1> QED
  BY <1>1, <1>12, <1>13, <1>14 DEF BrokenOff

\* The trainer begins another round.
LEMMA BrokenBegins ==
  ASSUME BrokenOff, NEW m \in Models, SendBegins(m)
  PROVE  /\ BrokenOff'
         /\ \E ws \in Seq(Weights) : goals' = Append(goals, ws)
<1>1. PICK from : from = [i \in DOMAIN m |-> <<snd.round + 1, i>>]
  OBVIOUS
<1>2. /\ goals' = Append(goals, Chosen(from))
      /\ snd' = [pc |-> "pack", round |-> snd.round + 1, next |-> 1, pack |-> 0,
                 prev |-> Nil, meta |-> <<>>, offset |-> 0]
      /\ UNCHANGED <<rcv, rDefault, rNccl, rData, loaded>>
  BY <1>1 DEF SendBegins, receiver
<1>3. /\ snd.round \in Nat /\ goals \in Seq(Seq(Weights)) /\ loaded \in Seq(Weights)
      /\ rNccl \in Seq(RecvOps(rcv.buf))
  BY DEF BrokenOff
<1>4. from \in Seq(Weights)
  <2>1. m \in Seq(Nat) /\ Len(m) \in Nat /\ DOMAIN m = 1 .. Len(m)
    BY EngineConstants
  <2>2. snd.round + 1 \in Nat
    BY <1>3
  <2>3. \A i \in DOMAIN m : <<snd.round + 1, i>> \in Weights
    BY <2>1, <2>2, EngineConstants DEF Weights
  <2>4. from \in [1 .. Len(m) -> Weights]
    BY <1>1, <2>1, <2>3
  <2> QED
    BY <2>1, <2>4
<1>5. PICK ws : ws = Chosen(from)
  OBVIOUS
<1>6. ws \in Seq(Weights) /\ goals' = Append(goals, ws)
  BY <1>2, <1>4, <1>5, ChosenTyped
<1>7. goals' \in Seq(Seq(Weights)) /\ FlattenSeq(goals') = FlattenSeq(goals) \o ws
  BY <1>3, <1>6, AppendProperties, FlattenAppend
<1>8. StartLoaded'
  <2>1. PICK rest \in Seq(Weights) : Makes(loaded, Copied \o rest, FlattenSeq(goals))
    BY DEF BrokenOff, StartLoaded
  <2>2. PICK c, old, all : c = Copied /\ old = loaded /\ all = FlattenSeq(goals)
    OBVIOUS
  <2>3. c \in Seq(Weights) /\ old \in Seq(Weights) /\ Copied' = c
    BY <1>2, <1>3, <2>2, CopiedIsTyped DEF BrokenOff, CopiesHeld, Copied
  <2>4. PICK more \in Seq(Weights) : more = rest \o from
    BY <1>4, Joined
  <2>5. c \o more = (c \o rest) \o from /\ c \o rest \in Seq(Weights)
    <3>1. Associates(c, rest, from)
      BY <1>4, <2>3, Association
    <3>2. c \o rest \in Seq(Weights)
      BY <2>3, Joined
    <3> QED
      BY <2>4, <3>1, <3>2 DEF Associates
  <2>6. Chosen(c \o more) = Chosen(c \o rest) \o ws /\ Chosen(c \o rest) \in Seq(Weights)
    BY <1>4, <1>5, <2>5, ChosenConcat, ChosenTyped
  <2>7. PICK mid : mid = Chosen(c \o rest)
    OBVIOUS
  <2>8. Associates(old, mid, ws)
    BY <1>6, <2>3, <2>6, <2>7, Association
  <2>9. old \o mid = all
    BY <2>1, <2>2, <2>7 DEF Makes
  <2>10. old \o Chosen(c \o more) = all \o ws
    BY <2>6, <2>7, <2>8, <2>9 DEF Associates
  <2>11. loaded' \o Chosen(Copied' \o more) = FlattenSeq(goals')
    BY <1>2, <1>7, <2>2, <2>3, <2>10
  <2> QED
    BY <2>11 DEF StartLoaded, Makes, Chosen, Wanted
<1>9. CopiesHeld'
  BY <1>2 DEF BrokenOff, CopiesHeld, Written
<1>10. "round" \in DOMAIN snd' /\ snd'.round \in Nat
  BY <1>2, <1>3
<1> QED
  BY <1>2, <1>3, <1>6, <1>7, <1>8, <1>9, <1>10 DEF BrokenOff

LEMMA BrokenIdle ==
  ASSUME BrokenOff
  PROVE  ~ReceiveBegins /\ ~ReceiverSteps
BY DEF BrokenOff, ReceiveBegins, ReceiverSteps, TakeBucket, LoadRaises, TakeDirect, DirectTaken,
       DirectRaises, ReceiveReturns

LEMMA BrokenNext ==
  ASSUME BrokenOff, Next
  PROVE  BrokenOff'
<1>1. CASE \E m \in Models : SendBegins(m)
  BY <1>1, BrokenBegins
<1>2. CASE SendRaises \/ SenderSteps \/ SenderDefaultRuns \/ EventReached
  BY <1>2, BrokenSender
<1>3. CASE Transfer \/ ReceiverDefaultRuns
  BY <1>3, BrokenTransfer, BrokenLoad
<1> QED
  BY <1>1, <1>2, <1>3, BrokenIdle DEF Next, StreamSteps

EngineInv == InStep \/ BrokenOff

\* Nothing a round sends is lost, repeated or reordered on its way, and every byte
\* of it is where its header says, in whatever order the streams of the two sides
\* run; after a receive has raised, what had been received by then is still in order
\* and nothing overwrites it (engine.py:86-205, 264-334).
THEOREM EngineKeepsLine == Spec => []EngineInv
<1>1. Init => EngineInv
  BY EngineInit DEF EngineInv
<1>2. EngineInv /\ [Next]_engineVars => EngineInv'
  <2> SUFFICES ASSUME EngineInv, [Next]_engineVars PROVE InStep' \/ BrokenOff'
    BY DEF EngineInv
  <2>1. CASE UNCHANGED engineVars
    <3>1. CASE InStep
      BY <2>1, <3>1, EngineStutters
    <3>2. CASE BrokenOff
      <4>1. UNCHANGED <<rcv, rDefault, loaded, goals, rData, rNccl, snd>>
        BY <2>1 DEF engineVars
      <4>2. rNccl' \in Seq(RecvOps(rcv.buf)) /\ "round" \in DOMAIN snd'
        BY <3>2, <4>1 DEF BrokenOff
      <4> QED
        BY <3>2, <4>1, <4>2, BrokenSame
    <3> QED
      BY <3>1, <3>2 DEF EngineInv
  <2>2. CASE Next
    <3>1. CASE BucketInv
      <4>1. CASE LoadRaises
        BY <3>1, <4>1, LoadRaisesBreaks
      <4>2. ~DirectRaises
        BY <3>1 DEF DirectRaises, BucketInv, BucketsInOrder
      <4>3. CASE ~LoadRaises
        <5>1. BucketInv'
          BY <2>2, <3>1, <4>2, <4>3, BucketNext
        <5> QED
          BY <5>1 DEF InStep, BucketInv
      <4> QED
        BY <4>1, <4>3
    <3>2. CASE DirectInv
      <4>1. CASE DirectRaises
        BY <3>2, <4>1, DirectRaisesBreaks
      <4>2. ~LoadRaises
        BY <3>2 DEF LoadRaises, DirectInv
      <4>3. CASE ~DirectRaises
        <5>1. DirectInv'
          BY <2>2, <3>2, <4>2, <4>3, DirectNext
        <5> QED
          BY <5>1 DEF InStep, DirectInv
      <4> QED
        BY <4>1, <4>3
    <3>3. CASE BrokenOff
      BY <2>2, <3>3, BrokenNext
    <3> QED
      BY <3>1, <3>2, <3>3, StepCases DEF EngineInv
  <2> QED
    BY <2>1, <2>2
<1> QED
  BY <1>1, <1>2, PTL DEF Spec

-----------------------------------------------------------------------------
(***************************************************************************)
(* The engine implements the channel.                                      *)
(***************************************************************************)
channelVars == <<goals, loaded, reported>>

LEMMA BeginIsChannel ==
  ASSUME EngineInv, NEW m \in Models, SendBegins(m)
  PROVE  Channel!Next
<1>1. PICK ws \in Seq(Weights) : goals' = Append(goals, ws)
  <2>1. CASE InStep
    <3>1. EngineTypeOK
      BY <2>1 DEF InStep
    <3> QED
      BY <3>1, BeginsTyped DEF BeginsLine
  <2>2. CASE BrokenOff
    BY <2>2, BrokenBegins
  <2> QED
    BY <2>1, <2>2 DEF EngineInv
<1>2. goals \in Seq(Seq(Weights))
  BY DEF EngineInv, InStep, EngineTypeOK, BrokenOff
<1>3. goals' # goals /\ goals'[Len(goals')] = ws
  <2>1. Len(goals') = Len(goals) + 1 /\ goals'[Len(goals) + 1] = ws /\ Len(goals) \in Nat
    BY <1>1, <1>2, AppendProperties
  <2> QED
    BY <2>1
<1>4. UNCHANGED <<loaded, reported>>
  BY DEF SendBegins, receiver
<1> QED
  BY <1>1, <1>3, <1>4 DEF Channel!Next, Channel!Begin

LEMMA ChannelFlattens == \A s : Channel!FlattenSeq(s) = FlattenSeq(s)
BY DEF Channel!FlattenSeq, FlattenSeq

LEMMA ArrivalIsChannel ==
  ASSUME loaded' = loaded \/ Arrives, UNCHANGED <<goals, reported>>
  PROVE  Channel!Next \/ UNCHANGED channelVars
<1>1. CASE loaded' = loaded
  BY <1>1 DEF channelVars
<1>2. CASE Arrives
  BY <1>2, ChannelFlattens DEF Arrives, Channel!Next, Channel!Load
<1> QED
  BY <1>1, <1>2

LEMMA EngineParts ==
  ASSUME InStep
  PROVE  PartsTyped
BY StepCases, BucketParts, DirectParts

\* When the receiver has built its result, the rounds it then reports have arrived:
\* the sender has at most the whole of the next round.
LEMMA ReportIsChannel ==
  ASSUME InStep, ReceiveReturns
  PROVE  Channel!Next
<1>1. /\ rcv.pc = "built" /\ rDefault = <<>> /\ reported' = reported + 1
      /\ UNCHANGED <<goals, loaded>>
  BY DEF ReceiveReturns, Drained, sender
<1>2. LastHere /\ Fresh = <<>> /\ Copied = <<>>
  BY <1>1 DEF LastHere, Fresh, HasHeader, RawLeft, Copied
<1>3. /\ loaded \in Seq(Weights) /\ goals \in Seq(Seq(Weights)) /\ Len(goals) \in Nat
      /\ reported \in Nat
  BY DEF InStep, EngineTypeOK
<1>4. PICK out : out = Outgoing
  OBVIOUS
<1>5. PICK all, front : all = FlattenSeq(goals) /\ front = SubSeq(goals, 1, reported + 1)
  OBVIOUS
<1>6. loaded \o Chosen(out) = all
  <2>1. PICK u, p, r : u = Ids(Unsent) /\ p = Ids(snd.meta) /\ r = Unpacked
    OBVIOUS
  <2>2. u \in Seq(Weights) /\ p \in Seq(Weights) /\ r \in Seq(Weights)
    BY <2>1, EngineParts DEF PartsTyped
  <2>3. Pending = Line(<<>>, <<>>, u, p, r) /\ out = SenderLine(u, p, r)
    BY <1>2, <1>4, <2>1, IdsOfNone, Zenon DEF Pending, Outgoing
  <2>4. Pending = out
    BY <2>2, <2>3, MoveEnd
  <2>5. Flow
    BY DEF InStep
  <2> QED
    BY <1>5, <2>4, <2>5, Zenon DEF Flow
<1>7. Len(goals) = reported + 1 + (IF SenderMid THEN 1 ELSE 0)
  BY <1>2, <1>3 DEF InStep, RoundsInStep
<1>8. Len(loaded) >= Len(FlattenSeq(front))
  <2>1. CASE ~SenderMid
    <3>1. out = <<>>
      BY <1>4, <2>1 DEF InStep, RoundsInStep
    <3>2. loaded = all
      BY <1>3, <1>6, <3>1, ChosenNothing, NoneBefore
    <3>3. front = goals
      BY <1>3, <1>5, <1>7, <2>1, SubSeqFull
    <3>4. Len(FlattenSeq(front)) = Len(loaded)
      BY <1>5, <3>2, <3>3, Zenon
    <3>5. Len(loaded) \in Nat
      BY <1>3
    <3> QED
      BY <3>4, <3>5
  <2>2. CASE SenderMid
    <3>1. PICK last : last = Chosen(out)
      OBVIOUS
    <3>2. out = From(1) /\ goals[Len(goals)] = last
      BY <1>2, <1>4, <2>2, <3>1 DEF InStep, RoundsInStep
    <3>3. last \in Seq(Weights)
      BY <1>3, <1>7, <2>2, <3>2
    <3>4. front \in Seq(Seq(Weights)) /\ goals = Append(front, last)
      <4>1. front \in Seq(Seq(Weights)) /\ Len(front) = reported + 1
            /\ \A i \in 1 .. reported + 1 : front[i] = goals[i]
        BY <1>3, <1>5, <1>7, <2>2
      <4> QED
        BY <1>3, <1>7, <2>2, <3>2, <3>3, <4>1
    <3>5. all = FlattenSeq(front) \o last
      BY <1>5, <3>3, <3>4, FlattenAppend
    <3>6. FlattenSeq(front) \in Seq(Weights)
      BY <3>4, FlattenTyped
    <3>7. Len(loaded) + Len(last) = Len(FlattenSeq(front)) + Len(last)
      BY <1>3, <1>6, <3>1, <3>3, <3>5, <3>6, ConcatProperties
    <3> QED
      BY <1>3, <3>3, <3>6, <3>7
  <2> QED
    BY <2>1, <2>2
<1>9. reported < Len(goals)
  BY <1>3, <1>7
<1> QED
  BY <1>1, <1>5, <1>8, <1>9, ChannelFlattens DEF Channel!Next, Channel!Report

LEMMA StepIsChannel ==
  ASSUME InStep, Next
  PROVE  Channel!Next \/ UNCHANGED channelVars
<1>1. CASE \E m \in Models : SendBegins(m)
  BY <1>1, BeginIsChannel DEF EngineInv
<1>2. CASE ReceiveBegins \/ SendRaises \/ SenderSteps
  BY <1>2 DEF ReceiveBegins, SendRaises, SenderSteps, Pack, FlushBegins, FlushIssues,
              SendDirect, SendReturns, sender, receiver, channelVars
<1>3. CASE ReceiverSteps
  <2>1. CASE ReceiveReturns
    BY <2>1, ReportIsChannel
  <2>2. CASE TakeBucket \/ TakeDirect \/ DirectTaken \/ LoadRaises \/ DirectRaises
    BY <2>2 DEF TakeBucket, TakeDirect, DirectTaken, LoadRaises, DirectRaises, sender, channelVars
  <2> QED
    BY <1>3, <2>1, <2>2 DEF ReceiverSteps
<1>4. CASE SenderDefaultRuns \/ EventReached
  BY <1>4 DEF SenderDefaultRuns, EventReached, receiver, channelVars
<1>5. CASE ReceiverDefaultRuns
  <2>1. loaded' = loaded \/ Arrives
    BY <1>5, EngineParts, LoadKeeps DEF InStep
  <2>2. UNCHANGED <<goals, reported>>
    BY <1>5 DEF ReceiverDefaultRuns, sender
  <2> QED
    BY <2>1, <2>2, ArrivalIsChannel
<1>6. CASE Transfer
  <2>1. UNCHANGED <<goals, reported>>
    BY <1>6 DEF Transfer
  <2>2. CASE Head(sNccl).op # "raw"
    <3>1. loaded' = loaded
      BY <1>6, <2>2 DEF Transfer
    <3> QED
      BY <2>1, <3>1 DEF channelVars
  <2>3. CASE Head(sNccl).op = "raw"
    <3>1. DirectInv
      <4>1. ~BucketInv
        <5>1. ASSUME BucketInv PROVE FALSE
          <6>1. sNccl = ToSend(snd.prev, Len(sNccl)) /\ Len(sNccl) \in 0 .. 3 /\ sNccl # <<>>
            BY <1>6, <5>1 DEF Transfer, BucketInv, BucketsInOrder
          <6>2. HeadOp(sNccl) # "raw"
            BY <6>1, SendStages
          <6> QED
            BY <2>3, <6>1, <6>2 DEF HeadOp
        <5> QED
          BY <5>1
      <4> QED
        BY <4>1, StepCases
    <3>2. loaded' = loaded \/ Arrives
      BY <1>6, <2>3, <3>1, RawArrivesKeeps
    <3> QED
      BY <2>1, <3>2, ArrivalIsChannel
  <2> QED
    BY <2>2, <2>3
<1> QED
  BY <1>1, <1>2, <1>3, <1>4, <1>5, <1>6 DEF Next, StreamSteps

LEMMA BrokenIsChannel ==
  ASSUME BrokenOff, Next
  PROVE  Channel!Next \/ UNCHANGED channelVars
<1>1. CASE \E m \in Models : SendBegins(m)
  BY <1>1, BeginIsChannel DEF EngineInv
<1>2. CASE SendRaises \/ SenderSteps \/ SenderDefaultRuns \/ EventReached
  BY <1>2 DEF SendRaises, SenderSteps, SenderDefaultRuns, EventReached, Pack, FlushBegins,
              FlushIssues, SendDirect, SendReturns, receiver, channelVars
<1>3. CASE Transfer \/ ReceiverDefaultRuns
  <2>1. UNCHANGED <<goals, reported>>
    BY <1>3 DEF Transfer, ReceiverDefaultRuns, sender
  <2>2. loaded' = loaded \/ Arrives
    BY <1>3, BrokenTransfer, BrokenLoad
  <2> QED
    BY <2>1, <2>2, ArrivalIsChannel
<1> QED
  BY <1>1, <1>2, <1>3, BrokenIdle DEF Next, StreamSteps

\* Both protocols implement the channel for every model, bucket size and number of
\* rounds: each weight the receiver has a place for arrives once, in order and with
\* its own bytes, and a round is reported when all of it is there; a receive that
\* raises leaves a beginning of its round in the model and reports nothing
\* (engine.py:86-205, 264-334).
THEOREM EngineImplementsChannel == Spec => ImplementsChannel
<1>1. Init => Channel!Init
  BY DEF Init, Channel!Init
<1>2. EngineInv /\ [Next]_engineVars => [Channel!Next]_<<goals, loaded, reported>>
  <2> SUFFICES ASSUME EngineInv, [Next]_engineVars
               PROVE  Channel!Next \/ UNCHANGED channelVars
    BY DEF channelVars
  <2>1. CASE Next
    BY <2>1, StepIsChannel, BrokenIsChannel DEF EngineInv
  <2>2. CASE UNCHANGED engineVars
    BY <2>2 DEF engineVars, channelVars
  <2> QED
    BY <2>1, <2>2
<1> QED
  BY <1>1, <1>2, EngineKeepsLine, PTL DEF Spec, ImplementsChannel, Channel!Spec

=============================================================================
