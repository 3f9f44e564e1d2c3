---------------------------- MODULE ProofLemmas ------------------------------
(***************************************************************************)
(* What the proofs share: quotients and remainders, and induction stated   *)
(* with sets instead of predicates.                                        *)
(***************************************************************************)
EXTENDS Integers, FiniteSets, FiniteSetTheorems, WellFoundedInduction, TLAPS

LEMMA DivMod ==
  \A n \in Nat, d \in Nat \ {0} :
    n \div d \in Nat /\ n % d \in 0 .. d - 1 /\ n = (n \div d) * d + (n % d)
OBVIOUS

LEMMA TimesCommute == \A a, b \in Nat : a * b \in Nat /\ a * b = b * a
OBVIOUS

\* A quotient times its divisor does not exceed the number divided.
LEMMA DivTimes ==
  ASSUME NEW n \in Nat, NEW d \in Nat \ {0}
  PROVE  n \div d \in Nat /\ (n \div d) * d \in Nat /\ (n \div d) * d <= n
<1> DEFINE q == n \div d
           z == n % d
<1>1. q \in Nat /\ z \in 0 .. d - 1 /\ n = (q * d) + z
  BY DivMod
<1> HIDE DEF q, z
<1>2. q * d \in Nat
  BY <1>1
<1>3. q * d <= n
  BY <1>1, <1>2
<1> QED
  BY <1>1, <1>2, <1>3 DEF q

LEMMA TimesMonotonic == \A a, b, q \in Nat : a <= b => a * q <= b * q
OBVIOUS

LEMMA TimesCancel == \A a, b \in Nat, q \in Nat \ {0} : a * q < b * q => a < b
OBVIOUS

LEMMA TimesNext == \A a, q \in Nat : (a + 1) * q = a * q + q
OBVIOUS

LEMMA QuotientAtLeast ==
  ASSUME NEW n \in Nat, NEW d \in Nat \ {0}, NEW q \in Nat, q * d <= n
  PROVE  q <= n \div d
<1> DEFINE k == n \div d
           z == n % d
<1>1. k \in Nat /\ z \in 0 .. d - 1 /\ n = (k * d) + z
  BY DivMod
<1> HIDE DEF k, z
<1>2. SUFFICES ASSUME k < q PROVE FALSE
  BY <1>1 DEF k
<1>3. (k + 1) * d = k * d + d /\ k * d \in Nat /\ d \in Nat /\ k + 1 \in Nat
  BY <1>1, TimesNext
<1>4. (k + 1) * d <= q * d
  <2>1. k + 1 <= q
    BY <1>1, <1>2
  <2> QED
    BY <1>3, <2>1, TimesMonotonic
<1>5. q * d \in Nat
  BY TimesCommute
<1> QED
  BY <1>1, <1>3, <1>4, <1>5

LEMMA DivMonotonic ==
  ASSUME NEW a \in Nat, NEW b \in Nat, NEW d \in Nat \ {0}, a <= b
  PROVE  a \div d <= b \div d
<1>1. a \div d \in Nat /\ (a \div d) * d \in Nat /\ (a \div d) * d <= a
  BY DivTimes
<1>2. (a \div d) * d <= b
  BY <1>1
<1> QED
  BY <1>1, <1>2, QuotientAtLeast

LEMMA DivAntitone ==
  ASSUME NEW n \in Nat, NEW d \in Nat \ {0}, NEW e \in Nat \ {0}, d <= e
  PROVE  n \div e <= n \div d
<1> DEFINE q == n \div e
<1>1. q \in Nat /\ q * e \in Nat /\ q * e <= n
  BY DivTimes
<1> HIDE DEF q
<1>2. q * d <= q * e /\ q * d \in Nat
  BY <1>1, TimesCommute, TimesMonotonic
<1>3. q <= n \div d
  BY <1>1, <1>2, QuotientAtLeast
<1> QED
  BY <1>3 DEF q

LEMMA ModUnique ==
  ASSUME NEW n \in Nat \ {0}, NEW q \in Nat, NEW z \in 0 .. n - 1
  PROVE  (q * n + z) % n = z
<1> DEFINE x == q * n + z
           d == x \div n
           y == x % n
<1>1. q * n \in Nat
  OBVIOUS
<1>2. x \in Nat
  BY <1>1
<1>3. d \in Nat /\ y \in 0 .. n - 1 /\ x = d * n + y
  BY <1>2, DivMod
<1>4. q * n + z = d * n + y
  BY <1>3
<1> HIDE DEF x, d, y
<1>5. n \in Nat /\ d * n \in Nat /\ (d + 1) * n = d * n + n /\ (q + 1) * n = q * n + n
  BY <1>3, TimesNext
<1>6. q * n < (d + 1) * n /\ d * n < (q + 1) * n
  BY <1>1, <1>3, <1>4, <1>5
<1>7. q < d + 1 /\ d < q + 1
  BY <1>3, <1>6, TimesCancel
<1>8. q = d
  BY <1>3, <1>7
<1>9. z = y
  BY <1>1, <1>3, <1>4, <1>8
<1> QED
  BY <1>9 DEF x, y

\* A counter kept modulo a multiple of n.
LEMMA ModOfMultiple ==
  ASSUME NEW x \in Nat, NEW c \in Nat \ {0}, NEW n \in Nat \ {0}, c % n = 0
  PROVE  (x % c) % n = x % n
<1> DEFINE a == x \div c
           y == x % c
           b == c \div n
           d == y \div n
           z == y % n
<1>1. a \in Nat /\ y \in Nat /\ x = a * c + y
  BY DivMod
<1>2. b \in Nat /\ c = b * n
  BY DivMod
<1>3. d \in Nat /\ z \in 0 .. n - 1 /\ y = d * n + z
  BY <1>1, DivMod
<1> HIDE DEF a, y, b, d, z
<1>4. a * c = (a * b) * n /\ a * b \in Nat
  BY <1>1, <1>2
<1>5. x = (a * b + d) * n + z
  BY <1>1, <1>3, <1>4
<1>6. a * b + d \in Nat
  BY <1>3, <1>4
<1>7. x % n = z
  BY <1>3, <1>5, <1>6, ModUnique
<1> QED
  BY <1>7 DEF y, z

LEMMA ModNext ==
  ASSUME NEW x \in Nat, NEW n \in Nat \ {0}
  PROVE  (x + 1) % n = IF (x % n) + 1 = n THEN 0 ELSE (x % n) + 1
<1> DEFINE d == x \div n
           z == x % n
<1>1. d \in Nat /\ z \in 0 .. n - 1 /\ x = d * n + z
  BY DivMod
<1> HIDE DEF d, z
<1>2. n \in Nat /\ (d + 1) * n = d * n + n /\ d * n \in Nat
  BY <1>1, TimesNext
<1>3. CASE z + 1 = n
  <2>1. x + 1 = (d + 1) * n + 0
    BY <1>1, <1>2, <1>3
  <2>2. ((d + 1) * n + 0) % n = 0
    BY <1>1, ModUnique
  <2> QED
    BY <1>3, <2>1, <2>2 DEF z
<1>4. CASE z + 1 # n
  <2>1. x + 1 = d * n + (z + 1) /\ z + 1 \in 0 .. n - 1
    BY <1>1, <1>2, <1>4
  <2>2. (d * n + (z + 1)) % n = z + 1
    BY <1>1, <2>1, ModUnique
  <2> QED
    BY <1>4, <2>1, <2>2 DEF z
<1> QED
  BY <1>3, <1>4

-----------------------------------------------------------------------------
LEMMA LessIsWellFounded ==
  IsWellFoundedOn({p \in Nat \X Nat : p[1] < p[2]}, Nat)
<1>1. IsWellFoundedOn({ss \in Nat \X Nat : ss[1] < ss[2]}, Nat)
  BY NatLessThanWellFounded DEF OpToRel
<1> QED
  BY <1>1

\* A nonempty set of numbers has a smallest one.
LEMMA Smallest ==
  ASSUME NEW S \in SUBSET Nat, S # {}
  PROVE  \E n \in S : \A m \in S : n <= m
<1> DEFINE R == {p \in Nat \X Nat : p[1] < p[2]}
<1>1. PICK n \in S : \A m \in S : <<m, n>> \notin R
  <2> HIDE DEF R
  <2>1. IsWellFoundedOn(R, Nat)
    BY LessIsWellFounded DEF R
  <2> QED
    BY <2>1, WFMin
<1>2. \A m \in S : <<m, n>> \in R <=> m < n
  OBVIOUS
<1> HIDE DEF R
<1>3. ASSUME NEW m \in S PROVE n <= m
  <2>1. m \in Nat /\ n \in Nat
    OBVIOUS
  <2>2. ~(m < n)
    BY <1>1, <1>2, Zenon
  <2> QED
    BY <2>1, <2>2
<1> QED
  BY <1>3

LEMMA NatInductionOnSet ==
  ASSUME NEW S, 0 \in S, \A n \in Nat : n \in S => n + 1 \in S
  PROVE  Nat \subseteq S
<1> SUFFICES ASSUME ~(Nat \subseteq S) PROVE FALSE
  OBVIOUS
<1>1. PICK n \in Nat \ S : \A m \in Nat \ S : n <= m
  BY Smallest
<1>2. n - 1 \in Nat /\ n - 1 \in S
  BY <1>1
<1> QED
  BY <1>1, <1>2

\* The same over a stretch of numbers.
LEMMA UpToInduction ==
  ASSUME NEW N \in Nat, NEW S, 0 \in S, \A n \in 0 .. N - 1 : n \in S => n + 1 \in S
  PROVE  0 .. N \subseteq S
<1> DEFINE T == {n \in Nat : n <= N => n \in S}
<1>1. 0 \in T
  OBVIOUS
<1>2. \A n \in Nat : n \in T => n + 1 \in T
  OBVIOUS
<1>3. Nat \subseteq T
  <2> HIDE DEF T
  <2> QED
    BY <1>1, <1>2, NatInductionOnSet
<1> QED
  BY <1>3

\* Over a finite set, one element at a time.
LEMMA FiniteInduction ==
  ASSUME NEW T, IsFiniteSet(T), NEW S, {} \in S,
         \A A \in SUBSET T : \A x \in T \ A : A \in S => A \cup {x} \in S
  PROVE  T \in S
<1> DEFINE G == {n \in Nat : \A A \in SUBSET T : Cardinality(A) = n => A \in S}
<1>1. \A A \in SUBSET T : IsFiniteSet(A) /\ Cardinality(A) \in Nat
  BY FS_Subset, FS_CardinalityType
<1>2. 0 \in G
  BY <1>1, FS_EmptySet
<1>3. ASSUME NEW n \in Nat, n \in G PROVE n + 1 \in G
  <2> SUFFICES ASSUME NEW A \in SUBSET T, Cardinality(A) = n + 1 PROVE A \in S
    OBVIOUS
  <2>0. n + 1 # 0
    OBVIOUS
  <2>1. A # {}
    BY <2>0, FS_EmptySet
  <2>2. PICK x : x \in A
    BY <2>1
  <2>3. Cardinality(A \ {x}) = n
    <3>1. IsFiniteSet(A)
      BY <1>1
    <3>2. Cardinality(A \ {x}) = Cardinality(A) - 1
      BY <2>2, <3>1, FS_RemoveElement
    <3> QED
      BY <3>2
  <2>4. A \ {x} \in S
    BY <1>3, <2>3
  <2>5. A = (A \ {x}) \cup {x}
    BY <2>2
  <2>6. (A \ {x}) \cup {x} \in S
    <3>1. A \ {x} \in SUBSET T /\ x \in T \ (A \ {x})
      BY <2>2
    <3> QED
      BY <2>4, <3>1
  <2> QED
    BY <2>5, <2>6
<1>4. Nat \subseteq G
  <2> HIDE DEF G
  <2> QED
    BY <1>2, <1>3, NatInductionOnSet
<1> QED
  BY <1>1, <1>4

=============================================================================
