-------------------------- MODULE Programs_proofs --------------------------
(***************************************************************************)
(* Mean value analysis never computes a server that is more than fully     *)
(* used, for every number of users and every demand and think time.  The   *)
(* utilisation with n + 1 users needs the queue with n of them to be long  *)
(* enough: at least n less the users whose thinking the server can cover.  *)
(* The throughput it computes is the one of the product form.              *)
(*                                                                         *)
(* A program that runs does what its command line tells it, and only if    *)
(* that is sound, for command lines of any length.                         *)
(***************************************************************************)
EXTENDS ProgramsProperties, SequenceTheorems, Counting_proofs

MvaTypeOK ==
  /\ S_ms \in Nat \ {0} /\ Z_ms \in Nat /\ n \in Nat
  /\ Q_prev \in [num : Nat, den : Nat \ {0}] /\ X \in [num : Nat, den : Nat \ {0}]

\* Q_prev >= n - Z_ms / S_ms
QueueLongEnough == S_ms * Q_prev.num + Z_ms * Q_prev.den >= n * (S_ms * Q_prev.den)

MvaInv == MvaTypeOK /\ QueueLongEnough /\ UtilizationAtMostOne

LEMMA NatArithmetic ==
  /\ \A a, b \in Nat : a + b \in Nat /\ a * b \in Nat
  /\ \A a, b \in Nat \ {0} : a * b \in Nat \ {0}
  /\ \A a \in Nat, b \in Nat \ {0} : a + b \in Nat \ {0}
  OBVIOUS

LEMMA DemandPositive ==
  ASSUME NEW s \in Nat \ {0}, NEW o \in Nat, NEW q \in Nat \ {0}, NEW u \in BOOLEAN
  PROVE  Demand(s, o, q, u) \in Nat \ {0}
<1>1. s * q \in Nat \ {0} /\ s * o \in Nat /\ s + o \in Nat \ {0}
  BY NatArithmetic
<1>2. (s + o) * q \in Nat \ {0} /\ s * q + s * o \in Nat \ {0}
  BY <1>1, NatArithmetic
<1> QED
  BY <1>2 DEF Demand

LEMMA MvaStarts == Init => MvaInv
<1> SUFFICES ASSUME Init PROVE MvaInv
  OBVIOUS
<1>1. S_ms \in Nat \ {0} /\ Z_ms \in Nat
  <2>1. CASE S_ms = 1 /\ Z_ms = 0
    BY <2>1
  <2>2. CASE Parsed
    <3>1. PICK s \in SERVICES, o \in OVERHEADS, q \in QUANTA, u \in BOOLEAN, t \in THINKS :
            S_ms = Demand(s, o, q, u) /\ Z_ms = t * q
      BY <2>2 DEF Parsed
    <3>2. s \in Nat \ {0} /\ o \in Nat /\ q \in Nat \ {0} /\ t \in Nat
      BY MvaAssumption
    <3> QED
      BY <3>1, <3>2, DemandPositive, NatArithmetic
  <2> QED
    BY <2>1, <2>2 DEF Init, MvaInit
<1>2. n = 0 /\ Q_prev = [num |-> 0, den |-> 1] /\ X = [num |-> 0, den |-> 1]
  BY DEF Init, NothingComputed, Fraction
<1> QED
  BY <1>1, <1>2 DEF MvaInv, MvaTypeOK, QueueLongEnough, UtilizationAtMostOne

\* The arithmetic of one turn, with a and b for the queue's numerator and
\* denominator, s and z for the demand and the delay.
LEMMA QueueStep ==
  ASSUME NEW s \in Nat, NEW z \in Nat, NEW k \in Nat, NEW a \in Nat, NEW b \in Nat,
         s * a + z * b >= k * (s * b)
  PROVE  /\ s * ((k + 1) * b) <= z * b + s * (a + b)
         /\ s * ((k + 1) * (s * (a + b))) + z * (z * b + s * (a + b))
              >= (k + 1) * (s * (z * b + s * (a + b)))
<1> DEFINE r == s * (a + b)
           d == z * b + r
<1>1. r \in Nat /\ d \in Nat /\ s * a \in Nat /\ s * b \in Nat /\ z * b \in Nat
  BY NatArithmetic
<1>2. r = s * a + s * b
  OBVIOUS
<1>3. (k + 1) * (s * b) <= d
  <2>1. (k + 1) * (s * b) = k * (s * b) + s * b
    BY <1>1
  <2> QED
    BY <1>1, <1>2, <2>1
<1>4. s * ((k + 1) * b) = (k + 1) * (s * b)
  OBVIOUS
<1>5. s * ((k + 1) * r) + z * d >= (k + 1) * (s * d)
  <2>1. (k + 1) * (s * d) = s * ((k + 1) * r) + z * ((k + 1) * (s * b))
    OBVIOUS
  <2>2. z * ((k + 1) * (s * b)) <= z * d
    <3>1. (k + 1) * (s * b) \in Nat
      BY <1>1, NatArithmetic
    <3>2. \A x, y, m \in Nat : x <= y => m * x <= m * y
      OBVIOUS
    <3> QED
      BY <1>1, <1>3, <3>1, <3>2
  <2>3. s * ((k + 1) * r) \in Nat /\ z * ((k + 1) * (s * b)) \in Nat /\ z * d \in Nat
    BY <1>1, NatArithmetic
  <2> QED
    BY <2>1, <2>2, <2>3
<1> QED
  BY <1>3, <1>4, <1>5

LEMMA MvaSteps == MvaInv /\ [Next]_vars => MvaInv'
<1> SUFFICES ASSUME MvaInv, [Next]_vars PROVE MvaInv'
  OBVIOUS
<1>1. CASE UNCHANGED mva
  BY <1>1 DEF mva, MvaInv, MvaTypeOK, QueueLongEnough, UtilizationAtMostOne
<1>2. CASE NextUser
  <2> DEFINE a == Q_prev.num
             b == Q_prev.den
             r == S_ms * (a + b)
             d == Z_ms * b + r
  <2>1. /\ S_ms' = S_ms /\ Z_ms' = Z_ms /\ n' = n + 1
        /\ X' = [num |-> (n + 1) * b, den |-> d]
        /\ Q_prev' = [num |-> (n + 1) * r, den |-> d]
    BY <1>2 DEF NextUser, Fraction
  <2>2. a \in Nat /\ b \in Nat \ {0} /\ S_ms \in Nat \ {0} /\ Z_ms \in Nat /\ n \in Nat
    BY DEF MvaInv, MvaTypeOK
  <2>3. r \in Nat \ {0} /\ Z_ms * b \in Nat
    BY <2>2, NatArithmetic
  <2>4. d \in Nat \ {0} /\ n + 1 \in Nat /\ (n + 1) * b \in Nat /\ (n + 1) * r \in Nat
    BY <2>2, <2>3, NatArithmetic
  <2>5. S_ms * a + Z_ms * b >= n * (S_ms * b)
    BY DEF MvaInv, QueueLongEnough
  <2>6. /\ S_ms * ((n + 1) * b) <= d
        /\ S_ms * ((n + 1) * r) + Z_ms * d >= (n + 1) * (S_ms * d)
    BY <2>2, <2>5, QueueStep
  <2> HIDE DEF a, b, r, d
  <2>7. MvaTypeOK'
    BY <2>1, <2>2, <2>4 DEF MvaTypeOK
  <2>8. QueueLongEnough' /\ UtilizationAtMostOne'
    BY <2>1, <2>6 DEF QueueLongEnough, UtilizationAtMostOne
  <2> QED
    BY <2>7, <2>8 DEF MvaInv
<1> QED
  BY <1>1, <1>2 DEF Next, vars

\* Mean value analysis never reports a utilisation above one (run_mva).
THEOREM UtilizationIsBounded == Spec => []UtilizationAtMostOne
<1>1. MvaInv => UtilizationAtMostOne
  BY DEF MvaInv
<1> QED
  BY <1>1, MvaStarts, MvaSteps, PTL DEF Spec

-----------------------------------------------------------------------------
(* The product form. *)

\* The recursive functions of the product form go on as they say.
LEMMA FactorialGoesOn ==
  /\ factorial[0] = 1
  /\ \A i \in Nat : factorial[i] \in Nat \ {0} /\ factorial[i + 1] = (i + 1) * factorial[i]
<1> DEFINE h == [p \in Nat \X Nat |-> p[1] * p[2]]
           Facts(f) == f = [n_ \in Nat |-> IF n_ = 0 THEN 1 ELSE n_ * f[n_ - 1]]
<1>1. PICK f \in [Nat -> Nat] : f[0] = 1 /\ \A i \in Nat : f[i + 1] = h[<<i + 1, f[i]>>]
  <2>1. h \in [Nat \X Nat -> Nat]
    OBVIOUS
  <2> HIDE DEF h
  <2>2. 1 \in Nat
    OBVIOUS
  <2> QED
    BY <2>1, <2>2, Recursion, Zenon
<1>2. Facts(f)
  <2>1. ASSUME NEW i \in Nat PROVE f[i] = IF i = 0 THEN 1 ELSE i * f[i - 1]
    <3>1. CASE i # 0
      <4>1. i - 1 \in Nat /\ (i - 1) + 1 = i
        BY <3>1
      <4>2. f[i - 1] \in Nat
        BY <4>1
      <4>3. f[i] = h[<<i, f[i - 1]>>]
        BY <1>1, <4>1
      <4> QED
        BY <3>1, <4>2, <4>3
    <3> QED
      BY <1>1, <3>1
  <2>2. f = [i \in Nat |-> f[i]]
    OBVIOUS
  <2> QED
    BY <2>1, <2>2
<1>3. Facts(factorial)
  <2>1. factorial = CHOOSE g : Facts(g)
    BY Zenon DEF factorial
  <2> HIDE DEF Facts
  <2> QED
    BY <1>2, <2>1
<1>4. factorial[0] = 1 /\ \A i \in Nat : factorial[i + 1] = (i + 1) * factorial[i]
  <2>1. \A i \in Nat : factorial[i] = IF i = 0 THEN 1 ELSE i * factorial[i - 1]
    BY <1>3
  <2>2. ASSUME NEW i \in Nat PROVE factorial[i + 1] = (i + 1) * factorial[i]
    <3>1. i + 1 \in Nat /\ i + 1 # 0 /\ (i + 1) - 1 = i
      OBVIOUS
    <3> QED
      BY <2>1, <3>1
  <2> QED
    BY <2>1, <2>2
<1> DEFINE T == {i \in Nat : factorial[i] \in Nat \ {0}}
<1>5. 0 \in T
  BY <1>4
<1>6. ASSUME NEW i \in Nat, i \in T PROVE i + 1 \in T
  <2>1. i + 1 \in Nat \ {0} /\ factorial[i] \in Nat \ {0}
    BY <1>6
  <2>2. (i + 1) * factorial[i] \in Nat \ {0}
    BY <2>1, NatArithmetic
  <2> QED
    BY <1>4, <2>2
<1> HIDE DEF T
<1>7. \A i \in Nat : i \in T
  BY <1>5, <1>6, Induction
<1> QED
  BY <1>4, <1>7 DEF T

LEMMA PowersGoOn ==
  ASSUME NEW b \in Nat
  PROVE  /\ Powers(b)[0] = 1
         /\ \A i \in Nat : Powers(b)[i] \in Nat /\ Powers(b)[i + 1] = b * Powers(b)[i]
<1> DEFINE h == [p \in Nat \X Nat |-> b * p[2]]
           Power(f) == f = [e \in Nat |-> IF e = 0 THEN 1 ELSE b * f[e - 1]]
<1>1. PICK f \in [Nat -> Nat] : f[0] = 1 /\ \A i \in Nat : f[i + 1] = h[<<i + 1, f[i]>>]
  <2>1. h \in [Nat \X Nat -> Nat]
    OBVIOUS
  <2> HIDE DEF h
  <2>2. 1 \in Nat
    OBVIOUS
  <2> QED
    BY <2>1, <2>2, Recursion, Zenon
<1>2. Power(f)
  <2>1. ASSUME NEW i \in Nat PROVE f[i] = IF i = 0 THEN 1 ELSE b * f[i - 1]
    <3>1. CASE i # 0
      <4>1. i - 1 \in Nat /\ (i - 1) + 1 = i
        BY <3>1
      <4>2. f[i - 1] \in Nat
        BY <4>1
      <4>3. f[i] = h[<<i, f[i - 1]>>]
        BY <1>1, <4>1
      <4> QED
        BY <3>1, <4>2, <4>3
    <3> QED
      BY <1>1, <3>1
  <2>2. f = [i \in Nat |-> f[i]]
    OBVIOUS
  <2> QED
    BY <2>1, <2>2
<1>3. Power(Powers(b))
  <2>1. Powers(b) = CHOOSE g : Power(g)
    BY Zenon DEF Powers
  <2> HIDE DEF Power
  <2> QED
    BY <1>2, <2>1
<1>4. Powers(b)[0] = 1 /\ \A i \in Nat : Powers(b)[i + 1] = b * Powers(b)[i]
  <2>1. \A i \in Nat : Powers(b)[i] = IF i = 0 THEN 1 ELSE b * Powers(b)[i - 1]
    BY <1>3
  <2>2. ASSUME NEW i \in Nat PROVE Powers(b)[i + 1] = b * Powers(b)[i]
    <3>1. i + 1 \in Nat /\ i + 1 # 0 /\ (i + 1) - 1 = i
      OBVIOUS
    <3> QED
      BY <2>1, <3>1
  <2> QED
    BY <2>1, <2>2
<1> DEFINE T == {i \in Nat : Powers(b)[i] \in Nat}
<1>5. 0 \in T
  BY <1>4
<1>6. ASSUME NEW i \in Nat, i \in T PROVE i + 1 \in T
  BY <1>4, <1>6, NatArithmetic
<1> HIDE DEF T
<1>7. \A i \in Nat : i \in T
  BY <1>5, <1>6, Induction
<1> QED
  BY <1>4, <1>7 DEF T

LEMMA Division == \A q, d \in Nat : d > 0 => (q * d) \div d = q
OBVIOUS

\* m! / j! is whole.
LEMMA Quotients ==
  \A m \in Nat : \A j \in 0 .. m :
    /\ factorial[m] \div factorial[j] \in Nat
    /\ factorial[m + 1] \div factorial[j] = (m + 1) * (factorial[m] \div factorial[j])
<1> DEFINE T == {m \in Nat : \A j \in 0 .. m : \E q \in Nat : factorial[m] = q * factorial[j]}
<1>1. 0 \in T
  <2>1. factorial[0] = 1 * factorial[0] /\ \A j \in 0 .. 0 : j = 0
    BY FactorialGoesOn
  <2> QED
    BY <2>1
<1>2. ASSUME NEW m \in Nat, m \in T PROVE m + 1 \in T
  <2> SUFFICES ASSUME NEW j \in 0 .. m + 1 PROVE \E q \in Nat : factorial[m + 1] = q * factorial[j]
    OBVIOUS
  <2>1. CASE j = m + 1
    <3>1. factorial[m + 1] = 1 * factorial[j]
      BY <2>1, FactorialGoesOn
    <3> QED
      BY <3>1
  <2>2. CASE j # m + 1
    <3>1. j \in 0 .. m
      BY <2>2
    <3>2. PICK q \in Nat : factorial[m] = q * factorial[j]
      BY <1>2, <3>1
    <3>3. factorial[m + 1] = ((m + 1) * q) * factorial[j] /\ (m + 1) * q \in Nat
      <4>1. factorial[m + 1] = (m + 1) * (q * factorial[j]) /\ factorial[j] \in Nat
        BY <3>1, <3>2, FactorialGoesOn
      <4>2. \A x, y, z \in Nat : x * (y * z) = (x * y) * z /\ x * y \in Nat
        OBVIOUS
      <4> QED
        BY <4>1, <4>2
    <3> QED
      BY <3>3
  <2> QED
    BY <2>1, <2>2
<1> HIDE DEF T
<1>3. \A m \in Nat : m \in T
  BY <1>1, <1>2, Induction
<1> QED
  <2> TAKE m \in Nat
  <2> TAKE j \in 0 .. m
  <2>1. PICK q \in Nat : factorial[m] = q * factorial[j]
    BY <1>3 DEF T
  <2>2. factorial[j] \in Nat /\ factorial[j] > 0
    BY FactorialGoesOn
  <2>3. factorial[m] \div factorial[j] = q
    BY <2>1, <2>2, Division
  <2>4. factorial[m + 1] = ((m + 1) * q) * factorial[j] /\ (m + 1) * q \in Nat
    <3>1. factorial[m + 1] = (m + 1) * (q * factorial[j])
      BY <2>1, FactorialGoesOn
    <3>2. \A x, y, z \in Nat : x * (y * z) = (x * y) * z /\ x * y \in Nat
      OBVIOUS
    <3>3. m + 1 \in Nat
      OBVIOUS
    <3> QED
      BY ONLY <2>2, <3>1, <3>2, <3>3, q \in Nat
  <2>5. factorial[m + 1] \div factorial[j] = (m + 1) * q
    BY <2>2, <2>4, Division
  <2> QED
    BY <2>3, <2>5

\* One user more: the term with nobody at the server is new, the others are
\* multiples of those before.
LEMMA Terms ==
  ASSUME NEW s \in Nat, NEW z \in Nat, NEW m \in Nat
  PROVE  /\ \A k \in 0 .. m : Term(s, z, m, k) \in Nat
         /\ Term(s, z, m, 0) = Powers(z)[m]
         /\ \A k \in 0 .. m : Term(s, z, m + 1, k + 1) = ((m + 1) * s) * Term(s, z, m, k)
<1>1. ASSUME NEW k \in 0 .. m
      PROVE  /\ Term(s, z, m, k) \in Nat
             /\ Term(s, z, m + 1, k + 1) = ((m + 1) * s) * Term(s, z, m, k)
  <2> DEFINE a == Powers(s)[k]
             b == Powers(z)[m - k]
             c == factorial[m] \div factorial[m - k]
  <2>1. k \in Nat /\ m - k \in 0 .. m /\ m - k \in Nat /\ (m + 1) - (k + 1) = m - k
    OBVIOUS
  <2>2. a \in Nat /\ Powers(s)[k + 1] = s * a /\ b \in Nat
    BY <2>1, PowersGoOn
  <2>3. c \in Nat /\ factorial[m + 1] \div factorial[m - k] = (m + 1) * c
    BY <2>1, Quotients
  <2>4. Term(s, z, m, k) = a * b * c /\ Term(s, z, m + 1, k + 1) = (s * a) * b * ((m + 1) * c)
    BY <2>1, <2>2, <2>3 DEF Term
  <2> HIDE DEF a, b, c
  <2>5. (s * a) * b * ((m + 1) * c) = ((m + 1) * s) * (a * b * c) /\ a * b * c \in Nat
    BY <2>2, <2>3
  <2> QED
    BY <2>4, <2>5
<1>2. Term(s, z, m, 0) = Powers(z)[m]
  <2>1. Powers(s)[0] = 1 /\ Powers(z)[m] \in Nat /\ m - 0 = m
    BY PowersGoOn
  <2>2. factorial[m] \div factorial[m] = 1
    <3>1. factorial[m] \in Nat /\ factorial[m] > 0 /\ factorial[m] = 1 * factorial[m]
      BY FactorialGoesOn
    <3> QED
      BY <3>1, Division
  <2> QED
    BY <2>1, <2>2 DEF Term
<1> QED
  BY <1>1, <1>2

TermsOf(s, z, m) == [k \in 0 .. m |-> Term(s, z, m, k)]

LEMMA WeightIsCount ==
  ASSUME NEW s \in Nat, NEW z \in Nat, NEW m \in Nat
  PROVE  /\ Weight(s, z, m) = Cardinality(Pairs(0 .. m, TermsOf(s, z, m)))
         /\ Weight(s, z, m) \in Nat
<1> DEFINE C == 0 .. m
           t == TermsOf(s, z, m)
           Adds(sum) == sum = [p \in SUBSET C |->
             IF p = {} THEN 0
             ELSE Term(s, z, m, CHOOSE x \in p : TRUE) + sum[p \ {CHOOSE x \in p : TRUE}]]
<1>1. \A k \in C : t[k] = Term(s, z, m, k) /\ t[k] \in Nat
  BY Terms DEF TermsOf
<1>2. IsFiniteSet(C)
  <2>1. 0 \in Int /\ m \in Int
    OBVIOUS
  <2> QED
    BY <2>1, FS_Interval
<1>3. Weight(s, z, m) = (CHOOSE sum : Adds(sum))[C]
  BY Zenon DEF Weight, MapThenSumSet, MapThenFoldSet
<1> HIDE DEF C, t
<1>4. \A sum : AddsUp(sum, C, t) <=> Adds(sum)
  <2> TAKE sum
  <2> DEFINE F(p) == IF p = {} THEN 0
                     ELSE t[CHOOSE x \in p : TRUE] + sum[p \ {CHOOSE x \in p : TRUE}]
             A(p) == IF p = {} THEN 0
                     ELSE Term(s, z, m, CHOOSE x \in p : TRUE) + sum[p \ {CHOOSE x \in p : TRUE}]
  <2>1. ASSUME NEW p \in SUBSET C PROVE F(p) = A(p)
    <3>1. CASE p # {}
      <4>1. (CHOOSE x \in p : TRUE) \in C
        BY <3>1
      <4>2. t[CHOOSE x \in p : TRUE] = Term(s, z, m, CHOOSE x \in p : TRUE)
        BY <1>1, <4>1
      <4> QED
        BY <4>2
    <3> QED
      BY <3>1
  <2>2. [p \in SUBSET C |-> F(p)] = [p \in SUBSET C |-> A(p)]
    <3> HIDE DEF F, A
    <3> QED
      BY <2>1
  <2> QED
    BY <2>2 DEF AddsUp
<1>5. \E sum : AddsUp(sum, C, t)
  BY <1>1, <1>2, SumsExist
<1>6. AddsUp(CHOOSE sum : Adds(sum), C, t)
  <2> HIDE DEF Adds
  <2>1. Adds(CHOOSE sum : Adds(sum))
    BY <1>4, <1>5, Zenon
  <2> QED
    BY <1>4, <2>1
<1>7. \A sum : AddsUp(sum, C, t) => sum[C] = Cardinality(Pairs(C, t))
  BY <1>1, <1>2, SumIsCount
<1>8. IsFiniteSet(Pairs(C, t))
  BY <1>1, <1>2, PairsFinite
<1> HIDE DEF Adds
<1>9. Weight(s, z, m) = Cardinality(Pairs(C, t)) /\ Cardinality(Pairs(C, t)) \in Nat
  BY <1>3, <1>6, <1>7, <1>8, FS_CardinalityType
<1> QED
  BY <1>9 DEF C, t

LEMMA WeightGoesOn ==
  ASSUME NEW s \in Nat, NEW z \in Nat
  PROVE  /\ Weight(s, z, 0) = 1
         /\ \A m \in Nat : Weight(s, z, m + 1) = Powers(z)[m + 1] + ((m + 1) * s) * Weight(s, z, m)
<1>1. Weight(s, z, 0) = 1
  <2> DEFINE t == TermsOf(s, z, 0)
  <2>1. t[0] = 1 /\ \A k \in 0 .. 0 : t[k] \in Nat
    <3>1. 0 \in Nat /\ 0 \in 0 .. 0 /\ \A k \in 0 .. 0 : k = 0
      OBVIOUS
    <3>2. t[0] = Term(s, z, 0, 0)
      BY <3>1 DEF TermsOf
    <3>3. Term(s, z, 0, 0) = Powers(z)[0]
      BY <3>1, Terms, Zenon
    <3>4. Powers(z)[0] = 1
      BY PowersGoOn
    <3> QED
      BY <3>1, <3>2, <3>3, <3>4
  <2> HIDE DEF t
  <2>2. 0 \in Nat
    OBVIOUS
  <2>3. Cardinality(Pairs(0 .. 0, t)) = Cardinality(Pairs(0 .. 0 - 1, t)) + t[0]
    BY <2>1, <2>2, SumUpto
  <2>4. Pairs(0 .. 0 - 1, t) = {}
    BY DEF Pairs
  <2>5. Cardinality(Pairs(0 .. 0, t)) = 1
    BY <2>1, <2>3, <2>4, FS_EmptySet
  <2> QED
    BY <2>2, <2>5, WeightIsCount DEF t
<1>2. ASSUME NEW m \in Nat
      PROVE  Weight(s, z, m + 1) = Powers(z)[m + 1] + ((m + 1) * s) * Weight(s, z, m)
  <2> DEFINE f == TermsOf(s, z, m)
             g == TermsOf(s, z, m + 1)
             c == (m + 1) * s
  <2>1. m + 1 \in Nat /\ c \in Nat
    BY NatArithmetic
  <2>2. \A k \in 0 .. m : k \in 0 .. m + 1 /\ k + 1 \in 0 .. m + 1
    OBVIOUS
  <2>3. g[0] = Powers(z)[m + 1] /\ g[0] \in Nat
    <3>1. 0 \in 0 .. m + 1
      OBVIOUS
    <3>2. g[0] = Term(s, z, m + 1, 0)
      BY <3>1 DEF TermsOf
    <3>3. Term(s, z, m + 1, 0) = Powers(z)[m + 1]
      BY <2>1, Terms, Zenon
    <3>4. Powers(z)[m + 1] \in Nat
      BY <2>1, PowersGoOn
    <3> QED
      BY <3>2, <3>3, <3>4
  <2>4. \A k \in 0 .. m : f[k] \in Nat /\ g[k + 1] = c * f[k]
    <3> TAKE k \in 0 .. m
    <3>1. f[k] = Term(s, z, m, k) /\ g[k + 1] = Term(s, z, m + 1, k + 1)
      BY <2>2 DEF TermsOf
    <3>2. Term(s, z, m, k) \in Nat /\ Term(s, z, m + 1, k + 1) = c * Term(s, z, m, k)
      BY Terms
    <3> QED
      BY <3>1, <3>2
  <2> HIDE DEF f, g, c
  <2>5. Scaled(m, c, f, g)
    BY <2>3, <2>4 DEF Scaled
  <2>6. Cardinality(Pairs(0 .. m + 1, g)) = g[0] + c * Cardinality(Pairs(0 .. m, f))
    BY <2>1, <2>5, SumScaled
  <2>7. /\ Weight(s, z, m) = Cardinality(Pairs(0 .. m, f))
        /\ Weight(s, z, m + 1) = Cardinality(Pairs(0 .. m + 1, g))
    BY <2>1, WeightIsCount DEF f, g
  <2> QED
    BY <2>3, <2>6, <2>7 DEF c
<1> QED
  BY <1>1, <1>2

\* With k users the throughput is x / b and the queue q / b; w and v are the
\* weights of k users and of one fewer, and p is the power of z in w.
Balanced(s, z, k, x, b, q, v, w, p) ==
  /\ s \in Nat /\ z \in Nat /\ k \in Nat /\ x \in Nat /\ b \in Nat /\ q \in Nat
  /\ v \in Nat /\ w \in Nat /\ p \in Nat
  /\ q + z * x = k * b /\ x * w = b * k * v /\ w = p + (k * s) * v

\* The throughput with one user more.
Turned(s, z, k, b, q, w, p) ==
  ((k + 1) * b) * (z * p + ((k + 1) * s) * w) = (z * b + s * (q + b)) * (k + 1) * w

LEMMA ProductStep ==
  ASSUME NEW s, NEW z, NEW k, NEW x, NEW b, NEW q, NEW v, NEW w, NEW p,
         Balanced(s, z, k, x, b, q, v, w, p)
  PROVE  Turned(s, z, k, b, q, w, p)
<1> USE DEF Balanced
<1>1. b * p = b * w - (s * x) * w
  <2>1. b * w = b * p + b * ((k * s) * v)
    OBVIOUS
  <2>2. b * ((k * s) * v) = s * (b * k * v) /\ (s * x) * w = s * (x * w)
    OBVIOUS
  <2>3. b * w = b * p + (s * x) * w
    BY <2>1, <2>2
  <2>4. b * w \in Nat /\ b * p \in Nat /\ (s * x) * w \in Nat
    BY NatArithmetic
  <2> HIDE DEF NatArithmetic
  <2> QED
    BY <2>3, <2>4
<1>2. s * q + s * b + s * (z * x) = ((k + 1) * s) * b
  <2>1. q + b + z * x = (k + 1) * b
    OBVIOUS
  <2>2. s * (q + b + z * x) = s * q + s * b + s * (z * x)
    OBVIOUS
  <2> QED
    BY <2>1, <2>2
<1>3. b * (z * p + ((k + 1) * s) * w) = (z * b + s * (q + b)) * w
  <2>1. b * (z * p + ((k + 1) * s) * w) = z * (b * p) + (((k + 1) * s) * b) * w
    OBVIOUS
  <2>2. z * (b * p) = (z * b) * w - (s * (z * x)) * w
    BY <1>1
  <2>3. (((k + 1) * s) * b) * w = (s * q + s * b) * w + (s * (z * x)) * w
    BY <1>2
  <2>4. (z * b + s * (q + b)) * w = (z * b) * w + (s * q + s * b) * w
    OBVIOUS
  <2> QED
    BY <2>1, <2>2, <2>3, <2>4
<1>4. ((k + 1) * b) * (z * p + ((k + 1) * s) * w) = (k + 1) * (b * (z * p + ((k + 1) * s) * w))
  OBVIOUS
<1>5. (z * b + s * (q + b)) * (k + 1) * w = (k + 1) * ((z * b + s * (q + b)) * w)
  OBVIOUS
<1> QED
  BY <1>3, <1>4, <1>5 DEF Turned

\* Users who are not at the server think: Little's law for both.  The last
\* conjunct is ProductForm, with no weight where there are no users.
Before(s, z, m) == IF m = 0 THEN 0 ELSE Weight(s, z, m - 1)

ProductInv ==
  /\ X.den = Q_prev.den /\ Q_prev.num + Z_ms * X.num = n * X.den
  /\ X.num * Weight(S_ms, Z_ms, n) = X.den * n * Before(S_ms, Z_ms, n)

LEMMA ProductStarts == Init => ProductInv
<1> SUFFICES ASSUME Init PROVE ProductInv
  OBVIOUS
<1>1. /\ S_ms \in Nat /\ Z_ms \in Nat /\ n = 0
      /\ Q_prev = [num |-> 0, den |-> 1] /\ X = [num |-> 0, den |-> 1]
  BY MvaStarts DEF MvaInv, MvaTypeOK, Init, NothingComputed, Fraction
<1>2. Weight(S_ms, Z_ms, n) = 1
  BY <1>1, WeightGoesOn
<1> QED
  BY <1>1, <1>2 DEF ProductInv, Before

LEMMA ProductSteps == MvaInv /\ ProductInv /\ [Next]_vars => ProductInv'
<1> SUFFICES ASSUME MvaInv, ProductInv, [Next]_vars PROVE ProductInv'
  OBVIOUS
<1>1. CASE UNCHANGED mva
  BY <1>1 DEF mva, ProductInv
<1>2. CASE NextUser
  <2> DEFINE q == Q_prev.num
             b == Q_prev.den
             x == X.num
             r == S_ms * (q + b)
             d == Z_ms * b + r
             w == Weight(S_ms, Z_ms, n)
             v == Before(S_ms, Z_ms, n)
             p == Powers(Z_ms)[n]
  <2>1. /\ S_ms' = S_ms /\ Z_ms' = Z_ms /\ n' = n + 1
        /\ X' = [num |-> (n + 1) * b, den |-> d]
        /\ Q_prev' = [num |-> (n + 1) * r, den |-> d]
    BY <1>2 DEF NextUser, Fraction
  <2>2. q \in Nat /\ b \in Nat /\ x \in Nat /\ S_ms \in Nat /\ Z_ms \in Nat /\ n \in Nat
    BY DEF MvaInv, MvaTypeOK
  <2>3. w \in Nat /\ v \in Nat /\ p \in Nat
    <3>1. n # 0 => n - 1 \in Nat
      BY <2>2
    <3> QED
      BY <2>2, <3>1, WeightIsCount, PowersGoOn DEF Before
  <2>4. w = p + (n * S_ms) * v
    <3>1. CASE n = 0
      <4>1. Weight(S_ms, Z_ms, 0) = 1 /\ Powers(Z_ms)[0] = 1
        BY <2>2, WeightGoesOn, PowersGoOn
      <4>2. w = 1 /\ p = 1 /\ v = 0
        BY <3>1, <4>1 DEF Before
      <4> HIDE DEF w, p, v
      <4>3. (n * S_ms) * v = 0
        BY <2>2, <4>2
      <4> QED
        BY <4>2, <4>3
    <3>2. CASE n # 0
      <4>1. n - 1 \in Nat /\ (n - 1) + 1 = n
        BY <2>2, <3>2
      <4> QED
        BY <2>2, <3>2, <4>1, WeightGoesOn DEF Before
    <3> QED
      BY <3>1, <3>2
  <2>5. q + Z_ms * x = n * b /\ x * w = b * n * v
    BY DEF ProductInv
  <2>6. Weight(S_ms, Z_ms, n + 1) = Z_ms * p + ((n + 1) * S_ms) * w
    BY <2>2, WeightGoesOn, PowersGoOn
  <2>7. Before(S_ms, Z_ms, n + 1) = w
    <3>1. n + 1 # 0 /\ (n + 1) - 1 = n
      BY <2>2
    <3> QED
      BY <3>1 DEF Before
  <2> HIDE DEF q, b, x, w, v, p
  <2>8. ((n + 1) * b) * Weight(S_ms, Z_ms, n + 1) = d * (n + 1) * w
    <3>1. Balanced(S_ms, Z_ms, n, x, b, q, v, w, p)
      BY <2>2, <2>3, <2>4, <2>5 DEF Balanced
    <3>2. Turned(S_ms, Z_ms, n, b, q, w, p)
      BY <3>1, ProductStep
    <3> QED
      BY <2>6, <3>2 DEF Turned
  <2>9. (n + 1) * r + Z_ms * ((n + 1) * b) = (n + 1) * d
    BY <2>2
  <2> HIDE DEF r, d
  <2> QED
    BY <2>1, <2>7, <2>8, <2>9 DEF ProductInv
<1> QED
  BY <1>1, <1>2 DEF Next, vars

\* Mean value analysis computes the throughput of the product form, for any
\* number of users, any demand and think time (run_mva).
THEOREM ThroughputOfProductForm == Spec => []ProductForm
<1>1. MvaInv /\ ProductInv => ProductForm
  BY DEF ProductInv, ProductForm, Before, MvaInv, MvaTypeOK
<1> QED
  BY <1>1, MvaStarts, MvaSteps, ProductStarts, ProductSteps, PTL DEF Spec

-----------------------------------------------------------------------------
(* Command lines. *)

\* The names among the words s are found from the first word to the last.
LEMMA NamesExist ==
  ASSUME NEW s, NEW D, NEW n0 \in Nat
  PROVE  \E P \in SUBSET (1 .. n0) : \A k \in 1 .. n0 : k \in P <=> s[k] \in D /\ k - 1 \notin P
<1> DEFINE Right(m, P) == \A k \in 1 .. m : k \in P <=> s[k] \in D /\ k - 1 \notin P
           Wrong == {m \in Nat : \A P \in SUBSET (1 .. m) : ~Right(m, P)}
<1> SUFFICES ASSUME Wrong # {} PROVE FALSE
  OBVIOUS
<1>1. PICK m \in Wrong : \A y \in Wrong : m <= y
  <2> HIDE DEF Wrong
  <2>1. Wrong \subseteq Nat
    BY DEF Wrong
  <2> QED
    BY <2>1, LeastNatural
<1>2. /\ m \in Nat /\ \A P \in SUBSET (1 .. m) : ~Right(m, P)
      /\ \A y \in Nat : y \notin Wrong => \E P \in SUBSET (1 .. y) : Right(y, P)
  OBVIOUS
<1>3. m # 0
  <2>1. Right(0, {})
    OBVIOUS
  <2>2. {} \in SUBSET (1 .. m)
    OBVIOUS
  <2> HIDE DEF Right
  <2> QED
    BY <1>2, <2>1, <2>2
<1>4. PICK P \in SUBSET (1 .. m - 1) : Right(m - 1, P)
  <2>1. m - 1 \in Nat /\ ~(m <= m - 1)
    BY <1>3, <1>2
  <2> HIDE DEF Wrong, Right
  <2> QED
    BY <1>1, <1>2, <2>1
<1> DEFINE Q == IF s[m] \in D /\ m - 1 \notin P THEN P \cup {m} ELSE P
<1>5. Q \in SUBSET (1 .. m) /\ Right(m, Q)
  <2>1. m \notin P /\ m \in 1 .. m /\ \A k \in 1 .. m : k # m => k \in 1 .. m - 1 /\ k - 1 # m
    BY <1>3
  <2>2. \A k \in 1 .. m : k # m => (k \in Q <=> k \in P) /\ (k - 1 \in Q <=> k - 1 \in P)
    BY <2>1
  <2>3. m \in Q <=> s[m] \in D /\ m - 1 \notin P
    BY <2>1
  <2>4. m - 1 \in Q <=> m - 1 \in P
    BY <1>3
  <2> QED
    BY <1>4, <2>1, <2>2, <2>3, <2>4
<1> QED
  BY <1>5

LEMMA NamesRight ==
  ASSUME Len(argv) \in Nat
  PROVE  /\ NamesAt \subseteq Positions
         /\ \A k \in Positions :
              k \in NamesAt <=> argv[k] \in DOMAIN Kind[program] /\ k - 1 \notin NamesAt
<1>1. \E P \in SUBSET Positions :
        \A k \in Positions : k \in P <=> argv[k] \in DOMAIN Kind[program] /\ k - 1 \notin P
  BY NamesExist DEF Positions
<1> QED
  BY <1>1 DEF NamesAt

LEMMA TheOptions ==
  /\ DOMAIN Kind = {"websim", "loadgenerator"} /\ Kind["websim"] = WebsimKind
  /\ Kind["loadgenerator"] = LoaderKind
  /\ Default["websim"] = WebsimDefault /\ Default["loadgenerator"] = LoaderDefault
  /\ \A p \in {"websim", "loadgenerator"} : DOMAIN Default[p] = DOMAIN Kind[p]
  /\ {"--service_time_dist", "--service_time_avg", "--timeout_lower", "--timeout_upper"}
       \subseteq DOMAIN Kind["websim"]
  /\ \A p \in {"websim", "loadgenerator"} : "--help" \notin DOMAIN Kind[p]
<1>1. /\ DOMAIN Kind = {"websim", "loadgenerator"} /\ Kind["websim"] = WebsimKind
      /\ Kind["loadgenerator"] = LoaderKind
      /\ Default["websim"] = WebsimDefault /\ Default["loadgenerator"] = LoaderDefault
  BY DEF Kind, Default
<1>2. /\ DOMAIN WebsimKind = WebsimOptions /\ DOMAIN WebsimDefault = WebsimOptions
      /\ DOMAIN LoaderKind = LoaderOptions /\ DOMAIN LoaderDefault = LoaderOptions
  BY DEF WebsimKind, WebsimDefault, LoaderKind, LoaderDefault
<1>3. /\ {"--service_time_dist", "--service_time_avg", "--timeout_lower", "--timeout_upper"}
           \subseteq WebsimOptions
      /\ "--help" \notin WebsimOptions /\ "--help" \notin LoaderOptions
  BY DEF WebsimOptions, LoaderOptions
<1> QED
  BY <1>1, <1>2, <1>3

Dists == {"exponential", "uniform", "constant"}

\* Where the load generator stops reading, should it come there.
HelpAt(k) == program = "loadgenerator" /\ k \in Stray /\ argv[k] = "--help"

\* The positions before i at which option o is given, and its value then.
Given(o, i) == {k \in NamesAt : argv[k] = o /\ k < i}
ToldBefore(o, i) ==
  \/ Given(o, i) = {} /\ opts[o] = Default[program][o]
  \/ \E m \in Given(o, i) : /\ \A k \in Given(o, i) : k <= m
                            /\ opts[o] = Value(Kind[program][o], argv[m + 1])

\* What has been read made sense and the options are as it says; reading
\* continues with a word that is no value, and ends at the end of the line, at
\* a --help of the load generator, or at a word without a meaning.
Sound ==
  /\ optind \in 1 .. Len(argv) + 1 /\ optind - 1 \notin NamesAt
  /\ \A k \in Positions : k < optind => ~Bad(k) /\ ~HelpAt(k)
  /\ DOMAIN opts = DOMAIN Kind[program]
  /\ \A o \in DOMAIN Kind[program] : ToldBefore(o, optind)

Ended ==
  /\ outcome = "running" =>
       /\ optind = Len(argv) + 1 \/ HelpAt(optind)
       /\ program = "websim" =>
            /\ opts["--service_time_dist"] \in Dists
            /\ service_dist.type = opts["--service_time_dist"]
            /\ opts["--service_time_avg"] =
                 IF service_dist.type = "uniform" THEN service_dist.p2 ELSE service_dist.p1
            /\ timeout_dist = sampler("uniform", opts["--timeout_lower"], opts["--timeout_upper"])
  /\ outcome \in {"exit", "abort"} =>
       \/ optind \in Positions /\ Bad(optind) /\ ~HelpAt(optind)
       \/ /\ program = "websim" /\ optind = Len(argv) + 1
          /\ opts["--service_time_dist"] \notin Dists

CmdInv ==
  /\ Len(argv) \in Nat /\ outcome \in {"parsing", "running", "exit", "abort"}
  /\ HasOptions => Sound /\ Ended

LEMMA CmdStarts == Init => CmdInv
<1> SUFFICES ASSUME Init PROVE CmdInv
  OBVIOUS
<1>1. CASE MvaInit
  <2>1. argv = <<>> /\ program = "mva" /\ outcome = "running"
    BY <1>1 DEF MvaInit
  <2> QED
    BY <2>1, TheOptions DEF CmdInv, HasOptions
<1>2. CASE CmdInit
  <2>1. /\ program \in {"websim", "loadgenerator"} /\ optind = 1 /\ opts = Default[program]
        /\ outcome = "parsing"
    BY <1>2 DEF CmdInit
  <2>2. \A words : argv \in Lines(words) => Len(argv) \in Nat
    BY CommandLineAssumption DEF Lines
  <2>3. Len(argv) \in Nat
    BY <1>2, <2>2 DEF CmdInit
  <2>4. \A o : Given(o, 1) = {}
    BY <2>3, NamesRight DEF Given, Positions
  <2>5. \A o \in DOMAIN Kind[program] : ToldBefore(o, optind)
    BY <2>1, <2>4 DEF ToldBefore
  <2>6. 0 \notin NamesAt /\ \A k \in Positions : ~(k < 1)
    BY <2>3, NamesRight DEF Positions
  <2>7. DOMAIN opts = DOMAIN Kind[program]
    BY <2>1, TheOptions
  <2> QED
    BY <2>1, <2>3, <2>5, <2>6, <2>7 DEF CmdInv, Sound, Ended
<1> QED
  BY <1>1, <1>2 DEF Init

\* A step reads on the same line, so that the names stay where they are.
LEMMA SameLine ==
  ASSUME UNCHANGED <<program, argv>>
  PROVE  /\ NamesAt' = NamesAt /\ Positions' = Positions /\ Stray' = Stray
         /\ HasOptions' = HasOptions /\ Kind' = Kind /\ Default' = Default
         /\ \A k : Bad(k)' = Bad(k) /\ HelpAt(k)' = HelpAt(k)
         /\ \A o, i : Given(o, i)' = Given(o, i)
<1>1. Positions' = Positions /\ HasOptions' = HasOptions
  BY DEF Positions, HasOptions
<1>2. NamesAt' = NamesAt
  BY <1>1 DEF NamesAt
<1>3. Stray' = Stray
  BY <1>1, <1>2 DEF Stray
<1> QED
  BY <1>1, <1>2, <1>3 DEF Bad, HelpAt, Given

\* The word that is read next is an option or stray.
LEMMA NextWord ==
  ASSUME CmdInv, HasOptions, optind <= Len(argv)
  PROVE  /\ optind \in Positions /\ Len(argv) \in Nat /\ optind \in Nat \ {0}
         /\ Word \in DOMAIN Kind[program] => optind \in NamesAt /\ optind + 1 \notin NamesAt
         /\ Word \notin DOMAIN Kind[program] => optind \in Stray /\ optind \notin NamesAt
<1>1. /\ optind \in Positions /\ Len(argv) \in Nat /\ optind \in Nat \ {0}
      /\ optind - 1 \notin NamesAt
  BY DEF CmdInv, Sound, Positions
<1>2. /\ NamesAt \subseteq Positions
      /\ \A k \in Positions :
           k \in NamesAt <=> argv[k] \in DOMAIN Kind[program] /\ k - 1 \notin NamesAt
  BY <1>1, NamesRight
<1>3. optind + 1 \in Positions => (optind + 1 \in NamesAt => optind \notin NamesAt)
  BY <1>1, <1>2
<1>4. Word \in DOMAIN Kind[program] => optind \in NamesAt
  BY <1>1, <1>2 DEF Word
<1> QED
  BY <1>1, <1>2, <1>3, <1>4 DEF Word, Stray

\* A step that reads one stray word and changes no option.
LEMMA PassesOver ==
  ASSUME CmdInv, HasOptions, optind <= Len(argv), Word \notin DOMAIN Kind[program],
         ~Bad(optind), ~HelpAt(optind),
         optind' = optind + 1, UNCHANGED <<program, argv, opts>>
  PROVE  Sound'
<1>1. /\ optind \in Positions /\ optind \notin NamesAt /\ Len(argv) \in Nat
      /\ optind \in Nat \ {0}
  BY NextWord
<1>2. Sound
  BY DEF CmdInv
<1>3. optind' \in 1 .. Len(argv') + 1 /\ optind' - 1 \notin NamesAt'
  BY <1>1, <1>2, SameLine DEF Sound
<1>4. ASSUME NEW k \in Positions, k < optind' PROVE ~Bad(k) /\ ~HelpAt(k)
  <2>1. k < optind \/ k = optind
    BY <1>1, <1>4 DEF Positions
  <2> QED
    BY <1>2, <2>1 DEF Sound
<1>5. DOMAIN opts' = DOMAIN Kind'[program']
  BY <1>2, SameLine DEF Sound
<1>6. ASSUME NEW o \in DOMAIN Kind[program] PROVE ToldBefore(o, optind)'
  <2>1. Given(o, optind + 1) = Given(o, optind)
    <3>1. \A k \in NamesAt : k \in Nat /\ (k < optind + 1 <=> k < optind)
      BY <1>1, NamesRight DEF Positions
    <3> QED
      BY <3>1 DEF Given
  <2>2. Given(o, optind)' = Given(o, optind)
    BY <2>1, SameLine DEF Given
  <2>3. ToldBefore(o, optind)
    BY <1>2 DEF Sound
  <2> QED
    BY <2>2, <2>3, SameLine DEF ToldBefore
<1> QED
  BY <1>3, <1>4, <1>5, <1>6, SameLine DEF Sound

\* A step that reads an option and its value.
LEMMA TakingKeepsSound ==
  ASSUME CmdInv, HasOptions, NEW p, TakesValue(p)
  PROVE  Sound'
<1> DEFINE w == argv[optind]
           v == Value(Kind[program][w], argv[optind + 1])
<1>1. /\ p = program /\ w \in DOMAIN Kind[program] /\ optind < Len(argv)
      /\ Accepts(Kind[program][w], argv[optind + 1])
      /\ opts' = [opts EXCEPT ![w] = v] /\ optind' = optind + 2
      /\ UNCHANGED <<program, argv>>
  BY DEF TakesValue, Reading, Word
<1>2. Sound /\ Len(argv) \in Nat /\ optind \in 1 .. Len(argv) + 1
  BY DEF CmdInv, Sound
<1>3. /\ optind \in Positions /\ optind \in Nat \ {0}
      /\ optind \in NamesAt /\ optind + 1 \notin NamesAt
  BY <1>1, <1>2, NextWord DEF Word
<1> HIDE DEF v
<1>4. optind' \in 1 .. Len(argv') + 1 /\ optind' - 1 \notin NamesAt'
  BY <1>1, <1>2, <1>3, SameLine
<1>5. ASSUME NEW k \in Positions, k < optind' PROVE ~Bad(k) /\ ~HelpAt(k)
  <2>1. k < optind \/ k = optind \/ k = optind + 1
    BY <1>1, <1>2, <1>5 DEF Positions
  <2>2. CASE k = optind
    BY <1>1, <1>2, <1>3, <2>2 DEF Bad, HelpAt, Stray
  <2>3. CASE k = optind + 1
    <3>1. k \notin NamesAt /\ k - 1 \in NamesAt
      BY <1>2, <1>3, <2>3
    <3> QED
      BY <3>1 DEF Bad, HelpAt, Stray
  <2> QED
    BY <1>2, <2>1, <2>2, <2>3 DEF Sound
<1>6. DOMAIN opts' = DOMAIN Kind'[program']
  BY <1>1, <1>2, SameLine DEF Sound
<1>7. \A k \in NamesAt : k \in Nat /\ (k < optind + 2 <=> k < optind \/ k = optind)
  BY <1>2, <1>3, NamesRight DEF Positions
<1>8. ASSUME NEW o \in DOMAIN Kind[program] PROVE ToldBefore(o, optind)'
  <2>1. Given(o, optind)' = Given(o, optind + 2)
    BY <1>1, SameLine DEF Given
  <2>2. CASE o = w
    <3>1. optind \in Given(o, optind + 2) /\ \A k \in Given(o, optind + 2) : k <= optind
      BY <1>2, <1>3, <1>7, <2>2 DEF Given
    <3>2. opts'[o] = v
      BY <1>1, <1>2, <2>2 DEF Sound
    <3> QED
      BY <1>1, <2>1, <2>2, <3>1, <3>2, SameLine DEF ToldBefore, v
  <2>3. CASE o # w
    <3>1. Given(o, optind + 2) = Given(o, optind)
      BY <1>7, <2>3 DEF Given
    <3>2. opts'[o] = opts[o]
      BY <1>1, <1>2, <2>3 DEF Sound
    <3>3. ToldBefore(o, optind)
      BY <1>2 DEF Sound
    <3> QED
      BY <1>1, <2>1, <3>1, <3>2, <3>3, SameLine DEF ToldBefore
  <2> QED
    BY <2>2, <2>3
<1> QED
  BY <1>1, <1>4, <1>5, <1>6, <1>8, SameLine DEF Sound

\* A step that ends the reading where it is.
LEMMA StaysSound ==
  ASSUME CmdInv, HasOptions, UNCHANGED <<program, argv, optind, opts>>
  PROVE  Sound'
<1>1. \A o \in DOMAIN Kind[program] : ToldBefore(o, optind)' <=> ToldBefore(o, optind)
  BY SameLine DEF ToldBefore, Given
<1> QED
  BY <1>1, SameLine DEF CmdInv, Sound

LEMMA CmdSteps == CmdInv /\ [Next]_vars => CmdInv'
<1> SUFFICES ASSUME CmdInv, [Next]_vars PROVE CmdInv'
  OBVIOUS
<1>1. CASE UNCHANGED cmdline
  <2>1. UNCHANGED <<program, argv, optind, opts, outcome, service_dist, timeout_dist>>
    BY <1>1 DEF cmdline
  <2>2. HasOptions => Sound'
    BY <2>1, StaysSound
  <2>3. HasOptions => Ended'
    BY <2>1, SameLine DEF CmdInv, Ended
  <2> QED
    BY <2>1, <2>2, <2>3, SameLine DEF CmdInv
<1>2. ASSUME NEW p \in {"websim", "loadgenerator"}, TakesValue(p) PROVE CmdInv'
  <2>1. HasOptions /\ UNCHANGED <<program, argv, outcome>> /\ outcome = "parsing"
    BY <1>2, TheOptions DEF TakesValue, Reading, HasOptions
  <2>2. Sound'
    BY <1>2, <2>1, TakingKeepsSound
  <2> QED
    BY <2>1, <2>2 DEF CmdInv, Ended
<1>3. ASSUME NEW p \in {"websim", "loadgenerator"}, RejectsValue(p) PROVE CmdInv'
  <2>1. /\ HasOptions /\ UNCHANGED <<program, argv, optind, opts>> /\ p = program
        /\ outcome' \in {"exit", "abort"} /\ optind <= Len(argv)
        /\ Word \in DOMAIN Kind[program]
        /\ optind < Len(argv) => ~Accepts(Kind[program][Word], argv[optind + 1])
    BY <1>3, TheOptions DEF RejectsValue, Reading, HasOptions, Ends
  <2>2. Sound'
    BY <2>1, StaysSound
  <2>3. optind \in Positions /\ Len(argv) \in Nat /\ optind \in Nat /\ optind \in NamesAt
    BY <2>1, NextWord
  <2>4. Bad(optind) /\ ~HelpAt(optind)
    BY <2>1, <2>3 DEF Bad, HelpAt, Stray, Word
  <2>5. Bad(optind)' /\ ~HelpAt(optind)' /\ optind' \in Positions'
    BY <2>1, <2>3, <2>4, SameLine DEF Bad, HelpAt, Stray
  <2> QED
    BY <2>1, <2>2, <2>3, <2>5 DEF CmdInv, Ended
<1>4. CASE WebsimUnknown
  <2>1. /\ program = "websim" /\ HasOptions /\ UNCHANGED <<program, argv, opts>>
        /\ optind <= Len(argv) /\ Word \notin DOMAIN Kind[program] /\ outcome = "parsing"
    BY <1>4, TheOptions DEF WebsimUnknown, Reading, HasOptions, Ends
  <2>2. /\ optind \in Positions /\ Len(argv) \in Nat /\ optind \in Stray
        /\ optind \notin NamesAt /\ ~HelpAt(optind)
    BY <2>1, NextWord DEF HelpAt
  <2>3. CASE Word = "--help"
    <3>1. outcome' = "exit" /\ optind' = optind
      BY <1>4, <2>3 DEF WebsimUnknown, Ends
    <3>2. Sound'
      BY <2>1, <3>1, StaysSound
    <3>3. Bad(optind)
      BY <2>2, <2>3 DEF Bad, Word
    <3>4. Bad(optind)' /\ ~HelpAt(optind)' /\ optind' \in Positions'
      BY <2>1, <2>2, <3>1, <3>3, SameLine DEF Bad, HelpAt, Stray
    <3> QED
      BY <2>1, <2>2, <3>1, <3>2, <3>4 DEF CmdInv, Ended
  <2>4. CASE Word # "--help"
    <3>1. optind' = optind + 1 /\ outcome' = outcome
      BY <1>4, <2>4 DEF WebsimUnknown
    <3>2. ~Bad(optind)
      BY <2>1, <2>2, <2>4 DEF Bad, Word
    <3>3. Sound'
      BY <2>1, <2>2, <3>1, <3>2, PassesOver
    <3> QED
      BY <2>1, <2>2, <3>1, <3>3 DEF CmdInv, Ended
  <2> QED
    BY <2>3, <2>4
<1>5. CASE LoaderHelp
  <2>1. /\ program = "loadgenerator" /\ HasOptions /\ outcome' = "running"
        /\ UNCHANGED <<program, argv, optind, opts>> /\ optind <= Len(argv)
        /\ Word = "--help" /\ Word \notin DOMAIN Kind[program]
    BY <1>5, TheOptions DEF LoaderHelp, Reading, HasOptions, Ends
  <2>2. Sound'
    BY <2>1, StaysSound
  <2>3. Len(argv) \in Nat /\ HelpAt(optind)
    BY <2>1, NextWord DEF HelpAt, Word
  <2>4. HelpAt(optind)'
    BY <2>1, <2>3, SameLine DEF HelpAt
  <2> QED
    BY <2>1, <2>2, <2>3, <2>4 DEF CmdInv, Ended
<1>6. CASE LoaderUnknown
  <2>1. /\ program = "loadgenerator" /\ HasOptions /\ outcome' = "exit"
        /\ UNCHANGED <<program, argv, optind, opts>> /\ optind <= Len(argv)
        /\ Word # "--help" /\ Word \notin DOMAIN Kind[program]
    BY <1>6, TheOptions DEF LoaderUnknown, Reading, HasOptions, Ends
  <2>2. Sound'
    BY <2>1, StaysSound
  <2>3. optind \in Positions /\ Len(argv) \in Nat /\ optind \in Stray
    BY <2>1, NextWord
  <2>4. Bad(optind) /\ ~HelpAt(optind)
    BY <2>1, <2>3 DEF Bad, HelpAt, Word
  <2>5. Bad(optind)' /\ ~HelpAt(optind)' /\ optind' \in Positions'
    BY <2>1, <2>3, <2>4, SameLine DEF Bad, HelpAt, Stray
  <2> QED
    BY <2>1, <2>2, <2>3, <2>5 DEF CmdInv, Ended
<1>7. CASE LoaderRuns
  <2>1. /\ program = "loadgenerator" /\ HasOptions /\ outcome' = "running"
        /\ UNCHANGED <<program, argv, optind, opts>> /\ optind > Len(argv)
    BY <1>7, TheOptions DEF LoaderRuns, Read, HasOptions, Ends
  <2>2. Sound'
    BY <2>1, StaysSound
  <2>3. Len(argv) \in Nat /\ optind = Len(argv) + 1
    BY <2>1 DEF CmdInv, Sound
  <2> QED
    BY <2>1, <2>2, <2>3 DEF CmdInv, Ended
<1>8. CASE WebsimRuns
  <2>1. /\ program = "websim" /\ HasOptions /\ BuildsSamplers
        /\ outcome' = IF opts["--service_time_dist"] \in Dists THEN "running" ELSE "exit"
        /\ UNCHANGED <<program, argv, optind, opts>> /\ optind > Len(argv)
    BY <1>8, TheOptions DEF WebsimRuns, Read, HasOptions, Ends, Dists
  <2>2. Sound'
    BY <2>1, StaysSound
  <2>3. Len(argv) \in Nat /\ optind = Len(argv) + 1
    BY <2>1 DEF CmdInv, Sound
  <2>4. timeout_dist' = sampler("uniform", opts["--timeout_lower"], opts["--timeout_upper"])
    BY <2>1 DEF BuildsSamplers
  <2>5. ASSUME opts["--service_time_dist"] \in Dists
        PROVE  /\ service_dist'.type = opts["--service_time_dist"]
               /\ opts["--service_time_avg"] =
                    IF service_dist'.type = "uniform" THEN service_dist'.p2 ELSE service_dist'.p1
    BY <2>1, <2>5 DEF BuildsSamplers, sampler, Dists
  <2> QED
    BY <2>1, <2>2, <2>3, <2>4, <2>5 DEF CmdInv, Ended
<1> QED
  BY <1>1, <1>2, <1>3, <1>4, <1>5, <1>6, <1>7, <1>8 DEF Next, CmdNext, vars

\* Reading stops where Ended says.
LEMMA StopsThere ==
  ASSUME CmdInv, HasOptions
  PROVE  /\ Stop \in Nat /\ Stop <= Len(argv) + 1
         /\ \A k \in Positions : k < optind => k < Stop
         /\ outcome = "running" => Stop = optind
         /\ optind \in Positions /\ ~HelpAt(optind) => optind < Stop
<1> DEFINE Stops == {Len(argv) + 1} \cup {k \in Stray : program = "loadgenerator" /\ argv[k] = "--help"}
<1>1. Len(argv) \in Nat /\ optind \in 1 .. Len(argv) + 1 /\ Sound /\ Ended
  BY DEF CmdInv, Sound
<1>2. Stops \subseteq Nat /\ Stops # {} /\ Len(argv) + 1 \in Stops
  BY <1>1 DEF Stray, Positions
<1>3. \A k \in Stops : k = Len(argv) + 1 \/ (HelpAt(k) /\ k \in Positions)
  BY DEF HelpAt, Stray
<1>4. \A k \in Stops : optind <= k
  BY <1>1, <1>2, <1>3 DEF Sound, Positions
<1>5. Stop = Min(Stops)
  BY DEF Stop
<1> HIDE DEF Stops
<1>6. Stop \in Stops /\ \A k \in Stops : Stop <= k
  BY <1>2, <1>5, LeastNatural
<1>7. outcome = "running" => optind \in Stops
  BY <1>1 DEF Ended, HelpAt, Stops
<1>8. outcome = "running" => Stop = optind
  BY <1>1, <1>2, <1>4, <1>6, <1>7
<1>9. optind \in Positions /\ ~HelpAt(optind) => optind \notin Stops
  BY <1>1, <1>3 DEF Positions
<1> QED
  BY <1>1, <1>2, <1>4, <1>6, <1>8, <1>9 DEF Positions

\* What an option was told before the end of a line without a bad word.
LEMMA ToldIsValue ==
  ASSUME CmdInv, HasOptions, NEW o \in DOMAIN Kind[program], Stop = optind
  PROVE  Told(o) = opts[o]
<1> DEFINE given == {k \in NamesAt : argv[k] = o /\ k < Stop /\ k < Len(argv)}
<1>1. Len(argv) \in Nat /\ optind \in 1 .. Len(argv) + 1 /\ Sound
  BY DEF CmdInv, Sound
<1>2. \A k \in NamesAt : k < optind => k \in Nat /\ k \in Positions /\ k < Len(argv)
  <2> SUFFICES ASSUME NEW k \in NamesAt, k < optind PROVE k \in Positions /\ k # Len(argv)
    BY <1>1 DEF Positions
  <2>1. k \in Positions
    BY <1>1, NamesRight
  <2> QED
    BY <1>1, <2>1 DEF Sound, Bad
<1>3. given = Given(o, optind)
  BY <1>2 DEF Given
<1>4. ToldBefore(o, optind)
  BY <1>1 DEF Sound
<1>5. Told(o) = IF given = {} THEN Default[program][o]
                ELSE Value(Kind[program][o], argv[Max(given) + 1])
  BY DEF Told
<1> HIDE DEF given
<1>6. CASE given = {}
  BY <1>3, <1>4, <1>5, <1>6 DEF ToldBefore
<1>7. CASE given # {}
  <2>1. PICK m \in given : /\ \A k \in given : k <= m
                           /\ opts[o] = Value(Kind[program][o], argv[m + 1])
    BY <1>3, <1>4, <1>7 DEF ToldBefore
  <2>2. \A k \in given : k \in Nat
    BY <1>2, <1>3 DEF Given
  <2>3. Max(given) = m
    <3>1. \A x \in given : (\A y \in given : x >= y) => x = m
      BY <2>1, <2>2
    <3>2. m \in given /\ \A y \in given : m >= y
      BY <2>1, <2>2
    <3> QED
      BY <3>1, <3>2 DEF Max
  <2> QED
    BY <1>5, <1>7, <2>1, <2>3
<1> QED
  BY <1>6, <1>7

LEMMA CmdInvSafe == CmdInv => RunsAsTold /\ RunsIfSound /\ SamplersAsTold
<1> SUFFICES ASSUME CmdInv, HasOptions PROVE RunsAsTold /\ RunsIfSound /\ SamplersAsTold
  BY TheOptions DEF RunsAsTold, RunsIfSound, SamplersAsTold, HasOptions
<1>1. Sound /\ Ended /\ Len(argv) \in Nat /\ optind \in 1 .. Len(argv) + 1
  BY DEF CmdInv, Sound
<1>2. Stop = optind => \A o \in DOMAIN Kind[program] : Told(o) = opts[o]
  BY ToldIsValue
<1>3. program = "websim" =>
        /\ {"--service_time_dist", "--service_time_avg", "--timeout_lower", "--timeout_upper"}
             \subseteq DOMAIN Kind[program]
        /\ Stop = Len(argv) + 1
  <2> SUFFICES ASSUME program = "websim" PROVE Stop = Len(argv) + 1
    BY TheOptions
  <2>1. \A k \in {Len(argv) + 1} \cup {k \in Stray : program = "loadgenerator" /\ argv[k] = "--help"} :
          k = Len(argv) + 1
    OBVIOUS
  <2>2. {Len(argv) + 1} \cup {k \in Stray : program = "loadgenerator" /\ argv[k] = "--help"}
          = {Len(argv) + 1}
    BY <2>1
  <2> QED
    BY <1>1, <2>2 DEF Stop, Min
<1>4. RunsAsTold
  BY <1>2, StopsThere DEF RunsAsTold
<1>5. SamplersAsTold
  BY <1>1, <1>2, <1>3, StopsThere DEF SamplersAsTold, Ended
<1>6. RunsIfSound
  <2>1. CASE outcome = "running"
    <3>1. Stop = optind
      BY <2>1, StopsThere
    <3>2. \A k \in Positions : k < Stop => ~Bad(k)
      BY <1>1, <3>1 DEF Sound
    <3> QED
      BY <1>1, <1>2, <1>3, <2>1, <3>1, <3>2 DEF RunsIfSound, Ended, Dists
  <2>2. CASE outcome \in {"exit", "abort"}
    <3>1. CASE optind \in Positions /\ Bad(optind) /\ ~HelpAt(optind)
      <4>1. optind < Stop
        BY <3>1, StopsThere
      <4> QED
        BY <2>2, <3>1, <4>1 DEF RunsIfSound
    <3>2. CASE /\ program = "websim" /\ optind = Len(argv) + 1
               /\ opts["--service_time_dist"] \notin Dists
      <4>1. Told("--service_time_dist") = opts["--service_time_dist"]
        BY <1>2, <1>3, <3>2
      <4> QED
        BY <2>2, <3>2, <4>1 DEF RunsIfSound, Dists
    <3> QED
      BY <1>1, <2>2, <3>1, <3>2 DEF Ended
  <2> QED
    BY <2>1, <2>2 DEF CmdInv, RunsIfSound
<1> QED
  BY <1>4, <1>5, <1>6

\* A program runs with what its command line says, each option as it was given
\* last, for lines of any length (param_setter, the loop over getopt_long).
THEOREM OptionsAreTold == Spec => []RunsAsTold
<1>1. CmdInv => RunsAsTold
  BY CmdInvSafe
<1> QED
  BY <1>1, CmdStarts, CmdSteps, PTL DEF Spec

\* It runs if and only if every word up to where it stops reading has a
\* meaning (param_setter, main of websim).
THEOREM OnlySoundLinesRun == Spec => []RunsIfSound
<1>1. CmdInv => RunsIfSound
  BY CmdInvSafe
<1> QED
  BY <1>1, CmdStarts, CmdSteps, PTL DEF Spec

\* The samplers of the simulator are built from the options as they are in the
\* end (main.cpp:114 to 124).
THEOREM SamplersAreTold == Spec => []SamplersAsTold
<1>1. CmdInv => SamplersAsTold
  BY CmdInvSafe
<1> QED
  BY <1>1, CmdStarts, CmdSteps, PTL DEF Spec
=============================================================================
