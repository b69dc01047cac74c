-------------------------- MODULE Counting_proofs --------------------------
(***************************************************************************)
(* Lemmas about numbers and finite sets that the proofs about several      *)
(* programs need: least numbers, sums over a finite set, which are counted *)
(* as the pairs of an element and a number up to its value, and functions  *)
(* defined by recursion on the natural numbers.                            *)
(***************************************************************************)
EXTENDS FiniteSetsExt, FiniteSetTheorems, TLAPS

\* Every set of natural numbers that is not empty has a least one: of the sets
\* of smaller numbers one is minimal.
LEMMA LeastNatural ==
  ASSUME NEW S, S \subseteq Nat, S # {}
  PROVE  Min(S) \in S /\ \A y \in S : Min(S) <= y
<1> DEFINE Upto(x) == 0 .. x
           All == {Upto(x) : x \in S}
<1>1. All \subseteq FiniteSubsetsOf(Nat) /\ All # {}
  <2>1. \A x \in S : Upto(x) \in SUBSET Nat /\ IsFiniteSet(Upto(x))
    <3> TAKE x \in S
    <3>1. x \in Int /\ 0 \in Int
      OBVIOUS
    <3>2. IsFiniteSet(0 .. x)
      BY <3>1, FS_Interval
    <3> QED
      BY <3>1, <3>2
  <2> QED
    BY <2>1 DEF FiniteSubsetsOf
<1>2. PICK m \in All : \A s \in All : ~(<<s, m>> \in StrictSubsetOrdering(Nat))
  <2> HIDE DEF All
  <2>1. IsWellFoundedOn(StrictSubsetOrdering(Nat), FiniteSubsetsOf(Nat))
    BY FS_StrictSubsetOrderingWellFounded
  <2> QED
    BY <1>1, <2>1, WFMin
<1>3. PICK x \in S : m = Upto(x)
  OBVIOUS
<1>4. \A y \in S : x <= y
  <2> SUFFICES ASSUME NEW y \in S, y < x PROVE FALSE
    OBVIOUS
  <2>1. Upto(y) \in All
    OBVIOUS
  <2>2. Upto(y) \in SUBSET Nat /\ m \in SUBSET Nat /\ Upto(y) \subseteq m
    BY <1>3
  <2>3. x \in m /\ x \notin Upto(y)
    BY <1>3
  <2> HIDE DEF All, Upto
  <2>4. <<Upto(y), m>> \in StrictSubsetOrdering(Nat)
    BY <2>2, <2>3 DEF StrictSubsetOrdering
  <2> QED
    BY <1>2, <2>1, <2>4
<1> QED
  BY <1>4 DEF Min

\* Of some subsets of a finite set one has no other just below it.
LEMMA MinimalSubset ==
  ASSUME NEW C, IsFiniteSet(C), NEW B, B \subseteq SUBSET C, B # {}
  PROVE  \E m \in B : \A x \in m : m \ {x} \notin B
<1>1. B \subseteq FiniteSubsetsOf(C)
  <2>1. \A T \in SUBSET C : IsFiniteSet(T)
    BY FS_Subset
  <2> QED
    BY <2>1 DEF FiniteSubsetsOf
<1>2. PICK m \in B : \A s \in B : ~(<<s, m>> \in StrictSubsetOrdering(C))
  <2>1. IsWellFoundedOn(StrictSubsetOrdering(C), FiniteSubsetsOf(C))
    BY FS_StrictSubsetOrderingWellFounded
  <2> QED
    BY <1>1, <2>1, WFMin
<1>3. \A x \in m : <<m \ {x}, m>> \in StrictSubsetOrdering(C)
  BY DEF StrictSubsetOrdering
<1> QED
  BY <1>2, <1>3

-----------------------------------------------------------------------------
(* Sums. *)

Pairs(C, f) == {p \in C \X Nat : 1 <= p[2] /\ p[2] <= f[p[1]]}

LEMMA PairsNone ==
  ASSUME NEW C, NEW f, \A c \in C : f[c] = 0
  PROVE  Pairs(C, f) = {} /\ IsFiniteSet(Pairs(C, f)) /\ Cardinality(Pairs(C, f)) = 0
<1>1. Pairs(C, f) = {}
  BY DEF Pairs
<1> QED
  BY <1>1, FS_EmptySet

LEMMA PairsOneMore ==
  ASSUME NEW C, NEW f, NEW g, NEW c \in C, \A d \in C : f[d] \in Nat, IsFiniteSet(Pairs(C, f)),
         g[c] = f[c] + 1, \A d \in C \ {c} : g[d] = f[d]
  PROVE  /\ IsFiniteSet(Pairs(C, g))
         /\ Cardinality(Pairs(C, g)) = Cardinality(Pairs(C, f)) + 1
<1> DEFINE x == <<c, f[c] + 1>>
<1>1. x \in C \X Nat /\ x[1] = c /\ x[2] = f[c] + 1
  OBVIOUS
<1>2. x \notin Pairs(C, f) /\ x \in Pairs(C, g)
  BY <1>1 DEF Pairs
<1>3. \A p \in C \X Nat : p \in Pairs(C, g) <=> p \in Pairs(C, f) \/ p = x
  <2> TAKE p \in C \X Nat
  <2>1. p = <<p[1], p[2]>> /\ p[1] \in C /\ p[2] \in Nat
    OBVIOUS
  <2>2. CASE p[1] = c
    <3>1. p = x <=> p[2] = f[c] + 1
      BY <2>1, <2>2
    <3> QED
      BY <2>1, <2>2, <3>1 DEF Pairs
  <2>3. CASE p[1] # c
    <3>1. p # x
      BY <1>1, <2>3
    <3> QED
      BY <2>1, <2>3, <3>1 DEF Pairs
  <2> QED
    BY <2>2, <2>3
<1>4. Pairs(C, g) = Pairs(C, f) \cup {x}
  <2>1. Pairs(C, g) \subseteq C \X Nat /\ Pairs(C, f) \subseteq C \X Nat
    BY DEF Pairs
  <2> HIDE DEF x
  <2> QED
    BY <1>1, <1>3, <2>1
<1> HIDE DEF x
<1>5. /\ IsFiniteSet(Pairs(C, f) \cup {x})
      /\ Cardinality(Pairs(C, f) \cup {x}) = Cardinality(Pairs(C, f)) + 1
  BY <1>2, FS_AddElement
<1> QED
  BY <1>4, <1>5

LEMMA PairsWithout ==
  ASSUME NEW C, NEW f, NEW c \in C, \A d \in C : f[d] \in Nat, IsFiniteSet(Pairs(C, f))
  PROVE  /\ IsFiniteSet(Pairs(C \ {c}, f))
         /\ Cardinality(Pairs(C \ {c}, f)) = Cardinality(Pairs(C, f)) - f[c]
<1> DEFINE mine == {c} \X (1 .. f[c])
<1>1. f[c] \in Nat
  OBVIOUS
<1>2. IsFiniteSet(mine) /\ Cardinality(mine) = f[c]
  <2>1. IsFiniteSet(1 .. f[c]) /\ Cardinality(1 .. f[c]) = f[c]
    <3>1. 0 \in Int /\ 1 \in Int /\ f[c] \in Int /\ (1 > f[c] => f[c] = 0)
      BY <1>1
    <3>2. IsFiniteSet(1 .. f[c]) /\ Cardinality(1 .. f[c]) = IF 1 > f[c] THEN 0 ELSE f[c] - 1 + 1
      BY <3>1, FS_Interval
    <3> QED
      BY <1>1, <3>1, <3>2
  <2>2. IsFiniteSet({c}) /\ Cardinality({c}) = 1
    BY FS_Singleton
  <2>3. \A S, T : IsFiniteSet(S) /\ IsFiniteSet(T) =>
          IsFiniteSet(S \X T) /\ Cardinality(S \X T) = Cardinality(S) * Cardinality(T)
    BY FS_Product
  <2>4. IsFiniteSet(mine) /\ Cardinality(mine) = Cardinality({c}) * Cardinality(1 .. f[c])
    BY <2>1, <2>2, <2>3, Zenon
  <2>5. Cardinality({c}) * Cardinality(1 .. f[c]) = f[c]
    BY <1>1, <2>1, <2>2
  <2> QED
    BY <2>4, <2>5, Zenon
<1>3. Pairs(C, f) \cap mine = mine
  <2>1. \A p \in mine : p \in Pairs(C, f)
    BY <1>1 DEF Pairs
  <2> QED
    BY <2>1
<1>4. Pairs(C \ {c}, f) = Pairs(C, f) \ mine
  <2>1. \A p \in C \X Nat : p \in mine <=> p[1] = c /\ 1 <= p[2] /\ p[2] <= f[c]
    BY <1>1
  <2> QED
    BY <2>1 DEF Pairs
<1> HIDE DEF mine
<1>5. /\ IsFiniteSet(Pairs(C, f) \ mine)
      /\ Cardinality(Pairs(C, f) \ mine) = Cardinality(Pairs(C, f)) - Cardinality(Pairs(C, f) \cap mine)
  BY FS_Difference
<1> QED
  BY <1>2, <1>3, <1>4, <1>5

LEMMA PairsBound ==
  ASSUME NEW n \in Nat, NEW k \in Nat, NEW f, \A c \in 1 .. n : f[c] \in Nat /\ f[c] <= k
  PROVE  /\ IsFiniteSet(Pairs(1 .. n, f))
         /\ Cardinality(Pairs(1 .. n, f)) <= n * k
<1>1. IsFiniteSet(1 .. n) /\ Cardinality(1 .. n) = n
  BY FS_Interval
<1>2. IsFiniteSet(1 .. k) /\ Cardinality(1 .. k) = k
  BY FS_Interval
<1>3. IsFiniteSet((1 .. n) \X (1 .. k)) /\ Cardinality((1 .. n) \X (1 .. k)) = n * k
  <2>1. \A S, T : IsFiniteSet(S) /\ IsFiniteSet(T) =>
          IsFiniteSet(S \X T) /\ Cardinality(S \X T) = Cardinality(S) * Cardinality(T)
    BY FS_Product
  <2>2. /\ IsFiniteSet((1 .. n) \X (1 .. k))
        /\ Cardinality((1 .. n) \X (1 .. k)) = Cardinality(1 .. n) * Cardinality(1 .. k)
    BY <1>1, <1>2, <2>1, Zenon
  <2> QED
    BY <1>1, <1>2, <2>2, Zenon
<1>4. Pairs(1 .. n, f) \in SUBSET ((1 .. n) \X (1 .. k))
  <2>1. \A p \in Pairs(1 .. n, f) : p \in (1 .. n) \X (1 .. k)
    BY DEF Pairs
  <2> QED
    BY <2>1, Zenon
<1>5. /\ IsFiniteSet(Pairs(1 .. n, f))
      /\ Cardinality(Pairs(1 .. n, f)) <= Cardinality((1 .. n) \X (1 .. k))
  BY <1>3, <1>4, FS_Subset, Zenon
<1> QED
  BY <1>3, <1>5, Zenon

LEMMA PairsFinite ==
  ASSUME NEW C, IsFiniteSet(C), NEW f, \A c \in C : f[c] \in Nat
  PROVE  IsFiniteSet(Pairs(C, f))
<1> DEFINE Wrong == {T \in SUBSET C : ~IsFiniteSet(Pairs(T, f))}
<1> SUFFICES ASSUME Wrong # {} PROVE FALSE
  OBVIOUS
<1>1. PICK m \in Wrong : \A x \in m : m \ {x} \notin Wrong
  <2>1. Wrong \subseteq SUBSET C
    OBVIOUS
  <2> HIDE DEF Wrong
  <2> QED
    BY <2>1, MinimalSubset
<1>2. Pairs({}, f) = {}
  BY DEF Pairs
<1>3. PICK x \in m : TRUE
  BY <1>1, <1>2, FS_EmptySet
<1>4. IsFiniteSet(Pairs(m \ {x}, f))
  BY <1>1
<1>5. Pairs(m, f) = Pairs(m \ {x}, f) \cup ({x} \X (1 .. f[x]))
  <2>1. \A p \in Pairs(m, f) : p \in Pairs(m \ {x}, f) \cup ({x} \X (1 .. f[x]))
    BY DEF Pairs
  <2>2. \A p \in {x} \X (1 .. f[x]) : p \in Pairs(m, f)
    BY DEF Pairs
  <2>3. \A p \in Pairs(m \ {x}, f) : p \in Pairs(m, f)
    BY DEF Pairs
  <2> QED
    BY <2>1, <2>2, <2>3
<1>6. IsFiniteSet({x} \X (1 .. f[x]))
  <2>1. 1 \in Int /\ f[x] \in Int
    BY <1>1, <1>3
  <2>2. IsFiniteSet({x}) /\ IsFiniteSet(1 .. f[x])
    BY <2>1, FS_Singleton, FS_Interval
  <2> QED
    BY <2>2, FS_Product
<1>7. IsFiniteSet(Pairs(m, f))
  <2> DEFINE S == Pairs(m \ {x}, f)
             T == {x} \X (1 .. f[x])
  <2>1. IsFiniteSet(S) /\ IsFiniteSet(T) /\ Pairs(m, f) = S \cup T
    BY <1>4, <1>5, <1>6
  <2> HIDE DEF S, T
  <2>2. IsFiniteSet(S \cup T)
    BY <2>1, FS_Union
  <2> QED
    BY ONLY <2>1, <2>2
<1> QED
  BY <1>1, <1>7

LEMMA PairsSame ==
  ASSUME NEW C, NEW f, NEW g, \A c \in C : g[c] = f[c] PROVE Pairs(C, g) = Pairs(C, f)
<1>1. \A p \in C \X Nat : p[1] \in C
  OBVIOUS
<1> QED
  BY <1>1 DEF Pairs

\* Elements without a value do not count.
LEMMA PairsGrown ==
  ASSUME NEW C, NEW D, C \subseteq D, NEW f, NEW g,
         \A c \in C : g[c] = f[c], \A c \in D \ C : g[c] = 0
  PROVE  Pairs(D, g) = Pairs(C, f)
<1>1. \A p \in Pairs(D, g) : p \in Pairs(C, f)
  BY DEF Pairs
<1>2. \A p \in Pairs(C, f) : p \in Pairs(D, g)
  BY DEF Pairs
<1> QED
  BY <1>1, <1>2

\* When one value changes the sum changes by the difference.
LEMMA PairsChanged ==
  ASSUME NEW C, IsFiniteSet(C), NEW f, NEW g, NEW c \in C,
         \A d \in C : f[d] \in Nat /\ g[d] \in Nat, \A d \in C \ {c} : g[d] = f[d]
  PROVE  Cardinality(Pairs(C, g)) + f[c] = Cardinality(Pairs(C, f)) + g[c]
<1>1. IsFiniteSet(Pairs(C, f)) /\ IsFiniteSet(Pairs(C, g))
  BY PairsFinite
<1>2. /\ Cardinality(Pairs(C \ {c}, f)) = Cardinality(Pairs(C, f)) - f[c]
      /\ Cardinality(Pairs(C \ {c}, g)) = Cardinality(Pairs(C, g)) - g[c]
  BY <1>1, PairsWithout
<1>3. Pairs(C \ {c}, g) = Pairs(C \ {c}, f)
  BY PairsSame
<1>4. /\ Cardinality(Pairs(C, f)) \in Nat /\ Cardinality(Pairs(C, g)) \in Nat
      /\ f[c] \in Nat /\ g[c] \in Nat
  BY <1>1, FS_CardinalityType
<1> QED
  BY <1>2, <1>3, <1>4

\* sum[s] adds f over s, for the parts s of C, element by element.
AddsUp(sum, C, f) ==
  sum = [s \in SUBSET C |->
           IF s = {} THEN 0
           ELSE f[CHOOSE x \in s : TRUE] + sum[s \ {CHOOSE x \in s : TRUE}]]

\* A sum taken element by element is the number of pairs, and there is one.
LEMMA SumsExist ==
  ASSUME NEW C, IsFiniteSet(C), NEW f, \A c \in C : f[c] \in Nat
  PROVE  \E sum : AddsUp(sum, C, f)
<1> DEFINE count == [s \in SUBSET C |-> Cardinality(Pairs(s, f))]
<1>1. ASSUME NEW s \in SUBSET C, s # {}, NEW x, x = CHOOSE y \in s : TRUE
      PROVE  count[s] = f[x] + count[s \ {x}]
  <2>1. x \in s
    BY <1>1
  <2>2. IsFiniteSet(Pairs(s, f)) /\ f[x] \in Nat /\ Cardinality(Pairs(s, f)) \in Nat
    BY <2>1, FS_Subset, PairsFinite, FS_CardinalityType
  <2>3. Cardinality(Pairs(s \ {x}, f)) = Cardinality(Pairs(s, f)) - f[x]
    BY <2>1, <2>2, PairsWithout
  <2> QED
    BY <2>2, <2>3
<1>2. count[{}] = 0
  BY FS_EmptySet DEF Pairs
<1>3. count = [s \in SUBSET C |->
        IF s = {} THEN 0 ELSE f[CHOOSE x \in s : TRUE] + count[s \ {CHOOSE x \in s : TRUE}]]
  <2>1. count = [s \in SUBSET C |-> count[s]]
    OBVIOUS
  <2> HIDE DEF count
  <2> QED
    BY <1>1, <1>2, <2>1
<1> QED
  BY <1>3 DEF AddsUp

LEMMA SumIsCount ==
  ASSUME NEW C, IsFiniteSet(C), NEW f, \A c \in C : f[c] \in Nat,
         NEW sum, AddsUp(sum, C, f)
  PROVE  sum[C] = Cardinality(Pairs(C, f))
<1> DEFINE Wrong == {s \in SUBSET C : sum[s] # Cardinality(Pairs(s, f))}
<1> SUFFICES ASSUME Wrong # {} PROVE FALSE
  OBVIOUS
<1>1. PICK m \in Wrong : \A x \in m : m \ {x} \notin Wrong
  <2>1. Wrong \subseteq SUBSET C
    OBVIOUS
  <2> HIDE DEF Wrong
  <2> QED
    BY <2>1, MinimalSubset
<1>2. m # {}
  <2>1. sum[{}] = 0 /\ Pairs({}, f) = {}
    BY DEF Pairs, AddsUp
  <2> QED
    BY <1>1, <2>1, FS_EmptySet
<1>3. PICK x \in m : x = CHOOSE y \in m : TRUE
  BY <1>2
<1>4. sum[m] = f[x] + sum[m \ {x}]
  BY <1>1, <1>2, <1>3 DEF AddsUp
<1>5. sum[m \ {x}] = Cardinality(Pairs(m \ {x}, f))
  BY <1>1, <1>3
<1>6. IsFiniteSet(Pairs(m, f)) /\ Cardinality(Pairs(m, f)) \in Nat /\ f[x] \in Nat
  <2>1. m \in SUBSET C /\ x \in C /\ \A c \in m : f[c] \in Nat
    BY <1>1, <1>3
  <2>2. IsFiniteSet(m)
    BY <2>1, FS_Subset
  <2>3. IsFiniteSet(Pairs(m, f))
    BY <2>1, <2>2, PairsFinite
  <2> QED
    BY <2>1, <2>3, FS_CardinalityType
<1>7. Cardinality(Pairs(m \ {x}, f)) = Cardinality(Pairs(m, f)) - f[x]
  <2>1. \A c \in m : f[c] \in Nat
    BY <1>1
  <2> HIDE DEF Wrong
  <2> QED
    BY ONLY <1>3, <1>6, <2>1, PairsWithout
<1> QED
  BY <1>1, <1>4, <1>5, <1>6, <1>7

-----------------------------------------------------------------------------
(* Recursion. *)

\* Induction, for a set.
LEMMA Induction ==
  ASSUME NEW S, 0 \in S, \A i \in Nat : i \in S => i + 1 \in S
  PROVE  \A i \in Nat : i \in S
<1> DEFINE Wrong == Nat \ S
<1> SUFFICES ASSUME Wrong # {} PROVE FALSE
  OBVIOUS
<1>1. Wrong \subseteq Nat
  OBVIOUS
<1>2. Min(Wrong) \in Wrong /\ \A y \in Wrong : Min(Wrong) <= y
  <2> HIDE DEF Wrong
  <2> QED
    BY <1>1, LeastNatural
<1>3. PICK m \in Wrong : \A y \in Wrong : m <= y
  <2> HIDE DEF Wrong
  <2> QED
    BY <1>2
<1>4. m \in Nat /\ m # 0
  OBVIOUS
<1>5. m - 1 \in Nat /\ m - 1 \notin Wrong
  BY <1>3, <1>4
<1> QED
  BY <1>4, <1>5

\* The first k + 1 values of the function that is a at 0 and goes on with h.
Chain(a, h, k, g) ==
  /\ DOMAIN g = 0 .. k /\ g[0] = a /\ \A i \in 0 .. k : g[i] \in Nat
  /\ \A i \in 1 .. k : g[i] = h[<<i, g[i - 1]>>]

LEMMA ChainsExist ==
  ASSUME NEW a \in Nat, NEW h \in [Nat \X Nat -> Nat]
  PROVE  \A k \in Nat : \E g : Chain(a, h, k, g)
<1> DEFINE S == {k \in Nat : \E g : Chain(a, h, k, g)}
<1>1. 0 \in S
  <2>1. Chain(a, h, 0, [i \in 0 .. 0 |-> a])
    BY DEF Chain
  <2> QED
    BY <2>1
<1>2. ASSUME NEW k \in Nat, k \in S PROVE k + 1 \in S
  <2>1. PICK g : Chain(a, h, k, g)
    BY <1>2
  <2> DEFINE next == [i \in 0 .. k + 1 |-> IF i = k + 1 THEN h[<<k + 1, g[k]>>] ELSE g[i]]
  <2>2. g[k] \in Nat /\ h[<<k + 1, g[k]>>] \in Nat
    BY <2>1 DEF Chain
  <2>3. /\ DOMAIN next = 0 .. k + 1 /\ next[k + 1] = h[<<k + 1, g[k]>>]
        /\ \A i \in 0 .. k : next[i] = g[i]
    OBVIOUS
  <2> HIDE DEF next
  <2>4. \A i \in 0 .. k + 1 : next[i] \in Nat
    <3>1. \A i \in 0 .. k + 1 : i = k + 1 \/ i \in 0 .. k
      OBVIOUS
    <3> QED
      BY <2>1, <2>2, <2>3, <3>1 DEF Chain
  <2>5. \A i \in 1 .. k + 1 : next[i] = h[<<i, next[i - 1]>>]
    <3> TAKE i \in 1 .. k + 1
    <3>1. CASE i = k + 1
      BY <2>3, <3>1
    <3>2. CASE i # k + 1
      <4>1. i \in 1 .. k /\ i \in 0 .. k /\ i - 1 \in 0 .. k
        BY <3>2
      <4> QED
        BY <2>1, <2>3, <4>1 DEF Chain
    <3> QED
      BY <3>1, <3>2
  <2>6. next[0] = a
    BY <2>1, <2>3 DEF Chain
  <2>7. Chain(a, h, k + 1, next)
    BY <2>3, <2>4, <2>5, <2>6 DEF Chain
  <2> QED
    BY <2>7
<1> HIDE DEF S
<1>3. \A k \in Nat : k \in S
  BY <1>1, <1>2, Induction
<1> QED
  BY <1>3 DEF S

LEMMA ChainsAgree ==
  ASSUME NEW a \in Nat, NEW h, NEW k \in Nat, NEW l \in Nat, NEW f, NEW g,
         Chain(a, h, k, f), Chain(a, h, l, g)
  PROVE  \A i \in Nat : i <= k /\ i <= l => f[i] = g[i]
<1> DEFINE S == {i \in Nat : i <= k /\ i <= l => f[i] = g[i]}
<1>1. 0 \in S
  BY DEF Chain
<1>2. ASSUME NEW i \in Nat, i \in S PROVE i + 1 \in S
  <2> SUFFICES ASSUME i + 1 <= k, i + 1 <= l PROVE f[i + 1] = g[i + 1]
    OBVIOUS
  <2>1. i + 1 \in 1 .. k /\ i + 1 \in 1 .. l /\ (i + 1) - 1 = i
    OBVIOUS
  <2>2. f[i] = g[i]
    BY <1>2
  <2>3. f[i + 1] = h[<<i + 1, f[(i + 1) - 1]>>] /\ g[i + 1] = h[<<i + 1, g[(i + 1) - 1]>>]
    BY <2>1 DEF Chain
  <2> QED
    BY <2>1, <2>2, <2>3
<1> HIDE DEF S
<1>3. \A i \in Nat : i \in S
  BY <1>1, <1>2, Induction
<1> QED
  BY <1>3 DEF S

LEMMA Recursion ==
  ASSUME NEW a \in Nat, NEW h \in [Nat \X Nat -> Nat]
  PROVE  \E f \in [Nat -> Nat] : f[0] = a /\ \A i \in Nat : f[i + 1] = h[<<i + 1, f[i]>>]
<1> DEFINE c(k) == CHOOSE g : Chain(a, h, k, g)
           f == [k \in Nat |-> c(k)[k]]
<1>1. \A k \in Nat : Chain(a, h, k, c(k))
  BY ChainsExist
<1> HIDE DEF c
<1>2. f \in [Nat -> Nat]
  BY <1>1 DEF Chain
<1>3. f[0] = a
  BY <1>1 DEF Chain
<1>4. ASSUME NEW i \in Nat PROVE f[i + 1] = h[<<i + 1, f[i]>>]
  <2>1. c(i + 1)[i + 1] = h[<<i + 1, c(i + 1)[i]>>]
    <3>1. i + 1 \in 1 .. i + 1 /\ (i + 1) - 1 = i /\ Chain(a, h, i + 1, c(i + 1))
      BY <1>1
    <3>2. c(i + 1)[i + 1] = h[<<i + 1, c(i + 1)[(i + 1) - 1]>>]
      BY <3>1 DEF Chain
    <3> QED
      BY <3>1, <3>2
  <2>2. c(i + 1)[i] = c(i)[i]
    <3>1. /\ Chain(a, h, i + 1, c(i + 1)) /\ Chain(a, h, i, c(i))
          /\ i + 1 \in Nat /\ i <= i + 1 /\ i <= i
      BY <1>1
    <3> QED
      BY <3>1, ChainsAgree
  <2> QED
    BY <2>1, <2>2
<1> HIDE DEF f
<1> QED
  BY <1>2, <1>3, <1>4

LEMMA SumUpto ==
  ASSUME NEW i \in Nat, NEW f, \A k \in 0 .. i : f[k] \in Nat
  PROVE  /\ Cardinality(Pairs(0 .. i, f)) \in Nat /\ Cardinality(Pairs(0 .. i - 1, f)) \in Nat
         /\ Cardinality(Pairs(0 .. i, f)) = Cardinality(Pairs(0 .. i - 1, f)) + f[i]
<1> DEFINE C == 0 .. i
<1>1. C \ {i} = 0 .. i - 1 /\ i \in C
  OBVIOUS
<1>2. IsFiniteSet(C)
  <2>1. 0 \in Int /\ i \in Int
    OBVIOUS
  <2> QED
    BY <2>1, FS_Interval
<1>3. \A k \in C : f[k] \in Nat
  OBVIOUS
<1> HIDE DEF C
<1>4. IsFiniteSet(Pairs(C, f))
  BY <1>2, <1>3, PairsFinite
<1>5. /\ IsFiniteSet(Pairs(C \ {i}, f))
      /\ Cardinality(Pairs(C \ {i}, f)) = Cardinality(Pairs(C, f)) - f[i]
  BY <1>1, <1>3, <1>4, PairsWithout
<1>6. Cardinality(Pairs(C, f)) \in Nat /\ Cardinality(Pairs(C \ {i}, f)) \in Nat /\ f[i] \in Nat
  BY <1>1, <1>3, <1>4, <1>5, FS_CardinalityType
<1>7. Cardinality(Pairs(C, f)) = Cardinality(Pairs(C \ {i}, f)) + f[i]
  BY <1>5, <1>6
<1> QED
  BY <1>1, <1>6, <1>7 DEF C

\* A sum whose terms after the first are c times those of another.
Scaled(m, c, f, g) ==
  g[0] \in Nat /\ \A k \in 0 .. m : f[k] \in Nat /\ g[k + 1] = c * f[k]

LEMMA SumScaled ==
  ASSUME NEW m \in Nat, NEW c \in Nat, NEW f, NEW g, Scaled(m, c, f, g)
  PROVE  Cardinality(Pairs(0 .. m + 1, g)) = g[0] + c * Cardinality(Pairs(0 .. m, f))
<1> DEFINE F(i) == Cardinality(Pairs(0 .. i - 1, f))
           G(i) == Cardinality(Pairs(0 .. i, g))
           S == {i \in Nat : i <= m + 1 => G(i) = g[0] + c * F(i)}
<1>0. g[0] \in Nat /\ \A k \in 0 .. m : f[k] \in Nat /\ g[k + 1] = c * f[k]
  BY DEF Scaled
<1>1. \A k \in 0 .. m + 1 : g[k] \in Nat
  <2> TAKE k \in 0 .. m + 1
  <2>1. CASE k # 0
    <3>1. k - 1 \in 0 .. m /\ (k - 1) + 1 = k
      BY <2>1
    <3>2. g[k] = c * f[k - 1] /\ f[k - 1] \in Nat
      BY <1>0, <3>1
    <3>3. \A x, y \in Nat : x * y \in Nat
      OBVIOUS
    <3> QED
      BY <3>2, <3>3
  <2> QED
    BY <1>0, <2>1
<1>2. 0 \in S
  <2>1. Pairs(0 .. 0 - 1, f) = {} /\ Pairs(0 .. 0 - 1, g) = {}
    BY DEF Pairs
  <2>2. F(0) = 0 /\ Cardinality(Pairs(0 .. 0 - 1, g)) = 0
    BY <2>1, FS_EmptySet
  <2>3. 0 \in Nat /\ \A k \in 0 .. 0 : g[k] \in Nat
    BY <1>0
  <2>4. G(0) = Cardinality(Pairs(0 .. 0 - 1, g)) + g[0]
    BY <2>3, SumUpto
  <2>5. G(0) = g[0]
    BY <1>0, <2>2, <2>4
  <2> HIDE DEF F, G
  <2> QED
    BY <1>0, <2>2, <2>5
<1>3. ASSUME NEW i \in Nat, i \in S PROVE i + 1 \in S
  <2> SUFFICES ASSUME i + 1 <= m + 1 PROVE G(i + 1) = g[0] + c * F(i + 1)
    OBVIOUS
  <2>1. (i + 1) - 1 = i /\ i + 1 \in Nat /\ i \in 0 .. m
    OBVIOUS
  <2>2. G(i + 1) \in Nat /\ G(i) \in Nat /\ G(i + 1) = G(i) + g[i + 1]
    <3>1. \A k \in 0 .. i + 1 : g[k] \in Nat
      BY <1>1
    <3> QED
      BY <2>1, <3>1, SumUpto
  <2>3. F(i + 1) \in Nat /\ F(i) \in Nat /\ F(i + 1) = F(i) + f[i]
    <3>1. \A k \in 0 .. i : f[k] \in Nat
      BY <1>0
    <3> QED
      BY <2>1, <3>1, SumUpto
  <2>4. G(i) = g[0] + c * F(i)
    BY <1>3
  <2>5. g[i + 1] = c * f[i] /\ f[i] \in Nat
    BY <1>0, <2>1
  <2> HIDE DEF F, G, S
  <2>6. c * F(i + 1) = c * F(i) + c * f[i]
    BY <2>3, <2>5
  <2> QED
    BY <1>0, <2>2, <2>3, <2>4, <2>5, <2>6
<1> HIDE DEF S
<1>4. m + 1 \in S
  BY <1>2, <1>3, Induction
<1>5. G(m + 1) = g[0] + c * F(m + 1)
  BY <1>4 DEF S
<1>6. (m + 1) - 1 = m
  OBVIOUS
<1> QED
  BY <1>5, <1>6
=============================================================================
