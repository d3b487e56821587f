-------------------------- MODULE FiniteInduction --------------------------
(***************************************************************************)
(* Induction over 0 .. N and over finite sets, and what follows from it:   *)
(* functions defined by recursion exist, sums over finite sets, greatest   *)
(* elements, powers of two.  The theorems of NaturalsInduction take an     *)
(* operator, these take the set of the numbers, or sets, with the          *)
(* property, so that the proofs about loops and sums can use them.         *)
(***************************************************************************)
EXTENDS Integers, Functions, FiniteSetTheorems, TLAPS

\* A non-empty set of natural numbers has a least element.
LEMMA LeastElement ==
  ASSUME NEW T, T \subseteq Nat, T # {}
  PROVE  \E x \in T : \A y \in T : x <= y
<1>1. IsWellFoundedOn(OpToRel(<, Nat), Nat)
  BY NatLessThanWellFounded
<1>2. PICK x \in T : \A y \in T : ~ (<<y, x>> \in OpToRel(<, Nat))
  BY <1>1, WFMin
<1>3. \A y \in T : ~ (y < x)
  BY <1>2 DEF OpToRel
<1>4. QED
  BY <1>3

\* A set that has 0 and, with each number below N, the next one, has all
\* the numbers up to N.
LEMMA UpToInduction ==
  ASSUME NEW N \in Nat, NEW T,
         0 \in T, \A i \in 0 .. N - 1 : i \in T => i + 1 \in T
  PROVE  \A i \in 0 .. N : i \in T
<1> DEFINE Missing == {i \in 0 .. N : i \notin T}
<1>1. SUFFICES ASSUME Missing # {} PROVE FALSE
  OBVIOUS
<1>2. PICK x \in Missing : \A y \in Missing : x <= y
  <2>1. Missing \subseteq Nat
    OBVIOUS
  <2> HIDE DEF Missing
  <2>2. QED
    BY <1>1, <2>1, LeastElement
<1>3. x # 0 /\ x - 1 \in 0 .. N - 1 /\ (x - 1) + 1 = x
  BY <1>2
<1>4. x - 1 \in T
  BY <1>2, <1>3
<1>5. QED
  BY <1>2, <1>3, <1>4

\* The values of a loop that begins with a and in whose i-th turn h makes the
\* next value from i and the value before.
Loop(f, N, S, a, h) ==
  /\ f \in [0 .. N -> S]
  /\ f = [i \in 0 .. N |-> IF i = 0 THEN a ELSE h[<<i, f[i - 1]>>]]

\* A loop has a value after each turn.
LEMMA LoopExists ==
  ASSUME NEW N \in Nat, NEW S, NEW a \in S, NEW h \in [(1 .. N) \X S -> S]
  PROVE  \E f : Loop(f, N, S, a, h)
<1> DEFINE Upto(n, f) == /\ f \in [0 .. n -> S]
                         /\ f[0] = a
                         /\ \A i \in 1 .. n : f[i] = h[<<i, f[i - 1]>>]
           T == {n \in 0 .. N : \E f : Upto(n, f)}
<1>1. 0 \in T
  <2>1. Upto(0, [i \in 0 .. 0 |-> a])
    OBVIOUS
  <2> HIDE DEF Upto
  <2>2. QED
    BY <2>1
<1>2. ASSUME NEW n \in 0 .. N - 1, n \in T
      PROVE  n + 1 \in T
  <2>1. PICK f : Upto(n, f)
    BY <1>2
  <2> DEFINE g == [i \in 0 .. n + 1 |-> IF i = n + 1 THEN h[<<n + 1, f[n]>>]
                                        ELSE f[i]]
  <2>2. f[n] \in S /\ h[<<n + 1, f[n]>>] \in S
    BY <2>1
  <2>3. g \in [0 .. n + 1 -> S] /\ g[0] = a
    BY <2>1, <2>2
  <2>4. ASSUME NEW i \in 1 .. n + 1
        PROVE  g[i] = h[<<i, g[i - 1]>>]
    <3>1. CASE i = n + 1
      <4>1. g[i] = h[<<n + 1, f[n]>>] /\ g[i - 1] = f[n]
        BY <3>1
      <4>2. QED
        BY <3>1, <4>1
    <3>2. CASE i \in 1 .. n
      <4>1. g[i] = f[i] /\ g[i - 1] = f[i - 1]
        BY <3>2
      <4>2. QED
        BY <2>1, <3>2, <4>1
    <3>3. QED
      BY <3>1, <3>2
  <2>5. Upto(n + 1, g)
    BY <2>3, <2>4
  <2> HIDE DEF Upto
  <2>6. QED
    BY <2>5
<1>3. N \in T
  <2> HIDE DEF T
  <2>1. \A i \in 0 .. N : i \in T
    BY <1>1, <1>2, UpToInduction
  <2>2. QED
    BY <2>1
<1>4. PICK f \in [0 .. N -> S] : Upto(N, f)
  BY <1>3
<1>5. Loop(f, N, S, a, h)
  BY <1>4 DEF Loop
<1>6. QED
  BY <1>5

-----------------------------------------------------------------------------
(* Induction over the subsets of a finite set, and sums over them.         *)

\* A set of sets that has {}, and each subset of S of which it has what
\* remains when one element is taken away, has all the subsets of S.
LEMMA RemovalInduction ==
  ASSUME NEW S, IsFiniteSet(S), NEW P, {} \in P,
         \A T \in SUBSET S :
            T # {} /\ (\A x \in T : T \ {x} \in P) => T \in P
  PROVE  \A T \in SUBSET S : T \in P
<1> DEFINE N == Cardinality(S)
           Q == {n \in 0 .. N : \A T \in SUBSET S : Cardinality(T) = n => T \in P}
<1>1. /\ N \in Nat
      /\ \A T \in SUBSET S : IsFiniteSet(T) /\ Cardinality(T) \in 0 .. N
  BY FS_CardinalityType, FS_Subset
<1>2. 0 \in Q
  BY <1>1, FS_EmptySet
<1>3. ASSUME NEW n \in 0 .. N - 1, n \in Q
      PROVE  n + 1 \in Q
  <2>1. ASSUME NEW T \in SUBSET S, Cardinality(T) = n + 1
        PROVE  T \in P
    <3>1. T # {}
      BY <1>1, <2>1, FS_EmptySet
    <3>2. ASSUME NEW x \in T PROVE T \ {x} \in P
      <4>1. Cardinality(T \ {x}) = n
        BY <1>1, <2>1, FS_RemoveElement
      <4>2. QED
        BY <1>3, <4>1
    <3>3. QED
      BY <3>1, <3>2
  <2>2. QED
    BY <1>1, <2>1
<1>4. QED
  <2> HIDE DEF Q, N
  <2>1. \A n \in 0 .. N : n \in Q
    BY <1>1, <1>2, <1>3, UpToInduction
  <2>2. QED
    BY <1>1, <2>1 DEF Q

\* The element that a sum over s takes first, and the sums over the subsets
\* of S as SumFunctionOnSet() defines them.
First(s) == CHOOSE x \in s : TRUE

Sums(g, f, S) ==
  g = [s \in SUBSET S |-> IF s = {} THEN 0 ELSE f[First(s)] + g[s \ {First(s)}]]

LEMMA SumsExist ==
  ASSUME NEW f, NEW S, IsFiniteSet(S)
  PROVE  \E g : Sums(g, f, S)
<1> DEFINE N == Cardinality(S)
           Upto(n, g) ==
             \A s \in SUBSET S : Cardinality(s) <= n =>
               g[s] = IF s = {} THEN 0 ELSE f[First(s)] + g[s \ {First(s)}]
           IsFcn(g) == g = [s \in SUBSET S |-> g[s]]
           Q == {n \in 0 .. N : \E g : IsFcn(g) /\ Upto(n, g)}
<1>1. /\ N \in Nat
      /\ \A s \in SUBSET S : IsFiniteSet(s) /\ Cardinality(s) \in 0 .. N
      /\ \A s \in SUBSET S : s # {} =>
            /\ First(s) \in s
            /\ s \ {First(s)} \in SUBSET S
            /\ Cardinality(s \ {First(s)}) = Cardinality(s) - 1
      /\ \A s \in SUBSET S : Cardinality(s) = 0 <=> s = {}
  <2>1. N \in Nat /\ \A s \in SUBSET S : IsFiniteSet(s) /\ Cardinality(s) \in 0 .. N
    BY FS_CardinalityType, FS_Subset
  <2>2. \A s \in SUBSET S : Cardinality(s) = 0 <=> s = {}
    BY <2>1, FS_EmptySet
  <2>3. ASSUME NEW s \in SUBSET S, s # {}
        PROVE  /\ First(s) \in s
               /\ s \ {First(s)} \in SUBSET S
               /\ Cardinality(s \ {First(s)}) = Cardinality(s) - 1
    <3>1. First(s) \in s
      BY <2>3 DEF First
    <3>2. QED
      BY <2>1, <3>1, FS_RemoveElement
  <2>4. QED
    BY <2>1, <2>2, <2>3
<1> HIDE DEF N
<1>2. 0 \in Q
  <2>1. Upto(0, [s \in SUBSET S |-> 0])
    BY <1>1
  <2>2. IsFcn([s \in SUBSET S |-> 0])
    OBVIOUS
  <2> HIDE DEF Upto, IsFcn
  <2>3. QED
    BY <1>1, <2>1, <2>2
<1>3. ASSUME NEW n \in 0 .. N - 1, n \in Q
      PROVE  n + 1 \in Q
  <2>1. PICK g : IsFcn(g) /\ Upto(n, g)
    BY <1>3
  <2> DEFINE h == [s \in SUBSET S |->
                     IF Cardinality(s) = n + 1
                     THEN f[First(s)] + g[s \ {First(s)}] ELSE g[s]]
  <2>2. ASSUME NEW s \in SUBSET S, Cardinality(s) <= n + 1
        PROVE  h[s] = IF s = {} THEN 0 ELSE f[First(s)] + h[s \ {First(s)}]
    <3>1. s # {} => h[s \ {First(s)}] = g[s \ {First(s)}]
      BY <1>1, <2>2
    <3>2. CASE Cardinality(s) = n + 1
      <4>1. s # {}
        BY <1>1, <3>2
      <4>2. h[s] = f[First(s)] + g[s \ {First(s)}]
        BY <3>2
      <4>3. QED
        BY <3>1, <4>1, <4>2
    <3>3. CASE Cardinality(s) <= n
      <4>1. h[s] = g[s]
        BY <1>1, <3>3
      <4>2. g[s] = IF s = {} THEN 0 ELSE f[First(s)] + g[s \ {First(s)}]
        BY <2>1, <3>3
      <4> HIDE DEF h
      <4>3. QED
        BY <3>1, <4>1, <4>2
    <3>4. QED
      BY <1>1, <2>2, <3>2, <3>3
  <2>3. Upto(n + 1, h) /\ IsFcn(h)
    BY <2>2
  <2>4. n + 1 \in 0 .. N
    BY <1>1
  <2> HIDE DEF Upto, IsFcn, h
  <2>5. QED
    BY <2>3, <2>4
<1>4. N \in Q
  <2> HIDE DEF Q
  <2>1. \A n \in 0 .. N : n \in Q
    BY <1>1, <1>2, <1>3, UpToInduction
  <2>2. QED
    BY <1>1, <2>1
<1>5. PICK g : IsFcn(g) /\ Upto(N, g)
  BY <1>4
<1>6. \A s \in SUBSET S :
        g[s] = IF s = {} THEN 0 ELSE f[First(s)] + g[s \ {First(s)}]
  <2>1. \A s \in SUBSET S : Cardinality(s) <= N
    BY <1>1
  <2>2. QED
    BY <1>5, <2>1
<1>7. Sums(g, f, S)
  <2> HIDE DEF Upto
  <2>1. QED
    BY <1>5, <1>6 DEF Sums
<1>8. QED
  BY <1>7

\* Two functions of sums agree where both are defined.
LEMMA SumsAgree ==
  ASSUME NEW f, NEW S, NEW R, NEW g, Sums(g, f, S), NEW h, Sums(h, f, R),
         NEW T, T \subseteq S, T \subseteq R, IsFiniteSet(T)
  PROVE  g[T] = h[T]
<1> DEFINE P == {t \in SUBSET T : g[t] = h[t]}
<1>1. /\ \A t \in SUBSET T : g[t] = IF t = {} THEN 0
                                    ELSE f[First(t)] + g[t \ {First(t)}]
      /\ \A t \in SUBSET T : h[t] = IF t = {} THEN 0
                                    ELSE f[First(t)] + h[t \ {First(t)}]
  BY DEF Sums
<1>2. {} \in P
  BY <1>1
<1>3. ASSUME NEW t \in SUBSET T, t # {}, \A x \in t : t \ {x} \in P
      PROVE  t \in P
  <2>1. First(t) \in t
    BY <1>3 DEF First
  <2>2. g[t \ {First(t)}] = h[t \ {First(t)}]
    BY <1>3, <2>1
  <2>3. QED
    BY <1>1, <1>3, <2>2
<1>4. \A t \in SUBSET T : t \in P
  <2> HIDE DEF P
  <2>1. QED
    BY <1>2, <1>3, RemovalInduction
<1>5. QED
  BY <1>4

\* The equation that defines a sum.
LEMMA SumTakesFirst ==
  ASSUME NEW f, NEW S, IsFiniteSet(S)
  PROVE  SumFunctionOnSet(f, S) =
           IF S = {} THEN 0
           ELSE f[First(S)] + SumFunctionOnSet(f, S \ {First(S)})
<1> DEFINE R == S \ {First(S)}
           G(T) == CHOOSE g : Sums(g, f, T)
<1>1. \A T : SumFunctionOnSet(f, T) = G(T)[T]
  BY DEF SumFunctionOnSet, FoldFunctionOnSet, MapThenFoldSet, Sums, First
<1>2. IsFiniteSet(R) /\ R \subseteq S
  BY FS_RemoveElement
<1>3. Sums(G(S), f, S) /\ Sums(G(R), f, R)
  BY <1>2, SumsExist
<1> HIDE DEF G
<1>4. G(S)[R] = G(R)[R]
  BY <1>2, <1>3, SumsAgree
<1>5. G(S)[S] = IF S = {} THEN 0 ELSE f[First(S)] + G(S)[R]
  BY <1>3 DEF Sums
<1>6. QED
  BY <1>1, <1>4, <1>5

\* A sum of integers is an integer.
LEMMA SumType ==
  ASSUME NEW f, NEW S, IsFiniteSet(S), \A x \in S : f[x] \in Int
  PROVE  \A T \in SUBSET S : SumFunctionOnSet(f, T) \in Int
<1> DEFINE P == {T \in SUBSET S : SumFunctionOnSet(f, T) \in Int}
<1>1. ASSUME NEW T \in SUBSET S
      PROVE  /\ SumFunctionOnSet(f, T) = IF T = {} THEN 0
                  ELSE f[First(T)] + SumFunctionOnSet(f, T \ {First(T)})
             /\ T # {} => First(T) \in T
  <2>1. IsFiniteSet(T)
    BY FS_Subset
  <2>2. QED
    BY <2>1, SumTakesFirst DEF First
<1>2. {} \in P
  <2>1. {} \in SUBSET S
    OBVIOUS
  <2>2. SumFunctionOnSet(f, {}) = 0
    BY <1>1, <2>1
  <2>3. QED
    BY <2>2
<1>3. ASSUME NEW T \in SUBSET S, T # {}, \A x \in T : T \ {x} \in P
      PROVE  T \in P
  <2>1. SumFunctionOnSet(f, T) = f[First(T)] + SumFunctionOnSet(f, T \ {First(T)})
    BY <1>1, <1>3
  <2>2. First(T) \in T /\ f[First(T)] \in Int
    BY <1>1, <1>3
  <2>3. SumFunctionOnSet(f, T \ {First(T)}) \in Int
    BY <1>3, <2>2
  <2>4. QED
    BY <2>1, <2>2, <2>3
<1>4. \A T \in SUBSET S : T \in P
  <2> HIDE DEF P
  <2>1. QED
    BY <1>2, <1>3, RemovalInduction
<1>5. QED
  BY <1>4

\* Any element of a sum of integers may be taken first.
SumTakes(f, T) ==
  \A x \in T : SumFunctionOnSet(f, T) = f[x] + SumFunctionOnSet(f, T \ {x})

LEMMA SumTakesAny ==
  ASSUME NEW f, NEW S, IsFiniteSet(S), \A x \in S : f[x] \in Int
  PROVE  \A T \in SUBSET S : SumTakes(f, T)
<1> DEFINE sum(T) == SumFunctionOnSet(f, T)
           P == {T \in SUBSET S : SumTakes(f, T)}
<1>1. ASSUME NEW T \in SUBSET S
      PROVE  /\ sum(T) = IF T = {} THEN 0
                         ELSE f[First(T)] + sum(T \ {First(T)})
             /\ T # {} => First(T) \in T
  <2>1. IsFiniteSet(T)
    BY FS_Subset
  <2>2. QED
    BY <2>1, SumTakesFirst DEF First
<1> HIDE DEF sum
<1>2. {} \in P
  BY DEF SumTakes
<1>3. \A T \in SUBSET S : sum(T) \in Int /\ \A x \in T : f[x] \in Int
  BY SumType DEF sum
<1>4. ASSUME NEW T \in SUBSET S, T # {}, \A x \in T : T \ {x} \in P
      PROVE  T \in P
  <2> DEFINE c == First(T)
  <2>1. c \in T /\ sum(T) = f[c] + sum(T \ {c}) /\ f[c] \in Int
    BY <1>1, <1>4
  <2> HIDE DEF c
  <2>2. \A x \in T : \A y \in T \ {x} :
          sum(T \ {x}) = f[y] + sum((T \ {x}) \ {y})
    BY <1>4 DEF SumTakes, sum
  <2>3. ASSUME NEW x \in T, x # c
        PROVE  sum(T) = f[x] + sum(T \ {x})
    <3>1. sum(T \ {c}) = f[x] + sum((T \ {c}) \ {x})
      BY <2>2, <2>1, <2>3
    <3>2. sum(T \ {x}) = f[c] + sum((T \ {x}) \ {c})
      BY <2>2, <2>1, <2>3
    <3>3. (T \ {c}) \ {x} = (T \ {x}) \ {c}
      OBVIOUS
    <3>4. (T \ {x}) \ {c} \in SUBSET S
      OBVIOUS
    <3>5. sum((T \ {x}) \ {c}) \in Int /\ f[x] \in Int
      BY <1>3, <3>4
    <3>6. sum((T \ {c}) \ {x}) = sum((T \ {x}) \ {c})
      BY <3>3
    <3>7. QED
      BY <2>1, <3>1, <3>2, <3>5, <3>6
  <2>4. QED
    BY <2>1, <2>3 DEF SumTakes, sum
<1>5. \A T \in SUBSET S : T \in P
  <2> HIDE DEF P
  <2>1. QED
    BY <1>2, <1>4, RemovalInduction
<1>6. QED
  BY <1>5

\* Sums of the same summands are the same.
LEMMA SumSame ==
  ASSUME NEW f, NEW h, NEW S, IsFiniteSet(S), \A x \in S : f[x] = h[x]
  PROVE  SumFunctionOnSet(f, S) = SumFunctionOnSet(h, S)
<1> DEFINE P == {T \in SUBSET S : SumFunctionOnSet(f, T) = SumFunctionOnSet(h, T)}
<1>1. ASSUME NEW T \in SUBSET S
      PROVE  /\ SumFunctionOnSet(f, T) = IF T = {} THEN 0
                  ELSE f[First(T)] + SumFunctionOnSet(f, T \ {First(T)})
             /\ SumFunctionOnSet(h, T) = IF T = {} THEN 0
                  ELSE h[First(T)] + SumFunctionOnSet(h, T \ {First(T)})
             /\ T # {} => First(T) \in T
  <2>1. IsFiniteSet(T)
    BY FS_Subset
  <2>2. QED
    BY <2>1, SumTakesFirst DEF First
<1>2. {} \in P
  BY <1>1
<1>3. ASSUME NEW T \in SUBSET S, T # {}, \A x \in T : T \ {x} \in P
      PROVE  T \in P
  BY <1>1, <1>3
<1>4. \A T \in SUBSET S : T \in P
  <2> HIDE DEF P
  <2>1. QED
    BY <1>2, <1>3, RemovalInduction
<1>5. QED
  BY <1>4

\* A non-empty finite set of integers has a greatest and a least element.
LEMMA Extremes ==
  ASSUME NEW S, IsFiniteSet(S), S \subseteq Int, S # {}
  PROVE  /\ \E x \in S : \A y \in S : y <= x
         /\ \E x \in S : \A y \in S : x <= y
<1> DEFINE Great(T) == \E x \in T : \A y \in T : y <= x
           Least(T) == \E x \in T : \A y \in T : x <= y
           P == {T \in SUBSET S : T # {} => Great(T) /\ Least(T)}
<1>1. {} \in P
  OBVIOUS
<1>2. ASSUME NEW T \in SUBSET S, T # {}, \A x \in T : T \ {x} \in P
      PROVE  T \in P
  <2>1. PICK z \in T : TRUE
    BY <1>2
  <2>2. \A y \in T : y \in T \ {z} \/ y = z
    OBVIOUS
  <2>3. CASE T \ {z} = {}
    <3>1. \A y \in T : y = z /\ y <= z /\ z <= y
      BY <2>2, <2>3
    <3>2. QED
      BY <2>1, <3>1
  <2>4. CASE T \ {z} # {}
    <3>1. Great(T \ {z}) /\ Least(T \ {z})
      BY <1>2, <2>4
    <3>2. PICK g \in T \ {z} : \A y \in T \ {z} : y <= g
      BY <3>1
    <3>3. PICK l \in T \ {z} : \A y \in T \ {z} : l <= y
      BY <3>1
    <3>4. z \in Int /\ g \in Int /\ l \in Int /\ T \subseteq Int
      OBVIOUS
    <3>5. Great(T)
      <4>1. CASE z <= g
        BY <2>2, <3>2, <4>1
      <4>2. CASE g < z
        <5>1. \A y \in T \ {z} : y <= z
          BY <3>2, <3>4, <4>2
        <5>2. QED
          BY <2>2, <3>4, <5>1
      <4>3. QED
        BY <3>4, <4>1, <4>2
    <3>6. Least(T)
      <4>1. CASE l <= z
        BY <2>2, <3>3, <4>1
      <4>2. CASE z < l
        <5>1. \A y \in T \ {z} : z <= y
          BY <3>3, <3>4, <4>2
        <5>2. QED
          BY <2>2, <3>4, <5>1
      <4>3. QED
        BY <3>4, <4>1, <4>2
    <3>7. QED
      BY <3>5, <3>6
  <2>5. QED
    BY <2>3, <2>4
<1>3. S \in P
  <2> HIDE DEF P
  <2>1. \A T \in SUBSET S : T \in P
    BY <1>1, <1>2, RemovalInduction
  <2>2. QED
    BY <2>1
<1>4. QED
  BY <1>3

\* A sum over an interval that begins with 0, by its last summand.
LEMMA SumUpTo ==
  ASSUME NEW n \in Nat, NEW f, \A i \in 0 .. n : f[i] \in Int
  PROVE  /\ SumFunctionOnSet(f, 0 .. 0) = f[0]
         /\ n > 0 => SumFunctionOnSet(f, 0 .. n)
                       = f[n] + SumFunctionOnSet(f, 0 .. n - 1)
<1>1. IsFiniteSet(0 .. n)
  BY FS_Interval
<1>2. 0 .. n \in SUBSET (0 .. n) /\ 0 .. 0 \in SUBSET (0 .. n)
  OBVIOUS
<1>3. SumTakes(f, 0 .. n) /\ SumTakes(f, 0 .. 0)
  BY <1>1, <1>2, SumTakesAny
<1>4. SumFunctionOnSet(f, 0 .. 0) = f[0] + SumFunctionOnSet(f, (0 .. 0) \ {0})
  BY <1>3 DEF SumTakes
<1>5. (0 .. 0) \ {0} = {} /\ SumFunctionOnSet(f, {}) = 0
  <2>1. IsFiniteSet({})
    BY FS_EmptySet
  <2>2. SumFunctionOnSet(f, {}) = 0
    BY <2>1, SumTakesFirst
  <2>3. QED
    BY <2>2
<1>6. SumFunctionOnSet(f, 0 .. 0) = f[0]
  BY <1>4, <1>5
<1>7. ASSUME n > 0
      PROVE  SumFunctionOnSet(f, 0 .. n) = f[n] + SumFunctionOnSet(f, 0 .. n - 1)
  <2>1. SumFunctionOnSet(f, 0 .. n) = f[n] + SumFunctionOnSet(f, (0 .. n) \ {n})
    BY <1>3 DEF SumTakes
  <2>2. (0 .. n) \ {n} = 0 .. n - 1
    OBVIOUS
  <2>3. QED
    BY <2>1, <2>2
<1>8. QED
  BY <1>6, <1>7

-----------------------------------------------------------------------------
(* Powers of two.  The provers know nothing of the exponential; but 2^n is *)
(* the number of subsets of a set of n elements.                           *)

LEMMA PowerIsCount ==
  ASSUME NEW S, NEW n \in Nat, IsFiniteSet(S), Cardinality(S) = n
  PROVE  IsFiniteSet(SUBSET S) /\ Cardinality(SUBSET S) = 2 ^ n
<1>1. IsFiniteSet(SUBSET S) /\ Cardinality(SUBSET S) = 2 ^ Cardinality(S)
  BY FS_SUBSET
<1>2. QED
  BY <1>1

LEMMA PowerType ==
  ASSUME NEW n \in Nat
  PROVE  2 ^ n \in Nat /\ 2 ^ n > 0
<1>1. IsFiniteSet(1 .. n) /\ Cardinality(1 .. n) = n
  BY FS_Interval
<1>2. IsFiniteSet(SUBSET (1 .. n)) /\ Cardinality(SUBSET (1 .. n)) = 2 ^ n
  BY <1>1, PowerIsCount
<1>3. Cardinality(SUBSET (1 .. n)) \in Nat
  BY <1>2, FS_CardinalityType
<1>4. SUBSET (1 .. n) # {}
  OBVIOUS
<1>5. Cardinality(SUBSET (1 .. n)) # 0
  BY <1>2, <1>4, FS_EmptySet
<1>6. QED
  BY <1>2, <1>3, <1>5

\* Half of the subsets of 1 .. n + 1 contain n + 1.
LEMMA PowerDoubles ==
  ASSUME NEW n \in Nat
  PROVE  2 ^ (n + 1) = 2 * 2 ^ n
<1> DEFINE A == SUBSET (1 .. n)
           B == {s \in SUBSET (1 .. n + 1) : n + 1 \in s}
           f == [s \in A |-> s \cup {n + 1}]
<1>1. /\ IsFiniteSet(1 .. n) /\ Cardinality(1 .. n) = n
      /\ IsFiniteSet(1 .. n + 1) /\ Cardinality(1 .. n + 1) = n + 1
  BY FS_Interval
<1>2. /\ IsFiniteSet(A) /\ Cardinality(A) = 2 ^ n
      /\ IsFiniteSet(SUBSET (1 .. n + 1))
      /\ Cardinality(SUBSET (1 .. n + 1)) = 2 ^ (n + 1)
  <2>1. n + 1 \in Nat
    OBVIOUS
  <2>2. IsFiniteSet(A) /\ Cardinality(A) = 2 ^ n
    BY <1>1, PowerIsCount
  <2>3. /\ IsFiniteSet(SUBSET (1 .. n + 1))
        /\ Cardinality(SUBSET (1 .. n + 1)) = 2 ^ (n + 1)
    BY <1>1, <2>1, PowerIsCount
  <2>4. QED
    BY <2>2, <2>3
<1>3. f \in Bijection(A, B)
  <2>1. f \in [A -> B]
    BY 1 .. n \subseteq 1 .. n + 1, n + 1 \in 1 .. n + 1
  <2>2. \A s, t \in A : f[s] = f[t] => s = t
    <3>1. n + 1 \notin 1 .. n
      OBVIOUS
    <3>2. QED
      BY <3>1
  <2>3. \A u \in B : \E s \in A : f[s] = u
    <3>1. TAKE u \in B
    <3>2. u \ {n + 1} \in A
      OBVIOUS
    <3>3. f[u \ {n + 1}] = u
      BY <3>2
    <3>4. QED
      BY <3>2, <3>3
  <2>4. QED
    BY <2>1, <2>2, <2>3 DEF Bijection, Injection, Surjection, IsInjective
<1>4. IsFiniteSet(B) /\ Cardinality(B) = Cardinality(A)
  BY <1>2, <1>3, FS_Bijection DEF ExistsBijection
<1>5. A \cap B = {}
  <2>1. n + 1 \notin 1 .. n
    OBVIOUS
  <2>2. QED
    BY <2>1
<1>6. SUBSET (1 .. n + 1) = A \cup B
  <2>1. \A i \in 1 .. n + 1 : i \in 1 .. n \/ i = n + 1
    OBVIOUS
  <2>2. 1 .. n \subseteq 1 .. n + 1
    OBVIOUS
  <2>3. QED
    BY <2>1, <2>2
<1>7. Cardinality(A \cup B)
        = Cardinality(A) + Cardinality(B) - Cardinality(A \cap B)
  BY <1>2, <1>4, FS_Union
<1>8. Cardinality({}) = 0
  BY FS_EmptySet
<1>9. 2 ^ n \in Nat
  BY PowerType
<1> DEFINE x == 2 ^ n
<1> HIDE DEF A, B, x
<1>10. Cardinality(A \cup B) = x + x - 0
  BY <1>2, <1>4, <1>5, <1>7, <1>8 DEF x
<1>11. x + x - 0 = 2 * x
  BY <1>9 DEF x
<1>12. QED
  BY <1>2, <1>6, <1>10, <1>11 DEF x

\* 2^(a + b) = 2^a * 2^b.
LEMMA PowerAdds ==
  ASSUME NEW a \in Nat, NEW b \in Nat
  PROVE  2 ^ (a + b) = 2 ^ a * 2 ^ b
<1> DEFINE T == {i \in 0 .. b : 2 ^ (a + i) = 2 ^ a * 2 ^ i}
<1>1. 0 \in T
  <2>1. a + 0 = a /\ 2 ^ 0 = 1
    OBVIOUS
  <2>2. 2 ^ a * 1 = 2 ^ a
    BY PowerType
  <2>3. QED
    BY <2>1, <2>2
<1>2. \A i \in 0 .. b - 1 : i \in T => i + 1 \in T
  <2>1. TAKE i \in 0 .. b - 1
  <2>2. HAVE i \in T
  <2> DEFINE p == 2 ^ a
             q == 2 ^ i
  <2>3. 2 ^ (i + 1) = 2 * q /\ 2 ^ ((a + i) + 1) = 2 * 2 ^ (a + i)
    BY PowerDoubles
  <2>4. p \in Nat /\ q \in Nat /\ 2 ^ (a + i) = p * q
    BY <2>2, PowerType
  <2>5. a + (i + 1) = (a + i) + 1 /\ i + 1 \in 0 .. b
    OBVIOUS
  <2> HIDE DEF p, q
  <2>6. 2 * (p * q) = p * (2 * q)
    BY ONLY <2>4
  <2>7. 2 ^ (a + (i + 1)) = p * 2 ^ (i + 1)
    BY <2>3, <2>4, <2>5, <2>6
  <2>8. QED
    BY <2>5, <2>7 DEF p
<1>3. \A i \in 0 .. b : i \in T
  BY <1>1, <1>2, UpToInduction
<1>4. QED
  BY <1>3
\* A power divided by a smaller one, and the order of powers.
LEMMA PowerFacts ==
  ASSUME NEW a \in Nat, NEW b \in Nat, a <= b
  PROVE  /\ 2 ^ a <= 2 ^ b
         /\ 2 ^ b = 2 ^ a * 2 ^ (b - a)
<1>1. b - a \in Nat /\ a + (b - a) = b
  OBVIOUS
<1>2. 2 ^ b = 2 ^ a * 2 ^ (b - a)
  BY <1>1, PowerAdds
<1> DEFINE p == 2 ^ a
           q == 2 ^ (b - a)
<1>3. p \in Nat /\ q \in Nat /\ q > 0
  BY <1>1, PowerType
<1> HIDE DEF p, q
<1>4. p <= p * q
  <2>1. p * q = p + p * (q - 1)
    BY ONLY <1>3
  <2>2. p * (q - 1) \in Nat
    BY ONLY <1>3
  <2>3. p * q \in Int
    BY ONLY <1>3
  <2>4. QED
    BY <1>3, <2>1, <2>2, <2>3
<1>5. QED
  BY <1>2, <1>4 DEF p, q

\* An exponential is above its exponent.
LEMMA PowerIsGreater ==
  ASSUME NEW n \in Nat
  PROVE  n < 2 ^ n
<1> DEFINE T == {i \in 0 .. n : i < 2 ^ i}
<1>1. 0 \in T
  BY 2 ^ 0 = 1
<1>2. \A i \in 0 .. n - 1 : i \in T => i + 1 \in T
  <2>1. TAKE i \in 0 .. n - 1
  <2>2. HAVE i \in T
  <2> DEFINE q == 2 ^ i
  <2>3. 2 ^ (i + 1) = 2 * q /\ q \in Nat /\ i < q
    BY <2>2, PowerDoubles, PowerType
  <2> HIDE DEF q
  <2>4. i + 1 < 2 * q
    BY <2>3
  <2>5. QED
    BY <2>3, <2>4
<1>3. \A i \in 0 .. n : i \in T
  BY <1>1, <1>2, UpToInduction
<1>4. QED
  BY <1>3

-----------------------------------------------------------------------------
(* More on sums.                                                           *)

LEMMA SumOfNone ==
  ASSUME NEW f
  PROVE  SumFunctionOnSet(f, {}) = 0
<1>1. IsFiniteSet({})
  BY FS_EmptySet
<1>2. QED
  BY <1>1, SumTakesFirst

\* The sum of natural numbers is not below any of them.
LEMMA SumBounds ==
  ASSUME NEW f, NEW S, IsFiniteSet(S), \A x \in S : f[x] \in Nat
  PROVE  /\ SumFunctionOnSet(f, S) \in Nat
         /\ \A x \in S : f[x] <= SumFunctionOnSet(f, S)
<1> DEFINE sum(T) == SumFunctionOnSet(f, T)
           P == {T \in SUBSET S : sum(T) >= 0}
<1>0. \A x \in S : f[x] \in Int
  OBVIOUS
<1>1. \A T \in SUBSET S : sum(T) \in Int
  BY <1>0, SumType
<1>2. \A T \in SUBSET S : \A x \in T : sum(T) = f[x] + sum(T \ {x})
  BY <1>0, SumTakesAny DEF SumTakes
<1>3. sum({}) = 0
  BY SumOfNone
<1> HIDE DEF sum
<1>4. {} \in P
  BY <1>3
<1>5. ASSUME NEW T \in SUBSET S, T # {}, \A x \in T : T \ {x} \in P
      PROVE  T \in P
  <2>1. PICK x \in T : TRUE
    BY <1>5
  <2>2. sum(T) = f[x] + sum(T \ {x}) /\ sum(T \ {x}) >= 0
    BY <1>2, <1>5
  <2>3. f[x] \in Nat /\ sum(T \ {x}) \in Int
    BY <1>1
  <2>4. QED
    BY <2>2, <2>3
<1>6. \A T \in SUBSET S : T \in P
  <2> HIDE DEF P
  <2>1. QED
    BY <1>4, <1>5, RemovalInduction
<1>7. \A x \in S : f[x] <= sum(S)
  <2>1. TAKE x \in S
  <2>2. sum(S) = f[x] + sum(S \ {x})
    BY <1>2
  <2>3. sum(S \ {x}) \in Int /\ sum(S \ {x}) >= 0 /\ f[x] \in Nat
    BY <1>1, <1>6
  <2>4. QED
    BY <2>2, <2>3
<1>8. QED
  BY <1>1, <1>6, <1>7 DEF sum

\* h is k times f, or f and g together.
LEMMA SumScaled ==
  ASSUME NEW f, NEW h, NEW k \in Int, NEW S, IsFiniteSet(S),
         \A x \in S : f[x] \in Int /\ h[x] = k * f[x]
  PROVE  SumFunctionOnSet(h, S) = k * SumFunctionOnSet(f, S)
<1> DEFINE sum(T) == SumFunctionOnSet(f, T)
           sumh(T) == SumFunctionOnSet(h, T)
           P == {T \in SUBSET S : sumh(T) = k * sum(T)}
<1>1. \A x \in S : h[x] \in Int
  OBVIOUS
<1>2. /\ \A T \in SUBSET S : sum(T) \in Int
      /\ \A T \in SUBSET S : \A x \in T : sum(T) = f[x] + sum(T \ {x})
  BY SumType, SumTakesAny DEF SumTakes
<1>3. \A T \in SUBSET S : \A x \in T : sumh(T) = h[x] + sumh(T \ {x})
  BY <1>1, SumTakesAny DEF SumTakes
<1>4. sum({}) = 0 /\ sumh({}) = 0
  BY SumOfNone
<1> HIDE DEF sum, sumh
<1>5. {} \in P
  BY <1>4
<1>6. ASSUME NEW T \in SUBSET S, T # {}, \A x \in T : T \ {x} \in P
      PROVE  T \in P
  <2>1. PICK x \in T : TRUE
    BY <1>6
  <2> DEFINE a == f[x]
             b == sum(T \ {x})
  <2>2. a \in Int /\ b \in Int
    BY <1>2
  <2>3. sum(T) = a + b
    BY <1>2
  <2>4. h[x] = k * a
    OBVIOUS
  <2>5. sumh(T) = h[x] + sumh(T \ {x})
    BY <1>3
  <2>6. sumh(T \ {x}) = k * b
    BY <1>6
  <2> HIDE DEF a, b
  <2>7. k * a + k * b = k * (a + b)
    BY ONLY <2>2, k \in Int
  <2>8. sumh(T) = k * sum(T)
    BY <2>3, <2>4, <2>5, <2>6, <2>7
  <2>9. QED
    BY <2>8
<1>7. \A T \in SUBSET S : T \in P
  <2> HIDE DEF P
  <2>1. QED
    BY <1>5, <1>6, RemovalInduction
<1>8. S \in P
  BY <1>7
<1>9. QED
  BY <1>8 DEF sum, sumh

LEMMA SumAdds ==
  ASSUME NEW f, NEW g, NEW h, NEW S, IsFiniteSet(S),
         \A x \in S : f[x] \in Int /\ g[x] \in Int /\ h[x] = f[x] + g[x]
  PROVE  SumFunctionOnSet(h, S) = SumFunctionOnSet(f, S) + SumFunctionOnSet(g, S)
<1> DEFINE sum(T) == SumFunctionOnSet(f, T)
           sumg(T) == SumFunctionOnSet(g, T)
           sumh(T) == SumFunctionOnSet(h, T)
           P == {T \in SUBSET S : sumh(T) = sum(T) + sumg(T)}
<1>1. \A x \in S : h[x] \in Int
  OBVIOUS
<1>2. /\ \A T \in SUBSET S : sum(T) \in Int
      /\ \A T \in SUBSET S : \A x \in T : sum(T) = f[x] + sum(T \ {x})
  BY SumType, SumTakesAny DEF SumTakes
<1>3. /\ \A T \in SUBSET S : sumg(T) \in Int
      /\ \A T \in SUBSET S : \A x \in T : sumg(T) = g[x] + sumg(T \ {x})
  BY SumType, SumTakesAny DEF SumTakes
<1>4. \A T \in SUBSET S : \A x \in T : sumh(T) = h[x] + sumh(T \ {x})
  BY <1>1, SumTakesAny DEF SumTakes
<1>5. sum({}) = 0 /\ sumg({}) = 0 /\ sumh({}) = 0
  BY SumOfNone
<1> HIDE DEF sum, sumg, sumh
<1>6. {} \in P
  BY <1>5
<1>7. ASSUME NEW T \in SUBSET S, T # {}, \A x \in T : T \ {x} \in P
      PROVE  T \in P
  <2>1. PICK x \in T : TRUE
    BY <1>7
  <2>2. /\ sum(T) = f[x] + sum(T \ {x})
        /\ sumg(T) = g[x] + sumg(T \ {x})
        /\ sumh(T) = h[x] + sumh(T \ {x})
        /\ sumh(T \ {x}) = sum(T \ {x}) + sumg(T \ {x})
    BY <1>2, <1>3, <1>4, <1>7
  <2>3. /\ sum(T \ {x}) \in Int /\ sumg(T \ {x}) \in Int
        /\ f[x] \in Int /\ g[x] \in Int /\ h[x] = f[x] + g[x]
    BY <1>2, <1>3
  <2>4. QED
    BY <2>2, <2>3
<1>8. \A T \in SUBSET S : T \in P
  <2> HIDE DEF P
  <2>1. QED
    BY <1>6, <1>7, RemovalInduction
<1>9. S \in P
  BY <1>8
<1>10. QED
  BY <1>9 DEF sum, sumg, sumh

\* What is zero adds nothing.
LEMMA SumSupport ==
  ASSUME NEW f, NEW S, IsFiniteSet(S), NEW R, R \subseteq S,
         \A x \in R : f[x] \in Int, \A x \in S \ R : f[x] = 0
  PROVE  SumFunctionOnSet(f, S) = SumFunctionOnSet(f, R)
<1> DEFINE sum(T) == SumFunctionOnSet(f, T)
           P == {T \in SUBSET S : sum(T) = sum(T \cap R)}
<1>1. \A x \in S : f[x] \in Int
  OBVIOUS
<1>2. /\ \A T \in SUBSET S : sum(T) \in Int
      /\ \A T \in SUBSET S : \A x \in T : sum(T) = f[x] + sum(T \ {x})
  BY <1>1, SumType, SumTakesAny DEF SumTakes
<1> HIDE DEF sum
<1>3. {} \in P
  <2>1. {} \cap R = {}
    OBVIOUS
  <2>2. QED
    BY <2>1
<1>4. ASSUME NEW T \in SUBSET S, T # {}, \A x \in T : T \ {x} \in P
      PROVE  T \in P
  <2>1. PICK x \in T : TRUE
    BY <1>4
  <2>2. /\ sum(T) = f[x] + sum(T \ {x})
        /\ sum(T \ {x}) = sum((T \ {x}) \cap R)
        /\ f[x] \in Int /\ sum(T \ {x}) \in Int
    BY <1>1, <1>2, <1>4
  <2>3. CASE x \in R
    <3>1. T \cap R \in SUBSET S /\ x \in T \cap R
          /\ (T \cap R) \ {x} = (T \ {x}) \cap R
      BY <2>3
    <3>2. sum(T \cap R) = f[x] + sum((T \ {x}) \cap R)
      BY <1>2, <3>1
    <3>3. QED
      BY <2>2, <3>2
  <2>4. CASE x \notin R
    <3>1. (T \ {x}) \cap R = T \cap R /\ f[x] = 0
      BY <2>4
    <3>2. sum(T \ {x}) = sum(T \cap R)
      BY <2>2, <3>1
    <3>3. sum(T) = sum(T \ {x})
      BY <2>2, <3>1
    <3>4. QED
      BY <3>2, <3>3
  <2>5. QED
    BY <2>3, <2>4
<1>5. \A T \in SUBSET S : T \in P
  <2> HIDE DEF P
  <2>1. QED
    BY <1>3, <1>4, RemovalInduction
<1>6. S \in P /\ S \cap R = R
  BY <1>5
<1>7. QED
  BY <1>6 DEF sum

=============================================================================
