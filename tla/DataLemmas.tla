----------------------------- MODULE DataLemmas -----------------------------
(***************************************************************************)
(* Facts about finite sets of numbers and about sequences that the proofs  *)
(* of several modules need: least and greatest elements, ascending order,  *)
(* and what the recursive function of FlattenSeq computes.  Induction is   *)
(* by the least natural number that violates the claim.                    *)
(***************************************************************************)
EXTENDS Sorting, SequencesExt, FiniteSetsExt, SequenceTheorems,
        FiniteSetTheorems, NaturalsInduction, WellFoundedInduction, TLAPS

LEMMA LeastNat ==
  ASSUME NEW S \in SUBSET Nat, S # {}
  PROVE  \E m \in S : \A n \in S : m <= n
<1> DEFINE R == {ss \in Nat \X Nat : ss[1] < ss[2]}
<1>1. IsWellFoundedOn(R, Nat)
  BY NatLessThanWellFounded DEF OpToRel
<1> HIDE DEF R
<1>2. PICK m \in S : \A n \in S : ~(<<n, m>> \in R)
  BY <1>1, WFMin
<1>3. \A n \in S : ~(n < m)
  BY <1>2 DEF R
<1> QED
  BY <1>3

LEMMA MinOfNats ==
  ASSUME NEW S \in SUBSET Nat, S # {}
  PROVE  Min(S) \in S /\ \A n \in S : Min(S) <= n
<1>1. \E m \in S : \A n \in S : m <= n
  BY LeastNat
<1> QED
  BY <1>1 DEF Min

LEMMA MaxOfFinite ==
  ASSUME NEW S \in SUBSET Nat, S # {}, IsFiniteSet(S)
  PROVE  Max(S) \in S /\ \A n \in S : n <= Max(S)
<1> DEFINE HasMax(T) == \E m \in T : \A n \in T : n <= m
           bad == {k \in Nat : \E T \in SUBSET Nat :
                     T # {} /\ IsFiniteSet(T) /\ Cardinality(T) = k /\ ~HasMax(T)}
<1>1. ASSUME bad # {} PROVE FALSE
  <2>0. bad \in SUBSET Nat
    OBVIOUS
  <2>1. PICK k \in bad : \A j \in bad : k <= j
    <3> HIDE DEF bad
    <3> QED
      BY <1>1, <2>0, LeastNat
  <2>2. PICK T \in SUBSET Nat :
          T # {} /\ IsFiniteSet(T) /\ Cardinality(T) = k /\ ~HasMax(T)
    BY <2>1
  <2>3. PICK x \in T : TRUE
    BY <2>2
  <2> DEFINE U == T \ {x}
  <2>4. /\ U \in SUBSET Nat /\ IsFiniteSet(U)
        /\ Cardinality(U) = k - 1 /\ Cardinality(U) \in Nat
    BY <2>2, <2>3, FS_RemoveElement, FS_CardinalityType
  <2>5. U # {}
    BY <2>2, <2>3
  <2>6. HasMax(U)
    <3>1. k - 1 \notin bad
      BY <2>0, <2>1, <2>4
    <3> HIDE DEF U, HasMax
    <3> QED
      BY <2>4, <2>5, <3>1
  <2>7. HasMax(T)
    <3>1. PICK m \in U : \A n \in U : n <= m
      BY <2>6
    <3>2. \A n \in T : n = x \/ n \in U
      OBVIOUS
    <3>3. CASE x <= m
      BY <2>2, <3>1, <3>2, <3>3
    <3>4. CASE ~(x <= m)
      BY <2>2, <2>3, <3>1, <3>2, <3>4
    <3> QED
      BY <3>3, <3>4
  <2> QED
    BY <2>2, <2>7
<1>2. HasMax(S)
  <2>1. Cardinality(S) \in Nat
    BY FS_CardinalityType
  <2> HIDE DEF HasMax
  <2> QED
    BY <1>1, <2>1
<1>3. \E m \in S : \A n \in S : m >= n
  BY <1>2
<1> QED
  BY <1>3 DEF Max

-----------------------------------------------------------------------------
LEMMA TakeNext ==
  ASSUME NEW S, NEW s \in Seq(S), NEW n \in 1 .. Len(s)
  PROVE  Append(SubSeq(s, 1, n - 1), s[n]) = SubSeq(s, 1, n)
<1>1. SubSeq(s, 1, n) = SubSeq(s, 1, n - 1) \o <<s[n]>>
  BY SubSeqRecursiveSecond
<1>2. SubSeq(s, 1, n - 1) \in Seq(S) /\ s[n] \in S
  BY ElementOfSeq
<1> DEFINE t == SubSeq(s, 1, n - 1)
           x == s[n]
<1> HIDE DEF t, x
<1>3. t \o <<x>> = Append(t, x)
  BY <1>2, AppendIsConcat DEF t, x
<1> QED
  BY <1>1, <1>3 DEF t, x

-----------------------------------------------------------------------------
LEMMA SortsTyped ==
  ASSUME NEW S, IsFiniteSet(S), NEW s, Sorts(s, S)
  PROVE  /\ s \in Seq(S) /\ Len(s) = Cardinality(S) /\ Cardinality(S) \in Nat
         /\ DOMAIN s = 1 .. Cardinality(S)
         /\ \A i \in 1 .. Cardinality(S) : s[i] \in S
         /\ \A i, j \in 1 .. Cardinality(S) : i < j => s[i] < s[j]
<1>1. Cardinality(S) \in Nat
  BY FS_CardinalityType
<1>2. s \in [1 .. Cardinality(S) -> S]
  BY DEF Sorts
<1> DEFINE n == Cardinality(S)
<1>3. \A i, j \in DOMAIN s : i < j => s[i] < s[j]
  BY DEF Sorts
<1> HIDE DEF n
<1>4. s \in Seq(S) /\ Len(s) = n
  BY <1>1, <1>2 DEF n
<1> QED
  BY <1>1, <1>2, <1>3, <1>4 DEF n

LEMMA SortsAll ==
  ASSUME NEW S \in SUBSET Nat, IsFiniteSet(S), NEW s, Sorts(s, S), NEW x \in S
  PROVE  \E i \in 1 .. Cardinality(S) : s[i] = x
<1> DEFINE n == Cardinality(S)
<1>1. /\ n \in Nat /\ s \in [1 .. n -> S]
      /\ \A i, j \in 1 .. n : i < j => s[i] < s[j]
  BY SortsTyped DEF Sorts
<1>2. IsFiniteSet(1 .. n) /\ Cardinality(1 .. n) = n
  BY <1>1, FS_Interval
<1> HIDE DEF n
<1>3. \A i, j \in 1 .. n : s[i] = s[j] => i = j
  <2> SUFFICES ASSUME NEW i \in 1 .. n, NEW j \in 1 .. n, s[i] = s[j], i # j
               PROVE  FALSE
    OBVIOUS
  <2>1. s[i] \in Nat /\ s[j] \in Nat
    BY <1>1
  <2>2. i < j \/ j < i
    OBVIOUS
  <2> QED
    BY <1>1, <2>1, <2>2
<1>4. s \in Injection(1 .. n, S)
  BY <1>1, <1>3 DEF Injection, IsInjective
<1>5. s \in Surjection(1 .. n, S)
  BY <1>2, <1>4, FS_Injection DEF n
<1> QED
  BY <1>5 DEF Surjection, n

(* A set has one ascending order ... *)
LEMMA SortsOnce ==
  ASSUME NEW S \in SUBSET Nat, IsFiniteSet(S),
         NEW s, Sorts(s, S), NEW t, Sorts(t, S)
  PROVE  s = t
<1> DEFINE n == Cardinality(S)
           wrong == {i \in 1 .. n : s[i] # t[i]}
<1>0. ASSUME NEW u, Sorts(u, S)
      PROVE  /\ u \in [1 .. n -> S]
             /\ \A i, j \in 1 .. n : i < j => u[i] < u[j]
             /\ \A x \in S : \E i \in 1 .. n : u[i] = x
  <2>1. u \in [1 .. n -> S]
    BY <1>0 DEF Sorts
  <2>2. \A i, j \in 1 .. n : i < j => u[i] < u[j]
    BY <1>0, SortsTyped
  <2>3. \A x \in S : \E i \in 1 .. n : u[i] = x
    BY <1>0, SortsAll
  <2> QED
    BY <2>1, <2>2, <2>3
<1>n. n \in Nat
  BY FS_CardinalityType
<1> HIDE DEF n
<1>1. /\ n \in Nat
      /\ \A u \in {s, t} : /\ u \in [1 .. n -> S]
                           /\ \A i, j \in 1 .. n : i < j => u[i] < u[j]
                           /\ \A x \in S : \E i \in 1 .. n : u[i] = x
  BY <1>0, <1>n
<1>2. ASSUME NEW m \in 1 .. n, NEW u \in {s, t}, NEW v \in {s, t},
             \A i \in 1 .. m - 1 : u[i] = v[i], u[m] < v[m]
      PROVE  FALSE
  <2>1. PICK j \in 1 .. n : v[j] = u[m]
    BY <1>1
  <2>2. \A i \in 1 .. n : u[i] \in Nat /\ v[i] \in Nat
    BY <1>1
  <2>3. CASE j < m
    <3>1. u[j] = u[m] /\ u[j] < u[m]
      BY <1>1, <1>2, <2>1, <2>3
    <3> QED
      BY <2>2, <3>1
  <2>4. CASE j >= m
    <3>1. v[m] <= v[j]
      BY <1>1, <2>2, <2>4
    <3> QED
      BY <1>2, <2>1, <2>2, <3>1
  <2> QED
    BY <2>3, <2>4
<1>3. ASSUME wrong # {} PROVE FALSE
  <2>0. wrong \in SUBSET Nat
    BY <1>1
  <2>1. PICK m \in wrong : \A i \in wrong : m <= i
    <3> HIDE DEF wrong
    <3> QED
      BY <1>3, <2>0, LeastNat
  <2>2. \A i \in 1 .. m - 1 : s[i] = t[i]
    BY <1>1, <2>1
  <2>3. s[m] \in Nat /\ t[m] \in Nat /\ s[m] # t[m] /\ m \in 1 .. n
    BY <1>1, <2>1
  <2>4. s[m] < t[m] \/ t[m] < s[m]
    BY <2>3
  <2> QED
    BY <1>2, <2>2, <2>3, <2>4
<1> QED
  BY <1>1, <1>3

LEMMA SortsAppend ==
  ASSUME NEW S \in SUBSET Nat, IsFiniteSet(S), NEW s, Sorts(s, S),
         NEW m \in Nat, \A x \in S : x < m
  PROVE  Sorts(Append(s, m), S \cup {m})
<1> DEFINE n == Cardinality(S)
           S1 == S \cup {m}
           u == Append(s, m)
<1>1. /\ n \in Nat /\ s \in Seq(S) /\ Len(s) = n
      /\ \A i \in 1 .. n : s[i] \in S
      /\ \A i, j \in 1 .. n : i < j => s[i] < s[j]
  BY SortsTyped
<1>2. Cardinality(S1) = n + 1
  BY FS_AddElement
<1>3. s \in Seq(S1) /\ m \in S1
  BY <1>1
<1> HIDE DEF S1, n
<1>4. /\ u \in Seq(S1) /\ Len(u) = n + 1
      /\ \A i \in 1 .. n : u[i] = s[i]
      /\ u[n + 1] = m
  BY <1>1, <1>3, AppendProperties
<1> HIDE DEF u
<1>5. u \in [1 .. n + 1 -> S1]
  BY <1>4
<1>6. ASSUME NEW i \in 1 .. n + 1, NEW j \in 1 .. n + 1, i < j
      PROVE  u[i] < u[j]
  <2>1. i \in 1 .. n /\ u[i] = s[i]
    BY <1>1, <1>4, <1>6
  <2>2. CASE j = n + 1
    BY <1>1, <1>4, <2>1, <2>2
  <2>3. CASE j # n + 1
    <3>1. j \in 1 .. n /\ u[j] = s[j]
      BY <1>1, <1>4, <2>3
    <3> QED
      BY <1>1, <1>6, <2>1, <3>1
  <2> QED
    BY <2>2, <2>3
<1> QED
  BY <1>2, <1>5, <1>6 DEF Sorts, u, S1

(* ... and has one. *)
LEMMA SortsExist ==
  ASSUME NEW S \in SUBSET Nat, IsFiniteSet(S)
  PROVE  \E s : Sorts(s, S)
<1> DEFINE has(T) == \E s : Sorts(s, T)
           bad == {k \in Nat : \E T \in SUBSET Nat :
                     IsFiniteSet(T) /\ Cardinality(T) = k /\ ~has(T)}
<1>1. ASSUME NEW T \in SUBSET Nat, IsFiniteSet(T), Cardinality(T) = 0
      PROVE  has(T)
  <2>1. <<>> \in [1 .. 0 -> T] /\ DOMAIN <<>> = {}
    OBVIOUS
  <2> QED
    BY <1>1, <2>1 DEF Sorts
<1>2. ASSUME bad # {} PROVE FALSE
  <2>0. bad \in SUBSET Nat
    OBVIOUS
  <2>1. PICK k \in bad : \A j \in bad : k <= j
    <3> HIDE DEF bad
    <3> QED
      BY <1>2, <2>0, LeastNat
  <2>2. PICK T \in SUBSET Nat : IsFiniteSet(T) /\ Cardinality(T) = k /\ ~has(T)
    BY <2>1
  <2>3. T # {}
    BY <1>1, <2>2, FS_EmptySet
  <2> DEFINE m == Max(T)
             U == T \ {m}
  <2>4. m \in T /\ \A x \in T : x <= m
    BY <2>2, <2>3, MaxOfFinite
  <2>5. /\ U \in SUBSET Nat /\ IsFiniteSet(U)
        /\ Cardinality(U) = k - 1 /\ Cardinality(U) \in Nat
    BY <2>2, <2>4, FS_RemoveElement, FS_CardinalityType
  <2>6. (\A x \in U : x < m) /\ U \cup {m} = T /\ m \in Nat
    <3>1. m \in Nat /\ \A x \in T : x \in Nat /\ x <= m
      BY <2>2, <2>4
    <3>2. U \cup {m} = T /\ \A x \in U : x \in T /\ x # m
      BY <2>4
    <3> HIDE DEF m, U
    <3>3. ASSUME NEW x \in U PROVE x < m
      <4>1. x \in Nat /\ x <= m /\ x # m
        BY <3>1, <3>2
      <4> QED
        BY <3>1, <4>1
    <3> QED
      BY <3>1, <3>2, <3>3
  <2> HIDE DEF m, U
  <2>7. has(U)
    <3>1. k - 1 \notin bad
      BY <2>0, <2>1, <2>5
    <3> HIDE DEF has
    <3> QED
      BY <2>5, <3>1
  <2>8. PICK s : Sorts(s, U)
    BY <2>7
  <2>9. Sorts(Append(s, m), T)
    BY <2>5, <2>6, <2>8, SortsAppend
  <2> QED
    BY <2>2, <2>9
<1>3. has(S)
  <2>1. Cardinality(S) \in Nat
    BY FS_CardinalityType
  <2> HIDE DEF has
  <2> QED
    BY <1>2, <2>1
<1> QED
  BY <1>3

LEMMA AscendingSorts ==
  ASSUME NEW S \in SUBSET Nat, IsFiniteSet(S)
  PROVE  Sorts(Ascending(S), S)
<1>1. PICK s : Sorts(s, S)
  BY SortsExist
<1>2. s \in [1 .. Cardinality(S) -> S]
  BY <1>1 DEF Sorts
<1> QED
  BY <1>1, <1>2 DEF Ascending

LEMMA AscendingTyped ==
  ASSUME NEW S \in SUBSET Nat, IsFiniteSet(S)
  PROVE  \A i \in DOMAIN Ascending(S) : Ascending(S)[i] \in S /\ Ascending(S)[i] \in Nat
<1> DEFINE a == Ascending(S)
<1>1. Sorts(a, S)
  BY AscendingSorts
<1> HIDE DEF a
<1>2. \A i \in DOMAIN a : a[i] \in S
  BY <1>1, SortsTyped
<1>3. \A i \in DOMAIN a : a[i] \in Nat
  BY <1>2
<1> QED
  BY <1>2, <1>3 DEF a

LEMMA AscendingAppend ==
  ASSUME NEW S \in SUBSET Nat, IsFiniteSet(S), NEW m \in Nat, \A x \in S : x < m
  PROVE  Ascending(S \cup {m}) = Append(Ascending(S), m)
<1> DEFINE S1 == S \cup {m}
           s == Append(Ascending(S), m)
<1>1. S1 \in SUBSET Nat /\ IsFiniteSet(S1)
  BY FS_AddElement
<1>2. Sorts(s, S1)
  BY AscendingSorts, SortsAppend
<1>3. Sorts(Ascending(S1), S1)
  BY <1>1, AscendingSorts
<1> HIDE DEF S1, s
<1>4. Ascending(S1) = s
  BY <1>1, <1>2, <1>3, SortsOnce
<1> QED
  BY <1>4 DEF S1, s

(* What a function gives for the elements of a set, in their order.        *)
Mapped(g, S) == [i \in DOMAIN Ascending(S) |-> g[Ascending(S)[i]]]

LEMMA MappedTyped ==
  ASSUME NEW g, NEW S \in SUBSET Nat, IsFiniteSet(S)
  PROVE  /\ Mapped(g, S) \in Seq({g[x] : x \in Nat})
         /\ Len(Mapped(g, S)) = Cardinality(S) /\ Cardinality(S) \in Nat
         /\ \A i \in 1 .. Cardinality(S) : Mapped(g, S)[i] = g[Ascending(S)[i]]
<1> DEFINE a == Ascending(S)
           n == Cardinality(S)
           V == {g[x] : x \in Nat}
           p == [i \in 1 .. n |-> g[a[i]]]
<1>1. n \in Nat /\ DOMAIN a = 1 .. n /\ \A i \in 1 .. n : a[i] \in S
  BY AscendingSorts, SortsTyped
<1>2. Mapped(g, S) = p
  BY <1>1 DEF Mapped
<1> HIDE DEF a, n
<1>3. \A i \in 1 .. n : g[a[i]] \in V
  BY <1>1
<1> HIDE DEF V
<1>4. p \in Seq(V) /\ Len(p) = n /\ \A i \in 1 .. n : p[i] = g[a[i]]
  BY <1>1, <1>3
<1> HIDE DEF p
<1> QED
  BY <1>1, <1>2, <1>4 DEF V, n, a

LEMMA MappedEmpty ==
  ASSUME NEW g, NEW S \in SUBSET Nat, IsFiniteSet(S)
  PROVE  Mapped(g, S) = <<>> <=> S = {}
<1> DEFINE V == {g[x] : x \in Nat}
           p == Mapped(g, S)
<1>1. p \in Seq(V) /\ Len(p) = Cardinality(S)
  BY MappedTyped
<1>2. Cardinality(S) = 0 <=> S = {}
  BY FS_EmptySet
<1> HIDE DEF V, p
<1>3. p = <<>> <=> Len(p) = 0
  BY <1>1, EmptySeq
<1> QED
  BY <1>1, <1>2, <1>3 DEF p

LEMMA MappedAppend ==
  ASSUME NEW g, NEW S \in SUBSET Nat, IsFiniteSet(S),
         NEW m \in Nat, \A x \in S : x < m
  PROVE  Mapped(g, S \cup {m}) = Append(Mapped(g, S), g[m])
<1> DEFINE a == Ascending(S)
           S1 == S \cup {m}
           b == Ascending(S1)
           n == Cardinality(S)
           V == {g[x] : x \in Nat}
           p == Mapped(g, S)
           q == Mapped(g, S1)
           r == Append(p, g[m])
<1>1. b = Append(a, m)
  BY AscendingAppend
<1>2. /\ a \in [1 .. n -> S] /\ n \in Nat
      /\ \A i \in 1 .. n : a[i] \in S
  BY AscendingSorts, SortsTyped DEF Sorts
<1>3. S1 \in SUBSET Nat /\ IsFiniteSet(S1) /\ Cardinality(S1) = n + 1
  BY FS_AddElement
<1>4. p \in Seq(V) /\ Len(p) = n /\ \A i \in 1 .. n : p[i] = g[a[i]]
  <2>1. p \in Seq(V) /\ Len(p) = n
    BY MappedTyped
  <2>2. \A i \in 1 .. n : p[i] = g[a[i]]
    BY MappedTyped
  <2> QED
    BY <2>1, <2>2, Zenon
<1>5. q \in Seq(V) /\ Len(q) = n + 1 /\ \A i \in 1 .. n + 1 : q[i] = g[b[i]]
  <2> HIDE DEF S1, n
  <2> QED
    BY <1>3, MappedTyped
<1> HIDE DEF a, b, n, S1, p, q
<1>6. b[n + 1] = m /\ \A i \in 1 .. n : b[i] = a[i]
  <2>0. a \in [1 .. n -> Nat]
    BY <1>2
  <2>1. a \in Seq(Nat) /\ Len(a) = n
    BY <1>2, <2>0
  <2> QED
    BY <1>1, <1>2, <2>1, AppendProperties
<1>7. g[m] \in V
  OBVIOUS
<1> HIDE DEF V
<1>8. /\ r \in Seq(V) /\ Len(r) = n + 1
      /\ \A i \in 1 .. n : r[i] = p[i]
      /\ r[n + 1] = g[m]
  BY <1>4, <1>7, AppendProperties
<1> HIDE DEF r
<1>9. \A i \in 1 .. n + 1 : q[i] = r[i]
  BY <1>2, <1>4, <1>5, <1>6, <1>8
<1>10. q = r
  BY <1>5, <1>8, <1>9, SeqEqual
<1> QED
  BY <1>10 DEF p, q, r, S1

-----------------------------------------------------------------------------
(* f[i] is the concatenation of the first i parts, for i up to n. *)
Flattens(f, parts, n) ==
  f = [i \in 1 .. n |-> IF i = 1 THEN parts[i] ELSE f[i - 1] \o parts[i]]

LEMMA FlattensAt ==
  ASSUME NEW parts, NEW n \in Nat, NEW f, Flattens(f, parts, n)
  PROVE  /\ f = [i \in 1 .. n |-> f[i]]
         /\ \A i \in 1 .. n :
              f[i] = IF i = 1 THEN parts[i] ELSE f[i - 1] \o parts[i]
<1> DEFINE g == [i \in 1 .. n |-> IF i = 1 THEN parts[i] ELSE f[i - 1] \o parts[i]]
<1>1. f = g
  BY DEF Flattens
<1>2. /\ g = [i \in 1 .. n |-> g[i]]
      /\ \A i \in 1 .. n : g[i] = IF i = 1 THEN parts[i] ELSE f[i - 1] \o parts[i]
  OBVIOUS
<1> HIDE DEF g
<1> QED
  BY <1>1, <1>2

(* The body of the recursive function has one solution ... *)
LEMMA FlattensOnce ==
  ASSUME NEW parts, NEW n \in Nat,
         NEW f, Flattens(f, parts, n), NEW g, Flattens(g, parts, n)
  PROVE  f = g
<1> DEFINE wrong == {i \in 1 .. n : f[i] # g[i]}
<1>0. \A h : Flattens(h, parts, n) =>
        /\ h = [i \in 1 .. n |-> h[i]]
        /\ \A i \in 1 .. n : h[i] = IF i = 1 THEN parts[i] ELSE h[i - 1] \o parts[i]
  BY FlattensAt
<1>1. ASSUME wrong # {} PROVE FALSE
  <2>0. wrong \in SUBSET Nat
    OBVIOUS
  <2>1. PICK m \in wrong : \A i \in wrong : m <= i
    <3> HIDE DEF wrong
    <3> QED
      BY <1>1, <2>0, LeastNat
  <2>2. CASE m = 1
    BY <1>0, <2>1, <2>2
  <2>3. CASE m # 1
    <3>1. m - 1 \in 1 .. n /\ m - 1 \notin wrong
      BY <2>1, <2>3
    <3> QED
      BY <1>0, <2>1, <2>3, <3>1
  <2> QED
    BY <2>2, <2>3
<1> QED
  BY <1>0, <1>1

LEMMA FlattensFurther ==
  ASSUME NEW S, NEW parts \in Seq(Seq(S)), NEW n \in Nat \ {0}, n + 1 <= Len(parts),
         NEW g, \A i \in 1 .. n : g[i] \in Seq(S), Flattens(g, parts, n)
  PROVE  \E f \in [1 .. n + 1 -> Seq(S)] : Flattens(f, parts, n + 1)
<1>1. \A i \in 1 .. n :
        g[i] = IF i = 1 THEN parts[i] ELSE g[i - 1] \o parts[i]
  BY FlattensAt
<1> DEFINE next == g[n] \o parts[n + 1]
           f == [i \in 1 .. n + 1 |-> IF i = n + 1 THEN next ELSE g[i]]
<1>2. next \in Seq(S)
  <2>1. parts[n + 1] \in Seq(S) /\ g[n] \in Seq(S)
    OBVIOUS
  <2> QED
    BY <2>1
<1>3. next = g[n] \o parts[n + 1]
  OBVIOUS
<1> HIDE DEF next
<1>4. f \in [1 .. n + 1 -> Seq(S)]
  BY <1>2
<1>5. f[n + 1] = next /\ \A i \in 1 .. n : f[i] = g[i]
  OBVIOUS
<1>6. f = [i \in 1 .. n + 1 |-> f[i]]
  OBVIOUS
<1> HIDE DEF f
<1>7. ASSUME NEW i \in 1 .. n + 1
      PROVE  f[i] = IF i = 1 THEN parts[i] ELSE f[i - 1] \o parts[i]
  <2>1. CASE i = n + 1
    <3>1. i # 1 /\ i - 1 = n /\ n \in 1 .. n
      BY <2>1
    <3> QED
      BY <1>3, <1>5, <2>1, <3>1
  <2>2. CASE i # n + 1
    <3>1. i \in 1 .. n /\ (i # 1 => i - 1 \in 1 .. n)
      BY <2>2
    <3> QED
      BY <1>1, <1>5, <3>1
  <2> QED
    BY <2>1, <2>2
<1>8. Flattens(f, parts, n + 1)
  BY <1>6, <1>7 DEF Flattens
<1> QED
  BY <1>4, <1>8

(* ... and has one, whose values are sequences of what the parts hold.     *)
LEMMA FlattensExist ==
  ASSUME NEW S, NEW parts \in Seq(Seq(S)), NEW n \in 1 .. Len(parts)
  PROVE  \E f \in [1 .. n -> Seq(S)] : Flattens(f, parts, n)
<1> DEFINE has(k) == \E f \in [1 .. k -> Seq(S)] : Flattens(f, parts, k)
           wrong == {k \in 1 .. Len(parts) : ~has(k)}
<1>0. Len(parts) \in Nat /\ \A i \in 1 .. Len(parts) : parts[i] \in Seq(S)
  OBVIOUS
<1>1. has(1)
  <2> DEFINE f == [i \in 1 .. 1 |-> parts[1]]
  <2>1. f \in [1 .. 1 -> Seq(S)]
    BY <1>0
  <2>2. f = [i \in 1 .. 1 |-> IF i = 1 THEN parts[i] ELSE f[i - 1] \o parts[i]]
    OBVIOUS
  <2> QED
    BY <2>1, <2>2 DEF Flattens
<1>2. ASSUME NEW j \in Nat \ {0}, j + 1 <= Len(parts), has(j)
      PROVE  has(j + 1)
  BY <1>2, FlattensFurther
<1> HIDE DEF has
<1>3. ASSUME wrong # {} PROVE FALSE
  <2>1. wrong \in SUBSET Nat
    BY <1>0
  <2>2. PICK m \in wrong : \A k \in wrong : m <= k
    <3> HIDE DEF wrong
    <3> QED
      BY <1>3, <2>1, LeastNat
  <2>3. m # 1
    BY <1>1
  <2> DEFINE j == m - 1
  <2>4. j \in Nat \ {0} /\ j + 1 = m /\ m <= Len(parts) /\ j \notin wrong
    BY <1>0, <2>2, <2>3
  <2>5. has(j)
    BY <1>0, <2>4
  <2> HIDE DEF j
  <2> QED
    BY <1>2, <2>4, <2>5
<1>4. has(n)
  BY <1>3
<1> QED
  BY <1>4 DEF has

LEMMA FlattenIsLast ==
  ASSUME NEW S, NEW parts \in Seq(Seq(S)), parts # <<>>,
         NEW f, Flattens(f, parts, Len(parts))
  PROVE  FlattenSeq(parts) = f[Len(parts)]
<1>1. Len(parts) \in Nat /\ Len(parts) # 0
  BY EmptySeq
<1> DEFINE h == CHOOSE g : Flattens(g, parts, Len(parts))
<1>2. Flattens(h, parts, Len(parts))
  OBVIOUS
<1>3. h = f
  BY <1>1, <1>2, FlattensOnce
<1>4. FlattenSeq(parts) = h[Len(parts)]
  BY <1>1 DEF FlattenSeq, Flattens
<1> QED
  BY <1>3, <1>4

-----------------------------------------------------------------------------
LEMMA FlattenEmpty == FlattenSeq(<<>>) = <<>>
  BY DEF FlattenSeq

LEMMA FlattenType ==
  ASSUME NEW S, NEW parts \in Seq(Seq(S))
  PROVE  FlattenSeq(parts) \in Seq(S)
<1>1. CASE parts = <<>>
  <2>1. <<>> \in Seq(S)
    OBVIOUS
  <2>2. FlattenSeq(parts) = <<>>
    BY <1>1, FlattenEmpty, Zenon
  <2> QED
    BY <2>1, <2>2, Zenon
<1>2. CASE parts # <<>>
  <2> DEFINE n == Len(parts)
  <2>1. n \in 1 .. n
    BY <1>2, EmptySeq
  <2>2. PICK f : f \in [1 .. n -> Seq(S)] /\ Flattens(f, parts, n)
    BY <2>1, FlattensExist
  <2>3. FlattenSeq(parts) = f[n]
    BY <1>2, <2>2, FlattenIsLast
  <2> HIDE DEF n
  <2> QED
    BY <2>1, <2>2, <2>3
<1> QED
  BY <1>1, <1>2

LEMMA FlattenAppend ==
  ASSUME NEW S, NEW parts \in Seq(Seq(S)), NEW last \in Seq(S)
  PROVE  FlattenSeq(Append(parts, last)) = FlattenSeq(parts) \o last
<1> DEFINE all == Append(parts, last)
           n == Len(parts)
<1>1. /\ all \in Seq(Seq(S)) /\ Len(all) = n + 1 /\ all # <<>> /\ n \in Nat
      /\ \A i \in 1 .. n : all[i] = parts[i]
      /\ all[n + 1] = last
  BY AppendProperties, EmptySeq
<1> HIDE DEF all
<1> DEFINE k == n + 1
<1>k. k \in Nat /\ k \in 1 .. Len(all)
  BY <1>1
<1>2. PICK f : f \in [1 .. k -> Seq(S)] /\ Flattens(f, all, k)
  <2> HIDE DEF k, n
  <2> QED
    BY <1>1, <1>k, FlattensExist
<1>g. Flattens(f, all, k)
  BY <1>2
<1>f. \A i \in 1 .. k : f[i] = IF i = 1 THEN all[i] ELSE f[i - 1] \o all[i]
  <2> HIDE DEF k, n
  <2> QED
    BY <1>k, <1>g, FlattensAt
<1>3. FlattenSeq(all) = f[n + 1]
  BY <1>1, <1>2, FlattenIsLast
<1>4. CASE n = 0
  <2>1. parts = <<>>
    BY <1>4, EmptySeq
  <2>2. f[n + 1] = last
    BY <1>1, <1>f, <1>4
  <2> QED
    BY <1>3, <2>1, <2>2, FlattenEmpty DEF all
<1>5. CASE n # 0
  <2> DEFINE g == [i \in 1 .. n |-> f[i]]
  <2>1. ASSUME NEW i \in 1 .. n
        PROVE  g[i] = IF i = 1 THEN parts[i] ELSE g[i - 1] \o parts[i]
    <3>1. f[i] = IF i = 1 THEN all[i] ELSE f[i - 1] \o all[i]
      <4>1. i \in 1 .. n + 1 /\ n + 1 \in Nat
        BY <1>1
      <4> QED
        BY <1>f, <4>1
    <3>2. i # 1 => i - 1 \in 1 .. n
      BY <1>1
    <3> QED
      BY <1>1, <3>1, <3>2
  <2>2. g = [i \in 1 .. n |-> g[i]]
    OBVIOUS
  <2>3. Flattens(g, parts, n)
    <3> HIDE DEF g
    <3> QED
      BY <2>1, <2>2 DEF Flattens
  <2>4. FlattenSeq(parts) = g[n]
    <3>1. parts # <<>>
      BY <1>5
    <3> HIDE DEF g
    <3> QED
      BY <2>3, <3>1, FlattenIsLast
  <2>5. f[n + 1] = f[n] \o last
    <3>1. k \in 1 .. k /\ k # 1 /\ k - 1 = n
      BY <1>1, <1>5
    <3>2. f[k] = f[k - 1] \o all[k]
      <4> HIDE DEF k
      <4> QED
        BY <1>f, <3>1
    <3> QED
      BY <1>1, <3>1, <3>2
  <2>6. g[n] = f[n]
    BY <1>1, <1>5
  <2> QED
    BY <1>3, <2>4, <2>5, <2>6 DEF all
<1> QED
  BY <1>4, <1>5
=============================================================================
