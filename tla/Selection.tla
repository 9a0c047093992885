----------------------------- MODULE Selection -----------------------------
(* What Vec::retain and the filters of iterators leave of a sequence, in    *)
(* closed form (SelectSeq is defined by recursion), and the lemmas that say *)
(* all there is to say of it: an order-preserving choice of the positions.  *)
(* What scans and loops need is here too: a least number, and induction.    *)
EXTENDS Naturals, Sequences, FiniteSets, FiniteSetTheorems, SequenceTheorems,
        WellFoundedInduction, TLAPS

Positions(s, T) == {i \in 1 .. Len(s) : s[i] \in T}
Rank(P, i)      == Cardinality({j \in P : j <= i})
Nth(P, n)       == CHOOSE i \in P : Rank(P, i) = n

\* The elements of s that are in T, in their order.
Retain(s, T) == LET P == Positions(s, T) IN [n \in 1 .. Cardinality(P) |-> s[Nth(P, n)]]

\* Checked on small sequences: it is SelectSeq.
ASSUME RetainIsSelectSeq ==
    \A n \in 0 .. 3 : \A s \in [1 .. n -> 1 .. 3], T \in SUBSET (1 .. 3) :
        Retain(s, T) = SelectSeq(s, LAMBDA x : x \in T)

-----------------------------------------------------------------------------
\* A scan that stops at the first of some numbers stops.
LEMMA LeastIsThere ==
    ASSUME NEW S, S \subseteq Nat, S # {}
    PROVE  LET least == CHOOSE i \in S : \A j \in S : i <= j
           IN  least \in S /\ \A j \in S : least <= j
<1> DEFINE Less == {ss \in Nat \X Nat : ss[1] < ss[2]}
<1>1. IsWellFoundedOn(Less, Nat)
  BY NatLessThanWellFounded DEF OpToRel
<1>2. PICK i \in S : \A j \in S : ~(<<j, i>> \in Less)
  <2> HIDE DEF Less
  <2> QED BY <1>1, WFMin
<1>3. \A j \in S : i <= j
  <2>1. TAKE j \in S
  <2>2. i \in Nat /\ j \in Nat
    OBVIOUS
  <2>3. ~(j < i)
    BY <1>2, <2>2
  <2> QED BY <2>2, <2>3
<1> QED BY <1>2, <1>3

LEMMA GreatestIsThere ==
    ASSUME NEW n \in Nat, NEW S, S \subseteq 1 .. n, S # {}
    PROVE  LET greatest == CHOOSE i \in S : \A j \in S : j <= i
           IN  greatest \in S /\ \A j \in S : j <= greatest
<1> DEFINE T == {n - i : i \in S}
           m == CHOOSE i \in T : \A j \in T : i <= j
<1>1. T \subseteq Nat /\ T # {}
  OBVIOUS
<1>2. m \in T /\ \A j \in T : m <= j
  BY <1>1, LeastIsThere
<1>3. PICK i \in S : m = n - i
  BY <1>2
<1>4. \A j \in S : m <= n - j
  BY <1>2
<1> HIDE DEF m, T
<1>5. \A j \in S : j <= i
  BY <1>3, <1>4
<1> QED BY <1>5

\* Induction, in the form in which its predicate is a set.
LEMMA CountsUp ==
    ASSUME NEW L \in Nat, NEW P, 0 \in P, \A i \in 0 .. L - 1 : i \in P => i + 1 \in P
    PROVE  0 .. L \subseteq P
<1> DEFINE Bad == {k \in 0 .. L : k \notin P}
           least == CHOOSE k \in Bad : \A j \in Bad : k <= j
<1>1. SUFFICES ASSUME Bad # {} PROVE FALSE
  OBVIOUS
<1>2. least \in Bad /\ \A j \in Bad : least <= j
  <2>1. Bad \subseteq Nat
    OBVIOUS
  <2> HIDE DEF Bad
  <2> QED BY <1>1, <2>1, LeastIsThere
<1>3. PICK k \in 0 .. L : k = least /\ k \notin P
  BY <1>2
<1>4. k # 0
  BY <1>3
<1>5. k - 1 \in 0 .. L /\ k - 1 \in 0 .. L - 1 /\ (k - 1) + 1 = k /\ ~(k <= k - 1)
  BY <1>4
<1>6. k - 1 \notin Bad
  <2> HIDE DEF Bad, least
  <2> QED BY <1>2, <1>3, <1>5
<1>7. k - 1 \in P
  BY <1>5, <1>6
<1> HIDE DEF Bad, least
<1> QED BY <1>3, <1>5, <1>7

\* What a loop accumulates, a function defined from its own value one before,
\* is there.
Accumulated(f, L, first, step) ==
    f = [i \in 0 .. L |-> IF i = 0 THEN first ELSE step[<<f[i - 1], i>>]]

LEMMA Accumulates ==
    ASSUME NEW L \in Nat, NEW S, NEW first \in S, NEW step \in [S \X (1 .. L) -> S]
    PROVE  \E f \in [0 .. L -> S] : Accumulated(f, L, first, step)
<1> DEFINE P == {k \in 0 .. L : \E f \in [0 .. k -> S] :
                    f = [i \in 0 .. k |-> IF i = 0 THEN first ELSE step[<<f[i - 1], i>>]]}
<1>1. 0 \in P
  <2>1. PICK f : f = [i \in 0 .. 0 |-> first]
    OBVIOUS
  <2>2. f \in [0 .. 0 -> S] /\ \A i \in 0 .. 0 : i = 0
    BY <2>1
  <2>3. f = [i \in 0 .. 0 |-> IF i = 0 THEN first ELSE step[<<f[i - 1], i>>]]
    BY <2>1, <2>2
  <2> QED BY <2>2, <2>3
<1>2. ASSUME NEW k \in 0 .. L - 1, k \in P PROVE k + 1 \in P
  <2>1. PICK f \in [0 .. k -> S] :
           f = [i \in 0 .. k |-> IF i = 0 THEN first ELSE step[<<f[i - 1], i>>]]
    BY <1>2
  <2>2. PICK g : g = [i \in 0 .. k + 1 |-> IF i = 0 THEN first ELSE step[<<f[i - 1], i>>]]
    OBVIOUS
  <2>3. \A i \in 0 .. k + 1 : i # 0 => i - 1 \in 0 .. k /\ i - 1 \in 0 .. k + 1 /\ i \in 1 .. L
    OBVIOUS
  <2>4. \A j \in 0 .. k : j \in 0 .. k + 1 /\ f[j] = g[j]
    BY <2>1, <2>2
  <2>5. g \in [0 .. k + 1 -> S]
    BY <2>2, <2>3
  <2>6. g = [i \in 0 .. k + 1 |-> IF i = 0 THEN first ELSE step[<<g[i - 1], i>>]]
    BY <2>2, <2>3, <2>4
  <2>7. k + 1 \in 0 .. L
    OBVIOUS
  <2> QED BY <2>5, <2>6, <2>7
<1>3. 0 .. L \subseteq P
  <2> HIDE DEF P
  <2> QED BY <1>1, <1>2, CountsUp
<1>4. L \in 0 .. L
  OBVIOUS
<1>5. L \in P
  BY ONLY <1>3, <1>4
<1> QED BY <1>5 DEF Accumulated

\* A position's rank among those chosen counts upwards from one without gaps.
LEMMA RankOrders ==
    ASSUME NEW L \in Nat, NEW P \in SUBSET (1 .. L)
    PROVE  /\ IsFiniteSet(P) /\ Cardinality(P) \in 0 .. L
           /\ \A i \in P : Rank(P, i) \in 1 .. Cardinality(P)
           /\ \A i, j \in P : i < j => Rank(P, i) < Rank(P, j)
<1>1. /\ IsFiniteSet(1 .. L) /\ Cardinality(1 .. L) = L
  BY FS_Interval
<1>2. /\ IsFiniteSet(P) /\ Cardinality(P) \in Nat /\ Cardinality(P) <= L
  BY <1>1, FS_Subset, FS_CardinalityType
<1>3. ASSUME NEW i \in P PROVE Rank(P, i) \in 1 .. Cardinality(P)
  <2> DEFINE B == {j \in P : j <= i}
  <2>1. B \subseteq P /\ {i} \subseteq B
    OBVIOUS
  <2>2. IsFiniteSet(B) /\ Cardinality(B) \in Nat /\ Cardinality(B) <= Cardinality(P)
    BY <1>2, <2>1, FS_Subset, FS_CardinalityType
  <2>3. Cardinality({i}) <= Cardinality(B) /\ Cardinality({i}) = 1
    BY <2>1, <2>2, FS_Subset, FS_Singleton
  <2> QED BY <1>2, <2>2, <2>3 DEF Rank
<1>4. ASSUME NEW i \in P, NEW j \in P, i < j PROVE Rank(P, i) < Rank(P, j)
  <2> DEFINE B == {k \in P : k <= i}
             C == {k \in P : k <= j}
  <2>1. B \subseteq C /\ j \in C /\ j \notin B /\ C \subseteq P
    <3>1. P \subseteq Nat
      OBVIOUS
    <3>2. j \in C /\ j \notin B
      BY <1>4, <3>1
    <3>3. ASSUME NEW k \in B PROVE k \in C
      BY <1>4, <3>1
    <3> QED BY <3>2, <3>3
  <2>2. IsFiniteSet(C) /\ Cardinality(C) \in Nat
    BY <1>2, <2>1, FS_Subset, FS_CardinalityType
  <2>3. Cardinality(B) \in Nat /\ Cardinality(B) <= Cardinality(C)
        /\ Cardinality(B) # Cardinality(C)
    <3>1. IsFiniteSet(B) /\ Cardinality(B) <= Cardinality(C)
          /\ (Cardinality(B) = Cardinality(C) => B = C)
      BY <2>1, <2>2, FS_Subset
    <3> QED BY <2>1, <3>1, FS_CardinalityType
  <2> QED BY <2>2, <2>3 DEF Rank
<1> QED BY <1>2, <1>3, <1>4

LEMMA NthRanks ==
    ASSUME NEW L \in Nat, NEW P \in SUBSET (1 .. L)
    PROVE  /\ \A n \in 1 .. Cardinality(P) : Nth(P, n) \in P /\ Rank(P, Nth(P, n)) = n
           /\ \A i \in P : Nth(P, Rank(P, i)) = i
           /\ \A m, n \in 1 .. Cardinality(P) : m < n => Nth(P, m) < Nth(P, n)
<1> DEFINE C == 1 .. Cardinality(P)
           f == [i \in P |-> Rank(P, i)]
<1>1. /\ IsFiniteSet(P) /\ Cardinality(P) \in Nat
      /\ \A i \in P : Rank(P, i) \in C
      /\ \A i, j \in P : i < j => Rank(P, i) < Rank(P, j)
  BY RankOrders
<1>2. \A i, j \in P : Rank(P, i) = Rank(P, j) => i = j
  <2> SUFFICES ASSUME NEW i \in P, NEW j \in P, Rank(P, i) = Rank(P, j), i # j PROVE FALSE
    OBVIOUS
  <2>1. i < j \/ j < i
    OBVIOUS
  <2>2. Rank(P, i) \in Nat /\ Rank(P, j) \in Nat
    BY <1>1
  <2> QED BY <1>1, <2>1, <2>2
<1>3. f \in Injection(P, C)
  BY <1>1, <1>2 DEF Injection, IsInjective
<1>4. IsFiniteSet(C) /\ Cardinality(C) = Cardinality(P)
  BY <1>1, FS_Interval
<1>5. f \in Surjection(P, C)
  <2> HIDE DEF f, C
  <2> QED BY <1>3, <1>4, FS_Injection
<1>6. \A n \in C : \E i \in P : Rank(P, i) = n
  BY <1>5 DEF Surjection
<1>7. \A n \in C : Nth(P, n) \in P /\ Rank(P, Nth(P, n)) = n
  BY <1>6 DEF Nth
<1>8. \A i \in P : Nth(P, Rank(P, i)) = i
  BY <1>1, <1>2, <1>7
<1>9. ASSUME NEW m \in C, NEW n \in C, m < n PROVE Nth(P, m) < Nth(P, n)
  <2> DEFINE a == Nth(P, m)
             b == Nth(P, n)
  <2>1. a \in P /\ b \in P /\ Rank(P, a) = m /\ Rank(P, b) = n
    BY <1>7
  <2>2. a \in Nat /\ b \in Nat
    <3>1. P \subseteq Nat
      OBVIOUS
    <3> HIDE DEF a, b
    <3> QED BY <2>1, <3>1
  <2>3. ~ (b < a) /\ a # b
    <3>1. m \in Nat /\ n \in Nat
      BY <1>1
    <3> HIDE DEF a, b
    <3> QED BY <1>1, <1>9, <2>1, <3>1
  <2> QED BY <2>2, <2>3
<1> QED BY <1>7, <1>8, <1>9

\* What is kept is a sequence of the elements in T: each is at a position of
\* s, later ones at later positions, and no position is left out.
LEMMA RetainChooses ==
    ASSUME NEW S, NEW s \in Seq(S), NEW T
    PROVE  LET P == Positions(s, T)
               t == Retain(s, T)
           IN  /\ t \in Seq(S) /\ Len(t) = Cardinality(P) /\ Len(t) <= Len(s)
               /\ \A n \in 1 .. Len(t) :
                    Nth(P, n) \in 1 .. Len(s) /\ t[n] = s[Nth(P, n)] /\ t[n] \in T
               /\ \A m, n \in 1 .. Len(t) : m < n => Nth(P, m) < Nth(P, n)
               /\ \A i \in 1 .. Len(s) : s[i] \in T =>
                    \E n \in 1 .. Len(t) : Nth(P, n) = i /\ t[n] = s[i]
<1> DEFINE P == Positions(s, T)
           C == Cardinality(P)
           t == Retain(s, T)
<1>1. Len(s) \in Nat /\ P \in SUBSET (1 .. Len(s))
  BY DEF Positions
<1>2. C \in 0 .. Len(s) /\ \A i \in P : Rank(P, i) \in 1 .. C
  BY <1>1, RankOrders
<1>3. /\ \A n \in 1 .. C : Nth(P, n) \in P /\ Rank(P, Nth(P, n)) = n
      /\ \A i \in P : Nth(P, Rank(P, i)) = i
      /\ \A m, n \in 1 .. C : m < n => Nth(P, m) < Nth(P, n)
  BY <1>1, NthRanks
<1>4. t = [n \in 1 .. C |-> s[Nth(P, n)]]
  BY DEF Retain
<1>5. \A n \in 1 .. C : Nth(P, n) \in 1 .. Len(s) /\ s[Nth(P, n)] \in T /\ s[Nth(P, n)] \in S
  <2>1. \A i \in P : i \in 1 .. Len(s) /\ s[i] \in T /\ s[i] \in S
    BY ElementOfSeq DEF Positions
  <2> HIDE DEF P, C
  <2> QED BY <1>3, <2>1
<1>6. t \in Seq(S) /\ Len(t) = C /\ \A n \in 1 .. C : t[n] = s[Nth(P, n)]
  <2> HIDE DEF P, C, t
  <2> QED BY <1>1, <1>2, <1>4, <1>5
<1>7. \A i \in 1 .. Len(s) : s[i] \in T => \E n \in 1 .. C : Nth(P, n) = i /\ t[n] = s[i]
  <2> SUFFICES ASSUME NEW i \in 1 .. Len(s), s[i] \in T
               PROVE  \E n \in 1 .. C : Nth(P, n) = i /\ t[n] = s[i]
    OBVIOUS
  <2>1. i \in P
    BY DEF Positions
  <2> HIDE DEF P, C, t
  <2>2. Rank(P, i) \in 1 .. C /\ Nth(P, Rank(P, i)) = i
    BY <1>2, <1>3, <2>1
  <2> QED BY <1>6, <2>2
<1>8. C <= Len(s)
  BY <1>1, <1>2
<1> HIDE DEF P, C, t
<1>9. /\ t \in Seq(S) /\ Len(t) = C /\ Len(t) <= Len(s)
      /\ \A n \in 1 .. Len(t) : Nth(P, n) \in 1 .. Len(s) /\ t[n] = s[Nth(P, n)] /\ t[n] \in T
  BY <1>5, <1>6, <1>8
<1>10. \A m, n \in 1 .. Len(t) : m < n => Nth(P, m) < Nth(P, n)
  BY <1>3, <1>6
<1>11. \A i \in 1 .. Len(s) : s[i] \in T => \E n \in 1 .. Len(t) : Nth(P, n) = i /\ t[n] = s[i]
  BY <1>6, <1>7
<1>12. Len(t) = Cardinality(P)
  BY <1>6 DEF C
<1> QED BY <1>9, <1>10, <1>11, <1>12, Zenon DEF P, t

\* The form that is needed most: the elements of s that are in T and no
\* others are there, and a sequence without repetitions stays one.
LEMMA RetainElements ==
    ASSUME NEW S, NEW s \in Seq(S), NEW T
    PROVE  LET t == Retain(s, T)
           IN  /\ t \in Seq(S) /\ Len(t) \in Nat /\ Len(t) <= Len(s)
               /\ \A n \in 1 .. Len(t) : t[n] \in T /\ \E i \in 1 .. Len(s) : t[n] = s[i]
               /\ \A i \in 1 .. Len(s) : s[i] \in T => \E n \in 1 .. Len(t) : t[n] = s[i]
               /\ (\A i, j \in 1 .. Len(s) : i # j => s[i] # s[j])
                    => \A m, n \in 1 .. Len(t) : m # n => t[m] # t[n]
<1> DEFINE P == Positions(s, T)
           t == Retain(s, T)
<1> HIDE DEF P, t
<1>1. /\ t \in Seq(S) /\ Len(t) <= Len(s)
      /\ \A n \in 1 .. Len(t) : Nth(P, n) \in 1 .. Len(s) /\ t[n] = s[Nth(P, n)] /\ t[n] \in T
      /\ \A m, n \in 1 .. Len(t) : m < n => Nth(P, m) < Nth(P, n)
      /\ \A i \in 1 .. Len(s) : s[i] \in T => \E n \in 1 .. Len(t) : t[n] = s[i]
  BY RetainChooses DEF P, t
<1>2. Len(t) \in Nat
  BY <1>1
<1>3. ASSUME \A i, j \in 1 .. Len(s) : i # j => s[i] # s[j],
             NEW m \in 1 .. Len(t), NEW n \in 1 .. Len(t), m # n
      PROVE  t[m] # t[n]
  <2>1. m < n \/ n < m
    <3>1. m \in Nat /\ n \in Nat
      BY <1>2
    <3> QED BY <1>3, <3>1
  <2>2. Nth(P, m) # Nth(P, n)
    <3>1. Nth(P, m) \in Nat /\ Nth(P, n) \in Nat
      BY <1>1
    <3> QED BY <1>1, <2>1, <3>1
  <2> QED BY <1>1, <1>3, <2>2
<1> QED BY <1>1, <1>2, <1>3 DEF t

\* The last of these on its own.
LEMMA RetainDistinct ==
    ASSUME NEW S, NEW s \in Seq(S), NEW T, \A i, j \in 1 .. Len(s) : i # j => s[i] # s[j]
    PROVE  \A m, n \in 1 .. Len(Retain(s, T)) : m # n => Retain(s, T)[m] # Retain(s, T)[n]
<1>1. PICK t : t = Retain(s, T)
  OBVIOUS
<1>2. (\A i, j \in 1 .. Len(s) : i # j => s[i] # s[j])
        => \A m, n \in 1 .. Len(t) : m # n => t[m] # t[n]
  BY <1>1, RetainElements
<1>3. \A m, n \in 1 .. Len(t) : m # n => t[m] # t[n]
  BY <1>2
<1> QED BY <1>1, <1>3

-----------------------------------------------------------------------------
(***************************************************************************)
(* Queues: who is in one, and that nobody is in it twice.                  *)
(***************************************************************************)
In(x, s)    == \E i \in 1 .. Len(s) : s[i] = x
Distinct(s) == \A i, j \in 1 .. Len(s) : i # j => s[i] # s[j]

LEMMA Joined ==
    ASSUME NEW S, NEW s \in Seq(S), NEW x \in S, Distinct(s), ~In(x, s)
    PROVE  /\ Append(s, x) \in Seq(S) /\ Distinct(Append(s, x))
           /\ \A y : In(y, Append(s, x)) <=> In(y, s) \/ y = x
           /\ s # <<>> => Head(Append(s, x)) = Head(s)
           /\ Append(s, x) # <<>>
<1>1. PICK t : t = Append(s, x)
  OBVIOUS
<1>2. /\ t \in Seq(S) /\ Len(t) = Len(s) + 1 /\ Len(s) \in Nat /\ t[Len(s) + 1] = x
      /\ \A i \in 1 .. Len(s) : t[i] = s[i]
  BY <1>1, AppendProperties
<1>3. Distinct(t) /\ \A y : In(y, t) <=> In(y, s) \/ y = x
  <2>1. \A i \in 1 .. Len(s) : i \in 1 .. Len(t)
    BY <1>2
  <2>2. Len(t) \in 1 .. Len(t) /\ Len(t) = Len(s) + 1
    BY <1>2
  <2>3. \A i \in 1 .. Len(t) : i \in 1 .. Len(s) \/ i = Len(s) + 1
    BY <1>2
  <2>4. \A y : In(y, t) <=> In(y, s) \/ y = x
    BY <1>2, <2>1, <2>2, <2>3, Zenon DEF In
  <2>5. Distinct(t)
    BY <1>2, <2>3 DEF Distinct, In
  <2> QED BY <2>4, <2>5
<1>4. s # <<>> => Head(t) = Head(s)
  <2> SUFFICES ASSUME s # <<>> PROVE Head(t) = Head(s)
    OBVIOUS
  <2>1. 1 \in 1 .. Len(s) /\ Head(s) = s[1]
    BY <1>2, HeadTailProperties, EmptySeq
  <2>2. Head(t) = t[1]
    BY <1>2, HeadTailProperties, EmptySeq
  <2> QED BY <1>2, <2>1, <2>2
<1>5. t # <<>>
  BY <1>2, EmptySeq
<1> QED BY <1>1, <1>2, <1>3, <1>4, <1>5

LEMMA Served ==
    ASSUME NEW S, NEW s \in Seq(S), s # <<>>, Distinct(s)
    PROVE  /\ Tail(s) \in Seq(S) /\ Distinct(Tail(s)) /\ Head(s) \in S /\ In(Head(s), s)
           /\ \A y : In(y, Tail(s)) <=> In(y, s) /\ y # Head(s)
<1>1. PICK t, h : t = Tail(s) /\ h = Head(s)
  OBVIOUS
<1>2. /\ t \in Seq(S) /\ Len(t) = Len(s) - 1 /\ Len(s) \in Nat \ {0} /\ h = s[1] /\ h \in S
      /\ \A i \in 1 .. Len(t) : t[i] = s[i + 1]
  BY <1>1, HeadTailProperties, EmptySeq
<1>3. \A i \in 1 .. Len(t) : i + 1 \in 1 .. Len(s) /\ i + 1 # 1
  BY <1>2
<1>4. 1 \in 1 .. Len(s)
  BY <1>2
<1>5. Distinct(t) /\ In(h, s) /\ \A y : In(y, t) => In(y, s) /\ y # h
  BY <1>2, <1>3, <1>4 DEF Distinct, In
<1>6. ASSUME NEW y, In(y, s), y # h PROVE In(y, t)
  <2>1. PICK i \in 1 .. Len(s) : s[i] = y
    BY <1>6 DEF In
  <2>2. i # 1
    BY <1>2, <1>6, <2>1
  <2>3. i - 1 \in 1 .. Len(t) /\ (i - 1) + 1 = i
    BY <1>2, <2>2
  <2> QED BY <1>2, <2>1, <2>3 DEF In
<1> QED BY <1>1, <1>2, <1>5, <1>6

LEMMA Retained ==
    ASSUME NEW S, NEW s \in Seq(S), NEW T
    PROVE  /\ Retain(s, T) \in Seq(S)
           /\ \A x : In(x, Retain(s, T)) <=> In(x, s) /\ x \in T
<1>1. PICK t : t = Retain(s, T)
  OBVIOUS
<1>2. /\ t \in Seq(S)
      /\ \A n \in 1 .. Len(t) : t[n] \in T /\ \E i \in 1 .. Len(s) : t[n] = s[i]
  BY <1>1, RetainElements
<1>3. \A i \in 1 .. Len(s) : s[i] \in T => \E n \in 1 .. Len(t) : t[n] = s[i]
  BY <1>1, RetainElements
<1>4. ASSUME NEW x PROVE In(x, t) <=> In(x, s) /\ x \in T
  <2>1. In(x, t) => In(x, s) /\ x \in T
    BY <1>2 DEF In
  <2>2. In(x, s) /\ x \in T => In(x, t)
    BY <1>3 DEF In
  <2> QED BY <2>1, <2>2
<1> QED BY <1>1, <1>2, <1>4

LEMMA Withdrawn ==
    ASSUME NEW S, NEW s \in Seq(S), NEW x, Distinct(s)
    PROVE  LET t == Retain(s, S \ {x})
           IN  /\ t \in Seq(S) /\ Distinct(t)
               /\ \A y : In(y, t) <=> In(y, s) /\ y # x
<1>0. PICK T : T = S \ {x}
  OBVIOUS
<1>1. PICK t : t = Retain(s, T)
  OBVIOUS
<1>2. t \in Seq(S) /\ \A y : In(y, t) <=> In(y, s) /\ y \in T
  BY <1>1, Retained
<1>3. \A m, n \in 1 .. Len(t) : m # n => t[m] # t[n]
  <2>1. \A i, j \in 1 .. Len(s) : i # j => s[i] # s[j]
    BY DEF Distinct
  <2> QED BY <1>1, <2>1, RetainDistinct
<1>4. \A y : In(y, s) => y \in S
  BY ElementOfSeq DEF In
<1>5. Distinct(t) /\ \A y : In(y, t) <=> In(y, s) /\ y # x
  BY <1>0, <1>2, <1>3, <1>4 DEF Distinct
<1> QED BY <1>0, <1>1, <1>2, <1>5

-----------------------------------------------------------------------------
(***************************************************************************)
(* Sequences cut up and put together.                                      *)
(***************************************************************************)
\* bytes[a..b] of the code, and one sequence after another: the provers do
\* better with concatenation when its definition is out of sight.
Slice(s, a, b) == SubSeq(s, a + 1, b)
Then(u, v)     == u \o v

\* Two sequences one after the other come apart at the border.
LEMMA Pieces ==
    ASSUME NEW S, NEW u \in Seq(S), NEW v \in Seq(S)
    PROVE  /\ SubSeq(u \o v, 1, Len(u)) = u
           /\ SubSeq(u \o v, Len(u) + 1, Len(u \o v)) = v
<1>1. PICK w : w = u \o v
  OBVIOUS
<1>2. /\ w \in Seq(S) /\ Len(w) = Len(u) + Len(v) /\ Len(u) \in Nat /\ Len(v) \in Nat
      /\ \A i \in 1 .. Len(u) : w[i] = u[i] /\ w[i] \in S
      /\ \A i \in 1 .. Len(v) : w[Len(u) + i] = v[i] /\ w[Len(u) + i] \in S
  BY <1>1, ConcatProperties, ElementOfSeq, LenProperties
<1>3. SubSeq(w, 1, Len(u)) = u
  <2>1. \A i \in 1 .. Len(u) : w[i] \in S
    BY <1>2
  <2>2. PICK s : s = SubSeq(w, 1, Len(u))
    OBVIOUS
  <2>3. s \in Seq(S) /\ Len(s) = Len(u) /\ \A i \in 1 .. Len(u) : s[i] = w[i]
    BY <1>2, <2>1, <2>2, SubSeqProperties
  <2>4. \A i \in 1 .. Len(u) : s[i] = u[i]
    BY <1>2, <2>3
  <2> QED BY <2>2, <2>3, <2>4, SeqEqual
<1>4. SubSeq(w, Len(u) + 1, Len(w)) = v
  <2>1. \A i \in Len(u) + 1 .. Len(w) : w[i] \in S
    <3>1. TAKE i \in Len(u) + 1 .. Len(w)
    <3>2. i - Len(u) \in 1 .. Len(v) /\ Len(u) + (i - Len(u)) = i
      BY <1>2
    <3> QED BY <1>2, <3>2
  <2>2. PICK s : s = SubSeq(w, Len(u) + 1, Len(w))
    OBVIOUS
  <2>3. s \in Seq(S) /\ Len(s) = Len(v) /\ \A i \in 1 .. Len(v) : s[i] = w[Len(u) + i]
    BY <1>2, <2>1, <2>2, SubSeqProperties
  <2>4. \A i \in 1 .. Len(v) : s[i] = v[i]
    BY <1>2, <2>3
  <2> QED BY <2>2, <2>3, <2>4, SeqEqual
<1> QED BY <1>1, <1>3, <1>4

\* A slice: how long it is, what it holds and how it fits together.
IsSlice(s, t, a, b, S) ==
    s \in Seq(S) /\ Len(s) = b - a /\ \A i \in 1 .. b - a : s[i] = t[a + i]

LEMMA SliceIs ==
    ASSUME NEW S, NEW t \in Seq(S), NEW a \in Nat, NEW b \in Nat, a <= b, b <= Len(t)
    PROVE  IsSlice(Slice(t, a, b), t, a, b, S)
<1>1. \A i \in a + 1 .. b : t[i] \in S
  <2>1. Len(t) \in Nat
    BY LenProperties
  <2>2. \A i \in a + 1 .. b : i \in 1 .. Len(t)
    BY <2>1
  <2> QED BY <2>2, ElementOfSeq
<1>2. PICK m \in Int : m = a + 1
  OBVIOUS
<1>3. PICK s : s = SubSeq(t, m, b)
  BY Zenon
<1>4. b \in Int /\ \A i \in m .. b : t[i] \in S
  BY <1>1, <1>2
<1>5. /\ s \in Seq(S) /\ Len(s) = IF m <= b THEN b - m + 1 ELSE 0
      /\ \A i \in 1 .. b - m + 1 : s[i] = t[m + i - 1]
  <2>1. /\ SubSeq(t, m, b) \in Seq(S) /\ Len(SubSeq(t, m, b)) = IF m <= b THEN b - m + 1 ELSE 0
        /\ \A i \in 1 .. b - m + 1 : SubSeq(t, m, b)[i] = t[m + i - 1]
    BY <1>4, SubSeqProperties
  <2> QED BY <1>3, <2>1, Zenon
<1>6. Len(s) = b - a /\ \A i \in 1 .. b - a : s[i] = t[a + i]
  BY <1>2, <1>5
<1>7. Slice(t, a, b) = s
  BY <1>2, <1>3, Zenon DEF Slice
<1> QED BY <1>5, <1>6, <1>7, Zenon DEF IsSlice

LEMMA SlicesJoin ==
    ASSUME NEW S, NEW t \in Seq(S), NEW a \in Nat, NEW k \in Nat, NEW b \in Nat,
           a <= k, k <= b, b <= Len(t)
    PROVE  Then(Slice(t, a, k), Slice(t, k, b)) = Slice(t, a, b)
<1>0. Len(t) \in Nat /\ a <= b /\ k <= Len(t)
  BY LenProperties
<1>1. PICK u \in Seq(S) : u = Slice(t, a, k) /\ Len(u) = k - a
                          /\ \A i \in 1 .. k - a : u[i] = t[a + i]
  <2>1. IsSlice(Slice(t, a, k), t, a, k, S)
    BY <1>0, SliceIs
  <2> QED BY <1>0, <2>1, Zenon DEF IsSlice
<1>2. PICK v \in Seq(S) : v = Slice(t, k, b) /\ Len(v) = b - k
                          /\ \A i \in 1 .. b - k : v[i] = t[k + i]
  <2>1. IsSlice(Slice(t, k, b), t, k, b, S)
    BY <1>0, SliceIs
  <2> QED BY <1>0, <2>1, Zenon DEF IsSlice
<1>3. PICK s \in Seq(S) : s = Slice(t, a, b) /\ Len(s) = b - a
                          /\ \A i \in 1 .. b - a : s[i] = t[a + i]
  <2>1. IsSlice(Slice(t, a, b), t, a, b, S)
    BY <1>0, SliceIs
  <2> QED BY <1>0, <2>1, Zenon DEF IsSlice
<1>4. PICK w \in Seq(S) : w = Then(u, v) /\ Len(w) = (k - a) + (b - k)
          /\ \A i \in 1 .. (k - a) + (b - k) : w[i] = IF i <= k - a THEN u[i] ELSE v[i - (k - a)]
  <2>1. u \o v \in Seq(S) /\ Len(u \o v) = Len(u) + Len(v)
        /\ \A i \in 1 .. Len(u) + Len(v) : (u \o v)[i] = IF i <= Len(u) THEN u[i] ELSE v[i - Len(u)]
    BY ConcatProperties
  <2>2. Len(u) = k - a /\ Len(v) = b - k
    BY <1>1, <1>2, Zenon
  <2> QED BY <2>1, <2>2, Zenon DEF Then
<1>5. (k - a) + (b - k) = b - a
  OBVIOUS
<1>6. \A i \in 1 .. b - a : w[i] = s[i]
  <2>1. TAKE i \in 1 .. b - a
  <2>2. CASE i <= k - a
    <3>1. i \in 1 .. k - a
      BY <2>2
    <3>2. w[i] = u[i]
      BY <1>4, <1>5, <2>2, Zenon
    <3> QED BY <1>1, <1>3, <3>1, <3>2, Zenon
  <2>3. CASE ~(i <= k - a)
    <3>1. i - (k - a) \in 1 .. b - k /\ k + (i - (k - a)) = a + i
      BY <2>3
    <3>2. w[i] = v[i - (k - a)]
      BY <1>4, <1>5, <2>3, Zenon
    <3>3. v[i - (k - a)] = t[k + (i - (k - a))] /\ s[i] = t[a + i]
      BY <1>2, <1>3, <3>1, Zenon
    <3> QED BY <3>1, <3>2, <3>3, Zenon
  <2> QED BY <2>2, <2>3
<1>7. w = s
  <2>1. Len(w) = Len(s) /\ \A i \in 1 .. Len(w) : w[i] = s[i]
    BY <1>3, <1>4, <1>5, <1>6, Zenon
  <2> QED BY <2>1, SeqEqual, Zenon
<1> QED BY <1>1, <1>2, <1>3, <1>4, <1>7, Zenon

LEMMA SliceOfSlice ==
    ASSUME NEW S, NEW t \in Seq(S), NEW a \in Nat, NEW x \in Nat, NEW y \in Nat,
           x <= y, a + y <= Len(t)
    PROVE  Slice(Slice(t, a, Len(t)), x, y) = Slice(t, a + x, a + y)
<1>0. PICK n \in Nat : n = Len(t)
  BY LenProperties
<1>1. a + x \in Nat /\ a + y \in Nat /\ a + x <= a + y /\ a <= n /\ y <= n - a /\ a + y <= n
      /\ (a + y) - (a + x) = y - x
  BY <1>0
<1>2. PICK r \in Seq(S) : r = Slice(t, a, Len(t)) /\ Len(r) = n - a
                          /\ \A i \in 1 .. n - a : r[i] = t[a + i]
  <2>1. IsSlice(Slice(t, a, Len(t)), t, a, Len(t), S)
    BY <1>0, <1>1, SliceIs
  <2> QED BY <1>0, <1>1, <2>1, Zenon DEF IsSlice
<1>3. PICK u \in Seq(S) : u = Slice(r, x, y) /\ Len(u) = y - x
                          /\ \A i \in 1 .. y - x : u[i] = r[x + i]
  <2>1. IsSlice(Slice(r, x, y), r, x, y, S)
    BY <1>1, <1>2, SliceIs
  <2> QED BY <1>1, <1>2, <2>1, Zenon DEF IsSlice
<1>4. PICK v \in Seq(S) : v = Slice(t, a + x, a + y) /\ Len(v) = y - x
                          /\ \A i \in 1 .. y - x : v[i] = t[(a + x) + i]
  <2>1. PICK p \in Nat, q \in Nat : p = a + x /\ q = a + y
    BY <1>1
  <2>2. p <= q /\ q <= Len(t) /\ q - p = y - x
    BY <1>0, <1>1, <2>1
  <2>3. IsSlice(Slice(t, p, q), t, p, q, S)
    BY <2>2, SliceIs
  <2> QED BY <2>1, <2>2, <2>3, Zenon DEF IsSlice
<1>5. \A i \in 1 .. y - x : u[i] = v[i]
  <2>1. TAKE i \in 1 .. y - x
  <2>2. x + i \in 1 .. n - a /\ a + (x + i) = (a + x) + i
    BY <1>1
  <2>3. u[i] = r[x + i] /\ r[x + i] = t[a + (x + i)] /\ v[i] = t[(a + x) + i]
    BY <1>2, <1>3, <1>4, <2>2, Zenon
  <2> QED BY <2>2, <2>3, Zenon
<1>6. u = v
  <2>1. Len(u) = Len(v) /\ \A i \in 1 .. Len(u) : u[i] = v[i]
    BY <1>3, <1>4, <1>5, Zenon
  <2> QED BY <2>1, SeqEqual, Zenon
<1> QED BY <1>2, <1>3, <1>4, <1>6, Zenon

LEMMA SliceAll ==
    ASSUME NEW S, NEW t \in Seq(S)
    PROVE  Slice(t, 0, Len(t)) = t
<1>1. SubSeq(t, 1, Len(t)) = t /\ 0 + 1 = 1
  BY SubSeqFull
<1> QED BY <1>1, Zenon DEF Slice

\* What is written last is found last, and what was there before where it was.
LEMMA WrittenLast ==
    ASSUME NEW S, NEW u \in Seq(S), NEW v \in Seq(S)
    PROVE  /\ Then(u, v) \in Seq(S) /\ Len(Then(u, v)) = Len(u) + Len(v)
           /\ Slice(Then(u, v), Len(u), Len(u) + Len(v)) = v
           /\ \A x, y \in Nat : x <= y /\ y <= Len(u)
                    => Slice(Then(u, v), x, y) = Slice(u, x, y)
<1>0. PICK l \in Nat, m \in Nat : l = Len(u) /\ m = Len(v)
  BY LenProperties
<1>1. PICK w \in Seq(S) : w = Then(u, v) /\ Len(w) = l + m
          /\ \A i \in 1 .. l + m : w[i] = IF i <= l THEN u[i] ELSE v[i - l]
  <2>1. u \o v \in Seq(S) /\ Len(u \o v) = Len(u) + Len(v)
        /\ \A i \in 1 .. Len(u) + Len(v) : (u \o v)[i] = IF i <= Len(u) THEN u[i] ELSE v[i - Len(u)]
    BY ConcatProperties
  <2> QED BY <1>0, <2>1, Zenon DEF Then
<1>2. Slice(w, l, l + m) = v
  <2>1. SubSeq(u \o v, Len(u) + 1, Len(u \o v)) = v
    BY Pieces
  <2> QED BY <1>0, <1>1, <2>1, Zenon DEF Then, Slice
<1>3. ASSUME NEW a \in Nat, NEW b \in Nat, a <= b, b <= l
      PROVE  Slice(w, a, b) = Slice(u, a, b)
  <2>1. b <= Len(w) /\ b <= Len(u)
    BY <1>0, <1>1, <1>3
  <2>2. PICK x \in Seq(S) : x = Slice(w, a, b) /\ Len(x) = b - a
                            /\ \A i \in 1 .. b - a : x[i] = w[a + i]
    <3>1. IsSlice(Slice(w, a, b), w, a, b, S)
      BY <1>3, <2>1, SliceIs
    <3> QED BY <3>1, Zenon DEF IsSlice
  <2>3. PICK y \in Seq(S) : y = Slice(u, a, b) /\ Len(y) = b - a
                            /\ \A i \in 1 .. b - a : y[i] = u[a + i]
    <3>1. IsSlice(Slice(u, a, b), u, a, b, S)
      BY <1>3, <2>1, SliceIs
    <3> QED BY <3>1, Zenon DEF IsSlice
  <2>4. \A i \in 1 .. b - a : x[i] = y[i]
    <3>1. TAKE i \in 1 .. b - a
    <3>2. a + i \in 1 .. l + m /\ a + i <= l
      BY <1>3
    <3> QED BY <1>1, <2>2, <2>3, <3>2, Zenon
  <2>5. Len(x) = Len(y) /\ \A i \in 1 .. Len(x) : x[i] = y[i]
    BY <2>2, <2>3, <2>4, Zenon
  <2> QED BY <2>2, <2>3, <2>5, SeqEqual, Zenon
<1> QED BY <1>0, <1>1, <1>2, <1>3, Zenon

\* w is u with v after it, from place p to place q.
Longer(w, u, v, p, q) ==
    /\ w \in Seq(0 .. 255) /\ Len(w) = q /\ Slice(w, p, q) = v
    /\ \A x, y \in Nat : x <= y /\ y <= p => Slice(w, x, y) = Slice(u, x, y)

LEMMA ThenLonger ==
    ASSUME NEW u \in Seq(0 .. 255), NEW v \in Seq(0 .. 255), NEW p, NEW q,
           p = Len(u), q = p + Len(v)
    PROVE  Longer(Then(u, v), u, v, p, q)
<1>1. PICK w : w = Then(u, v)
  BY Zenon
<1>2. w \in Seq(0 .. 255) /\ Len(w) = Len(u) + Len(v)
  BY <1>1, WrittenLast, Zenon
<1>3. Slice(w, p, q) = v
  <2>1. Slice(Then(u, v), Len(u), Len(u) + Len(v)) = v
    BY WrittenLast, Zenon
  <2> QED BY <1>1, <2>1, Zenon
<1>4. \A x, y \in Nat : x <= y /\ y <= p => Slice(w, x, y) = Slice(u, x, y)
  <2>1. \A x, y \in Nat : x <= y /\ y <= Len(u)
               => Slice(Then(u, v), x, y) = Slice(u, x, y)
    BY WrittenLast
  <2> QED BY <1>1, <2>1, Zenon
<1> QED BY <1>1, <1>2, <1>3, <1>4, Zenon DEF Longer

\* A text of bytes in six parts, and where each of them begins.
SixParts(t, la, a, lv, v, lc, c, p1, p2, p3, p4, p5, n) ==
    /\ la \in Seq(0 .. 255) /\ a \in Seq(0 .. 255) /\ lv \in Seq(0 .. 255)
    /\ v \in Seq(0 .. 255) /\ lc \in Seq(0 .. 255) /\ c \in Seq(0 .. 255)
    /\ t = Then(Then(Then(Then(Then(la, a), lv), v), lc), c)
    /\ p1 = Len(la) /\ p2 = p1 + Len(a) /\ p3 = p2 + Len(lv) /\ p4 = p3 + Len(v)
    /\ p5 = p4 + Len(lc) /\ n = p5 + Len(c)

LEMMA PartsFound ==
    ASSUME NEW t, NEW la, NEW a, NEW lv, NEW v, NEW lc, NEW c,
           NEW p1, NEW p2, NEW p3, NEW p4, NEW p5, NEW n,
           SixParts(t, la, a, lv, v, lc, c, p1, p2, p3, p4, p5, n)
    PROVE  /\ t \in Seq(0 .. 255) /\ n = Len(t)
           /\ Slice(t, 0, p1) = la /\ Slice(t, p1, p2) = a
           /\ Slice(t, p2, p3) = lv /\ Slice(t, p3, p4) = v
           /\ Slice(t, p4, p5) = lc /\ Slice(t, p5, n) = c
<1>1. /\ la \in Seq(0 .. 255) /\ a \in Seq(0 .. 255) /\ lv \in Seq(0 .. 255)
      /\ v \in Seq(0 .. 255) /\ lc \in Seq(0 .. 255) /\ c \in Seq(0 .. 255)
      /\ t = Then(Then(Then(Then(Then(la, a), lv), v), lc), c)
      /\ p1 = Len(la) /\ p2 = p1 + Len(a) /\ p3 = p2 + Len(lv) /\ p4 = p3 + Len(v)
      /\ p5 = p4 + Len(lc) /\ n = p5 + Len(c)
  BY Zenon DEF SixParts
<1>2. /\ p1 \in Nat /\ p2 \in Nat /\ p3 \in Nat /\ p4 \in Nat /\ p5 \in Nat /\ 0 \in Nat
      /\ 0 <= p1 /\ p1 <= p1 /\ p1 <= p2 /\ p2 <= p2 /\ p2 <= p3 /\ p3 <= p3 /\ p3 <= p4
      /\ p4 <= p4 /\ p4 <= p5 /\ p5 <= p5 /\ p1 <= p3 /\ p1 <= p4 /\ p1 <= p5
      /\ p2 <= p4 /\ p2 <= p5 /\ p3 <= p5
  <2>1. /\ Len(la) \in Nat /\ Len(a) \in Nat /\ Len(lv) \in Nat
        /\ Len(v) \in Nat /\ Len(lc) \in Nat
    BY <1>1, LenProperties
  <2> QED BY ONLY <1>1, <2>1
<1>3. PICK t2 : t2 = Then(la, a) /\ Longer(t2, la, a, p1, p2)
  BY <1>1, ThenLonger, Zenon
<1>4. PICK t3 : t3 = Then(t2, lv) /\ Longer(t3, t2, lv, p2, p3)
  <2>1. t2 \in Seq(0 .. 255) /\ p2 = Len(t2)
    BY <1>3, Zenon DEF Longer
  <2> QED BY <1>1, <2>1, ThenLonger, Zenon
<1>5. PICK t4 : t4 = Then(t3, v) /\ Longer(t4, t3, v, p3, p4)
  <2>1. t3 \in Seq(0 .. 255) /\ p3 = Len(t3)
    BY <1>4, Zenon DEF Longer
  <2> QED BY <1>1, <2>1, ThenLonger, Zenon
<1>6. PICK t5 : t5 = Then(t4, lc) /\ Longer(t5, t4, lc, p4, p5)
  <2>1. t4 \in Seq(0 .. 255) /\ p4 = Len(t4)
    BY <1>5, Zenon DEF Longer
  <2> QED BY <1>1, <2>1, ThenLonger, Zenon
<1>7. Longer(t, t5, c, p5, n)
  <2>1. t5 \in Seq(0 .. 255) /\ p5 = Len(t5)
    BY <1>6, Zenon DEF Longer
  <2>2. t = Then(t5, c)
    BY <1>1, <1>3, <1>4, <1>5, <1>6, Zenon
  <2> QED BY <1>1, <2>1, <2>2, ThenLonger, Zenon
<1>8. Slice(t, p4, p5) = lc
  <2>1. Slice(t, p4, p5) = Slice(t5, p4, p5)
    BY <1>2, <1>7, Zenon DEF Longer
  <2>2. Slice(t5, p4, p5) = lc
    BY <1>2, <1>6, Zenon DEF Longer
  <2> QED BY <2>1, <2>2, Zenon
<1>9. Slice(t, p3, p4) = v
  <2>1. Slice(t, p3, p4) = Slice(t5, p3, p4)
    BY <1>2, <1>7, Zenon DEF Longer
  <2>2. Slice(t5, p3, p4) = Slice(t4, p3, p4)
    BY <1>2, <1>6, Zenon DEF Longer
  <2>3. Slice(t4, p3, p4) = v
    BY <1>2, <1>5, Zenon DEF Longer
  <2> QED BY <2>1, <2>2, <2>3, Zenon
<1>10. Slice(t, p2, p3) = lv
  <2>1. Slice(t, p2, p3) = Slice(t5, p2, p3)
    BY <1>2, <1>7, Zenon DEF Longer
  <2>2. Slice(t5, p2, p3) = Slice(t4, p2, p3)
    BY <1>2, <1>6, Zenon DEF Longer
  <2>3. Slice(t4, p2, p3) = Slice(t3, p2, p3)
    BY <1>2, <1>5, Zenon DEF Longer
  <2>4. Slice(t3, p2, p3) = lv
    BY <1>2, <1>4, Zenon DEF Longer
  <2> QED BY <2>1, <2>2, <2>3, <2>4, Zenon
<1>11. Slice(t, p1, p2) = a
  <2>1. Slice(t, p1, p2) = Slice(t5, p1, p2)
    BY <1>2, <1>7, Zenon DEF Longer
  <2>2. Slice(t5, p1, p2) = Slice(t4, p1, p2)
    BY <1>2, <1>6, Zenon DEF Longer
  <2>3. Slice(t4, p1, p2) = Slice(t3, p1, p2)
    BY <1>2, <1>5, Zenon DEF Longer
  <2>4. Slice(t3, p1, p2) = Slice(t2, p1, p2)
    BY <1>2, <1>4, Zenon DEF Longer
  <2>5. Slice(t2, p1, p2) = a
    BY <1>2, <1>3, Zenon DEF Longer
  <2> QED BY <2>1, <2>2, <2>3, <2>4, <2>5, Zenon
<1>12. Slice(t, 0, p1) = la
  <2>1. Slice(t, 0, p1) = Slice(t5, 0, p1)
    BY <1>2, <1>7, Zenon DEF Longer
  <2>2. Slice(t5, 0, p1) = Slice(t4, 0, p1)
    BY <1>2, <1>6, Zenon DEF Longer
  <2>3. Slice(t4, 0, p1) = Slice(t3, 0, p1)
    BY <1>2, <1>5, Zenon DEF Longer
  <2>4. Slice(t3, 0, p1) = Slice(t2, 0, p1)
    BY <1>2, <1>4, Zenon DEF Longer
  <2>5. Slice(t2, 0, p1) = Slice(la, 0, p1)
    BY <1>2, <1>3, Zenon DEF Longer
  <2>6. Slice(la, 0, p1) = la
    BY <1>1, SliceAll, Zenon
  <2> QED BY <2>1, <2>2, <2>3, <2>4, <2>5, <2>6, Zenon
<1>13. t \in Seq(0 .. 255) /\ Len(t) = n /\ Slice(t, p5, n) = c
  BY <1>7, Zenon DEF Longer
<1> QED BY <1>8, <1>9, <1>10, <1>11, <1>12, <1>13, Zenon

-----------------------------------------------------------------------------
(***************************************************************************)
(* Numbers written as bytes.                                               *)
(***************************************************************************)

\* A number written with L bytes, the highest first, and the bytes of a number.
NumberOf(L, bytes) == LET n[i \in 0 .. L] == IF i = 0 THEN 0 ELSE 256 * n[i - 1] + bytes[i]
                      IN  n[L]
DigitsOf(L, len)   == LET d[i \in 0 .. L] == IF i = 0 THEN len ELSE d[i - 1] \div 256
                      IN  [i \in 1 .. L |-> d[L - i] % 256]
Digits(L)          == [1 .. L -> 0 .. 255]

Counts(f, L, b)    == f = [i \in 0 .. L |-> IF i = 0 THEN 0 ELSE 256 * f[i - 1] + b[i]]
Divides(f, L, len) == f = [i \in 0 .. L |-> IF i = 0 THEN len ELSE f[i - 1] \div 256]

LEMMA NumberCounts ==
    ASSUME NEW L \in Nat, L # 0, NEW b \in Digits(L)
    PROVE  \E f \in [0 .. L -> Nat] :
                  /\ f[0] = 0 /\ \A i \in 1 .. L : f[i] = 256 * f[i - 1] + b[i]
                  /\ NumberOf(L, b) = f[L]
<1> DEFINE step == [p \in Nat \X (1 .. L) |-> 256 * p[1] + b[p[2]]]
           n == CHOOSE f : Counts(f, L, b)
<1>1. L \in Nat /\ L # 0
  OBVIOUS
<1>2. \A i \in 1 .. L : b[i] \in Nat
  <2>1. \A i \in 1 .. L : b[i] \in 0 .. 255
    BY Zenon DEF Digits
  <2>2. \A k \in 0 .. 255 : k \in Nat
    OBVIOUS
  <2> QED BY <2>1, <2>2, Zenon
<1>3. step \in [Nat \X (1 .. L) -> Nat]
  BY <1>2
<1>4. \A v \in Nat, i \in 1 .. L : step[<<v, i>>] = 256 * v + b[i]
  OBVIOUS
<1> HIDE DEF step
<1>5. PICK f \in [0 .. L -> Nat] :
         Accumulated(f, L, 0, step)
  <2>1. 0 \in Nat
    OBVIOUS
  <2> QED BY <1>1, <1>3, <2>1, Accumulates
<1>6. Counts(f, L, b)
  <2>1. \A i \in 0 .. L : i # 0 => i - 1 \in 0 .. L /\ i \in 1 .. L
    BY <1>1
  <2>2. \A i \in 0 .. L : i # 0 => step[<<f[i - 1], i>>] = 256 * f[i - 1] + b[i]
    BY <1>4, <1>5, <2>1 DEF Accumulated
  <2> QED BY <1>5, <2>2 DEF Counts, Accumulated
<1>7. Counts(n, L, b)
  BY <1>6
<1>8. NumberOf(L, b) = n[L]
  BY DEF NumberOf, Counts
<1> HIDE DEF n
<1>9. n[0] = 0 /\ \A i \in 1 .. L : n[i] = 256 * n[i - 1] + b[i]
  BY <1>1, <1>7 DEF Counts
<1>10. n \in [0 .. L -> Nat]
  <2> DEFINE P == {i \in 0 .. L : n[i] \in Nat}
  <2>1. 0 \in P
    BY <1>1, <1>9
  <2>2. ASSUME NEW i \in 0 .. L - 1, i \in P PROVE i + 1 \in P
    <3>1. i + 1 \in 1 .. L /\ (i + 1) - 1 = i /\ n[i] \in Nat
      BY <1>1, <2>2
    <3>2. n[i + 1] = 256 * n[i] + b[i + 1] /\ b[i + 1] \in Nat
      BY <1>2, <1>9, <3>1
    <3> QED BY <3>1, <3>2
  <2>3. 0 .. L \subseteq P
    <3> HIDE DEF P
    <3> QED BY <1>1, <2>1, <2>2, CountsUp
  <2> QED BY <1>7, <2>3 DEF Counts
<1> QED BY <1>8, <1>9, <1>10

LEMMA NumberIsNat ==
    ASSUME NEW L \in Nat, L # 0, NEW b \in Digits(L)
    PROVE  NumberOf(L, b) \in Nat
<1>1. PICK f \in [0 .. L -> Nat] : NumberOf(L, b) = f[L]
  BY NumberCounts
<1>2. L \in 0 .. L
  OBVIOUS
<1> QED BY <1>1, <1>2, Zenon

LEMMA LengthDivides ==
    ASSUME NEW L \in Nat, L # 0, NEW len \in Nat
    PROVE  \E f \in [0 .. L -> Nat] :
                  /\ f[0] = len /\ \A i \in 1 .. L : f[i] = f[i - 1] \div 256
                  /\ DigitsOf(L, len) = [i \in 1 .. L |-> f[L - i] % 256]
<1> DEFINE step == [p \in Nat \X (1 .. L) |-> p[1] \div 256]
           d == CHOOSE f : Divides(f, L, len)
<1>1. L \in Nat /\ L # 0
  OBVIOUS
<1>3. step \in [Nat \X (1 .. L) -> Nat]
  OBVIOUS
<1>4. \A v \in Nat, i \in 1 .. L : step[<<v, i>>] = v \div 256
  OBVIOUS
<1> HIDE DEF step
<1>5. PICK f \in [0 .. L -> Nat] :
         Accumulated(f, L, len, step)
  BY <1>1, <1>3, Accumulates
<1>6. Divides(f, L, len)
  <2>1. \A i \in 0 .. L : i # 0 => i - 1 \in 0 .. L /\ i \in 1 .. L
    BY <1>1
  <2>2. \A i \in 0 .. L : i # 0 => step[<<f[i - 1], i>>] = f[i - 1] \div 256
    BY <1>4, <1>5, <2>1 DEF Accumulated
  <2> QED BY <1>5, <2>2 DEF Divides, Accumulated
<1>7. Divides(d, L, len)
  BY <1>6
<1>8. DigitsOf(L, len) = [i \in 1 .. L |-> d[L - i] % 256]
  BY DEF DigitsOf, Divides
<1> HIDE DEF d
<1>9. d[0] = len /\ \A i \in 1 .. L : d[i] = d[i - 1] \div 256
  BY <1>1, <1>7 DEF Divides
<1>10. d \in [0 .. L -> Nat]
  <2> DEFINE P == {i \in 0 .. L : d[i] \in Nat}
  <2>1. 0 \in P
    BY <1>1, <1>9
  <2>2. ASSUME NEW i \in 0 .. L - 1, i \in P PROVE i + 1 \in P
    <3>1. i + 1 \in 1 .. L /\ (i + 1) - 1 = i /\ d[i] \in Nat
      BY <1>1, <2>2
    <3>2. d[i + 1] = d[i] \div 256
      BY <1>9, <3>1
    <3> QED BY <3>1, <3>2
  <2>3. 0 .. L \subseteq P
    <3> HIDE DEF P
    <3> QED BY <1>1, <2>1, <2>2, CountsUp
  <2> QED BY <1>7, <2>3 DEF Divides
<1> QED BY <1>8, <1>9, <1>10

\* The bytes of the number that some bytes write are those bytes.
LEMMA LengthBack ==
    ASSUME NEW L \in Nat, L # 0, NEW b \in Digits(L), NEW len \in Nat, len = NumberOf(L, b)
    PROVE  DigitsOf(L, len) = b
<1>1. L \in Nat /\ L # 0
  OBVIOUS
<1>2. PICK n \in [0 .. L -> Nat] :
         /\ n[0] = 0 /\ \A i \in 1 .. L : n[i] = 256 * n[i - 1] + b[i]
         /\ len = n[L]
  <2>1. \E f \in [0 .. L -> Nat] :
               /\ f[0] = 0 /\ \A i \in 1 .. L : f[i] = 256 * f[i - 1] + b[i]
               /\ len = f[L]
    BY NumberCounts
  <2> QED BY <2>1, Zenon
<1>3. PICK d \in [0 .. L -> Nat] :
         /\ d[0] = len /\ \A i \in 1 .. L : d[i] = d[i - 1] \div 256
         /\ DigitsOf(L, len) = [i \in 1 .. L |-> d[L - i] % 256]
  <2>1. \E f \in [0 .. L -> Nat] :
               /\ f[0] = len /\ \A i \in 1 .. L : f[i] = f[i - 1] \div 256
               /\ DigitsOf(L, len) = [i \in 1 .. L |-> f[L - i] % 256]
    BY ONLY L \in Nat, L # 0, len \in Nat, LengthDivides
  <2> QED BY <2>1, Zenon
<1>4. \A i \in 1 .. L : b[i] \in 0 .. 255
  BY Zenon DEF Digits
<1>5. \A i \in 1 .. L : n[i - 1] \in Nat /\ n[i] \div 256 = n[i - 1] /\ n[i] % 256 = b[i]
  <2>1. TAKE i \in 1 .. L
  <2>2. PICK v \in Nat, w \in 0 .. 255 : v = n[i - 1] /\ w = b[i]
    <3>1. i - 1 \in 0 .. L
      BY <1>1
    <3> QED BY <1>4, <3>1
  <2>3. n[i] = 256 * v + w
    BY <1>2, <2>2
  <2>4. (256 * v + w) \div 256 = v /\ (256 * v + w) % 256 = w
    <3>1. \A x \in Nat, y \in Nat : y < 256 => (256 * x + y) \div 256 = x /\ (256 * x + y) % 256 = y
      OBVIOUS
    <3>2. \A y \in 0 .. 255 : y \in Nat /\ y < 256
      OBVIOUS
    <3>3. v \in Nat /\ w \in Nat /\ w < 256
      BY <3>2, Zenon
    <3> QED BY <3>1, <3>3, Zenon
  <2> QED BY <2>2, <2>3, <2>4
<1> DEFINE P == {i \in 0 .. L : d[i] = n[L - i]}
<1>6. 0 \in P
  BY <1>1, <1>2, <1>3
<1>7. ASSUME NEW i \in 0 .. L - 1, i \in P PROVE i + 1 \in P
  <2>1. i + 1 \in 1 .. L /\ (i + 1) - 1 = i /\ L - i \in 1 .. L
        /\ (L - i) - 1 = L - (i + 1)
    BY <1>1
  <2>2. d[i + 1] = d[i] \div 256 /\ d[i] = n[L - i]
    BY <1>3, <1>7, <2>1
  <2>3. n[L - i] \div 256 = n[L - (i + 1)]
    BY <1>5, <2>1
  <2> QED BY <2>1, <2>2, <2>3
<1>8. 0 .. L \subseteq P
  <2> HIDE DEF P
  <2> QED BY <1>1, <1>6, <1>7, CountsUp
<1>9. \A i \in 1 .. L : d[L - i] % 256 = b[i]
  <2>1. TAKE i \in 1 .. L
  <2>2. L - i \in 0 .. L /\ L - (L - i) = i
    BY <1>1
  <2>3. d[L - i] = n[i]
    BY <1>8, <2>2
  <2> QED BY <1>5, <2>3
<1>10. DigitsOf(L, len) = [i \in 1 .. L |-> b[i]]
  BY <1>3, <1>9
<1> QED BY <1>10, Zenon DEF Digits

\* Zero and one are read back from their bytes.
LEMMA NumberBack ==
    ASSUME NEW L \in Nat, L # 0, NEW len \in 0 .. 1
    PROVE  DigitsOf(L, len) \in Digits(L) /\ NumberOf(L, DigitsOf(L, len)) = len
<1>1. L \in Nat /\ L # 0
  OBVIOUS
<1>2. PICK d \in [0 .. L -> Nat] :
         /\ d[0] = len /\ \A i \in 1 .. L : d[i] = d[i - 1] \div 256
         /\ DigitsOf(L, len) = [i \in 1 .. L |-> d[L - i] % 256]
  <2>1. len \in Nat
    OBVIOUS
  <2> QED BY <2>1, LengthDivides
<1>3. PICK b : b = DigitsOf(L, len)
  BY Zenon
<1>4. b \in Digits(L)
  <2>1. \A i \in 1 .. L : d[L - i] % 256 \in 0 .. 255
    <3>1. TAKE i \in 1 .. L
    <3>2. L - i \in 0 .. L
      BY <1>1
    <3>3. PICK v \in Nat : v = d[L - i]
      BY <3>2
    <3>4. \A x \in Nat : x % 256 \in 0 .. 255
      OBVIOUS
    <3> QED BY <3>3, <3>4, Zenon
  <2>2. [i \in 1 .. L |-> d[L - i] % 256] \in [1 .. L -> 0 .. 255]
    BY <2>1, Zenon
  <2> QED BY <1>2, <1>3, <2>2, Zenon DEF Digits
<1>5. PICK n \in [0 .. L -> Nat] :
         /\ n[0] = 0 /\ \A i \in 1 .. L : n[i] = 256 * n[i - 1] + b[i]
         /\ NumberOf(L, b) = n[L]
  BY <1>4, NumberCounts, Zenon
<1> DEFINE P == {i \in 0 .. L : i # 0 => d[i] = 0}
           Q == {i \in 0 .. L : i # L => n[i] = 0}
<1>6. 0 .. L \subseteq P
  <2>1. 0 \in P
    BY <1>1
  <2>2. ASSUME NEW i \in 0 .. L - 1, i \in P PROVE i + 1 \in P
    <3>1. i + 1 \in 1 .. L /\ (i + 1) - 1 = i
      BY <1>1
    <3>2. d[i] \in 0 .. 1
      <4>1. CASE i = 0
        BY <1>2, <4>1, Zenon
      <4>2. CASE i # 0
        <5>1. d[i] = 0
          BY <2>2, <4>2
        <5> QED BY <5>1
      <4> QED BY <4>1, <4>2
    <3>3. d[i + 1] = d[i] \div 256
      BY <1>2, <3>1
    <3>4. \A v \in 0 .. 1 : v \div 256 = 0
      OBVIOUS
    <3> QED BY <3>1, <3>2, <3>3, <3>4
  <2> HIDE DEF P
  <2> QED BY <1>1, <2>1, <2>2, CountsUp
<1>7. /\ \A i \in 1 .. L : i # L => b[i] = 0
      /\ b[L] = len
  <2>1. \A i \in 1 .. L : L - i \in 0 .. L /\ (i # L => L - i # 0)
    BY <1>1
  <2>2. \A i \in 1 .. L : b[i] = d[L - i] % 256
    BY <1>2, <1>3
  <2>3. \A i \in 1 .. L : i # L => d[L - i] = 0
    BY <1>6, <2>1
  <2>4. L \in 1 .. L /\ L - L = 0 /\ 0 % 256 = 0
        /\ \A v \in 0 .. 1 : v % 256 = v
    BY <1>1
  <2>5. b[L] = len
    <3>1. b[L] = d[0] % 256
      BY <2>2, <2>4, Zenon
    <3> QED BY <1>2, <2>4, <3>1, Zenon
  <2> QED BY <2>2, <2>3, <2>4, <2>5
<1>8. 0 .. L \subseteq Q
  <2>1. 0 \in Q
    BY <1>1, <1>5
  <2>2. ASSUME NEW i \in 0 .. L - 1, i \in Q PROVE i + 1 \in Q
    <3>1. i + 1 \in 1 .. L /\ (i + 1) - 1 = i /\ i # L
      BY <1>1
    <3>2. n[i] = 0
      BY <2>2, <3>1
    <3>3. i + 1 # L => b[i + 1] = 0
      BY <1>7, <3>1
    <3>4. n[i + 1] = 256 * n[i] + b[i + 1]
      BY <1>5, <3>1
    <3> QED BY <3>1, <3>2, <3>3, <3>4
  <2> HIDE DEF Q
  <2> QED BY <1>1, <2>1, <2>2, CountsUp
<1>9. n[L] = len
  <2>1. L \in 1 .. L /\ L - 1 \in 0 .. L /\ L - 1 # L
    BY <1>1
  <2>2. n[L - 1] = 0
    BY <1>8, <2>1
  <2>3. n[L] = 256 * n[L - 1] + b[L]
    BY <1>5, <2>1
  <2> QED BY <1>7, <2>2, <2>3
<1> QED BY <1>3, <1>4, <1>5, <1>9
=============================================================================
