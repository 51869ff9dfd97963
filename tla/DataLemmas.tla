---------------------------- MODULE DataLemmas ----------------------------
(***************************************************************************)
(* What the proofs about the components need of numbers, finite sets and   *)
(* sequences, beyond the theorems of the library.                          *)
(***************************************************************************)
EXTENDS Integers, Sequences, FiniteSets, FiniteSetsExt,
        FiniteSetTheorems, SequenceTheorems, WellFoundedInduction, TLAPS

\* Remainders.
LEMMA ModSmall == ASSUME NEW m \in Nat \ {0}, NEW x \in 0..(m - 1) PROVE x % m = x
BY SMT

LEMMA ModWrap == ASSUME NEW m \in Nat \ {0}, NEW x \in 0..(m - 1) PROVE (x + m) % m = x
BY SMT

LEMMA ModRange == ASSUME NEW m \in Nat \ {0}, NEW x \in Nat PROVE x % m \in 0..(m - 1)
BY SMT

\* The next place of a ring, and how far it is from one place to another.
LEMMA ModNext ==
  ASSUME NEW m \in Nat \ {0}, NEW x \in 0..(m - 1)
  PROVE  (x + 1) % m = IF x + 1 = m THEN 0 ELSE x + 1
<1>1. CASE x + 1 = m
  <2>1. 0 \in 0..(m - 1) BY <1>1
  <2>2. (0 + m) % m = 0 BY <2>1, ModWrap
  <2> QED BY <1>1, <2>2
<1>2. CASE x + 1 # m
  <2>1. x + 1 \in 0..(m - 1) BY <1>2
  <2> QED BY <1>2, <2>1, ModSmall
<1> QED BY <1>1, <1>2

LEMMA ModDistance ==
  ASSUME NEW m \in Nat \ {0}, NEW a \in 0..(m - 1), NEW b \in 0..(m - 1)
  PROVE  /\ (b - a) % m = IF b >= a THEN b - a ELSE b - a + m
         /\ (b - a) % m \in 0..(m - 1)
<1>1. CASE b >= a
  <2>1. b - a \in 0..(m - 1) BY <1>1
  <2> QED BY <1>1, <2>1, ModSmall
<1>2. CASE b < a
  <2>1. (b - a) % m = b - a + m BY <1>2, SMTT(30)
  <2> QED BY <1>2, <2>1
<1> QED BY <1>1, <1>2

\* The k-th place behind f, the place before x, and the place at the distance of b.
LEMMA ModSum ==
  ASSUME NEW m \in Nat \ {0}, NEW f \in 0..(m - 1), NEW k \in 0..m
  PROVE  (f + k) % m = (IF f + k < m THEN f + k ELSE f + k - m) /\ (f + k) % m \in 0..(m - 1)
<1>1. CASE f + k < m
  <2>1. f + k \in 0..(m - 1) BY <1>1
  <2>2. (f + k) % m = f + k BY <2>1, ModSmall
  <2> QED BY <1>1, <2>1, <2>2
<1>2. CASE f + k >= m
  <2>1. f + k - m \in 0..(m - 1) BY <1>2
  <2>2. ((f + k - m) + m) % m = f + k - m BY <2>1, ModWrap
  <2>3. (f + k - m) + m = f + k OBVIOUS
  <2> QED BY <1>2, <2>1, <2>2, <2>3
<1> QED BY <1>1, <1>2

LEMMA ModSumInjective ==
  ASSUME NEW m \in Nat \ {0}, NEW f \in 0..(m - 1), NEW k \in 0..(m - 1), NEW l \in 0..(m - 1),
         (f + k) % m = (f + l) % m
  PROVE  k = l
<1>1. k \in 0..m /\ l \in 0..m OBVIOUS
<1>2. (f + k) % m = (IF f + k < m THEN f + k ELSE f + k - m) BY <1>1, ModSum
<1>3. (f + l) % m = (IF f + l < m THEN f + l ELSE f + l - m) BY <1>1, ModSum
<1> QED BY <1>2, <1>3

LEMMA ModBefore ==
  ASSUME NEW m \in Nat \ {0}, NEW x \in 0..(m - 1)
  PROVE  (x + m - 1) % m = (IF x = 0 THEN m - 1 ELSE x - 1) /\ (x + m - 1) % m \in 0..(m - 1)
<1>1. m - 1 \in 0..m OBVIOUS
<1>2. (x + (m - 1)) % m = (IF x + (m - 1) < m THEN x + (m - 1) ELSE x + (m - 1) - m)
      /\ (x + (m - 1)) % m \in 0..(m - 1)
  BY <1>1, ModSum
<1>3. x + (m - 1) = x + m - 1 OBVIOUS
<1> QED BY <1>2, <1>3

LEMMA ModDistanceSum ==
  ASSUME NEW m \in Nat \ {0}, NEW f \in 0..(m - 1), NEW b \in 0..(m - 1)
  PROVE  (f + ((b - f) % m)) % m = b
<1>1. /\ (b - f) % m = IF b >= f THEN b - f ELSE b - f + m
      /\ (b - f) % m \in 0..(m - 1)
  BY ModDistance
<1>2. PICK k \in 0..m : k = (b - f) % m BY <1>1
<1>3. (f + k) % m = (IF f + k < m THEN f + k ELSE f + k - m) BY ModSum
<1> QED BY <1>1, <1>2, <1>3

LEMMA ModSumDistance ==
  ASSUME NEW m \in Nat \ {0}, NEW f \in 0..(m - 1), NEW k \in 0..(m - 1)
  PROVE  (((f + k) % m) - f) % m = k
<1>1. k \in 0..m OBVIOUS
<1>2. (f + k) % m = (IF f + k < m THEN f + k ELSE f + k - m) /\ (f + k) % m \in 0..(m - 1)
  BY <1>1, ModSum
<1>3. PICK b \in 0..(m - 1) : b = (f + k) % m BY <1>2
<1>4. (b - f) % m = IF b >= f THEN b - f ELSE b - f + m BY ModDistance
<1> QED BY <1>2, <1>3, <1>4

LEMMA ModShift ==
  ASSUME NEW m \in Nat \ {0}, NEW f \in 0..(m - 1), NEW j \in 0..(m - 1), NEW k \in 0..(m - 1), j + k <= m
  PROVE  (((f + j) % m) + k) % m = (f + (j + k)) % m
<1>1. j \in 0..m /\ k \in 0..m /\ j + k \in 0..m OBVIOUS
<1>2. (f + j) % m = (IF f + j < m THEN f + j ELSE f + j - m) /\ (f + j) % m \in 0..(m - 1)
  BY <1>1, ModSum
<1>3. PICK b \in 0..(m - 1) : b = (f + j) % m BY <1>2
<1>4. (b + k) % m = IF b + k < m THEN b + k ELSE b + k - m BY <1>1, ModSum
<1>5. PICK l \in 0..m : l = j + k BY <1>1
<1>6. (f + l) % m = IF f + l < m THEN f + l ELSE f + l - m BY ModSum
<1>7. CASE f + j < m
  <2>1. b + k = f + l BY <1>2, <1>3, <1>5, <1>7
  <2> QED BY <1>3, <1>5, <2>1
<1>8. CASE f + j >= m
  <2>1. b = f + j - m /\ b + k = f + l - m /\ f + l >= m BY <1>2, <1>3, <1>5, <1>8
  <2>2. b + k < m BY <2>1, <1>5
  <2> QED BY <1>3, <1>4, <1>5, <1>6, <2>1, <2>2
<1> QED BY <1>7, <1>8

\* A remainder is the only one.
LEMMA ModParts ==
  ASSUME NEW m \in Nat \ {0}, NEW x \in Int
  PROVE  \E q \in Int, r \in 0..(m - 1) : x = q * m + r /\ x % m = r
BY SMTT(30)

LEMMA AtLeastOnce == ASSUME NEW m \in Nat \ {0}, NEW a \in Nat \ {0} PROVE a * m >= m
BY SMT

LEMMA OneRemainder ==
  ASSUME NEW m \in Nat \ {0}, NEW q \in Int, NEW r \in 0..(m - 1), NEW p \in Int, NEW s \in 0..(m - 1),
         q * m + r = p * m + s
  PROVE  r = s
<1>1. (q - p) * m = s - r BY SMT
<1>2. CASE q - p > 0
  <2>1. PICK a \in Nat \ {0} : a = q - p BY <1>2
  <2>2. a * m >= m BY AtLeastOnce
  <2> QED BY <1>1, <2>1, <2>2
<1>3. CASE p - q > 0
  <2>1. PICK a \in Nat \ {0} : a = p - q BY <1>3
  <2>2. a * m >= m BY AtLeastOnce
  <2>3. a * m = r - s BY <2>1, SMT
  <2> QED BY <2>1, <2>2, <2>3
<1>4. CASE q = p BY <1>4
<1> QED BY <1>2, <1>3, <1>4

LEMMA ModOfSum ==
  ASSUME NEW m \in Nat \ {0}, NEW x \in Int, NEW h \in Int
  PROVE  ((x % m) + h) % m = (x + h) % m /\ x % m \in 0..(m - 1)
<1>1. PICK q \in Int, r \in 0..(m - 1) : x = q * m + r /\ x % m = r BY ModParts
<1>2. r + h \in Int /\ x + h \in Int OBVIOUS
<1>3. PICK p \in Int, s \in 0..(m - 1) : r + h = p * m + s /\ (r + h) % m = s BY <1>2, ModParts
<1>4. PICK o \in Int, u \in 0..(m - 1) : x + h = o * m + u /\ (x + h) % m = u BY <1>2, ModParts
<1>5. PICK n \in Int : n = q + p OBVIOUS
<1>6. n * m = q * m + p * m BY <1>5, SMT
<1>7. n * m + s = o * m + u BY <1>1, <1>3, <1>4, <1>6
<1>8. s = u BY <1>7, OneRemainder
<1> QED BY <1>1, <1>3, <1>4, <1>8

\* Quotients, and products with them.
LEMMA DivMod ==
  ASSUME NEW c \in Nat, NEW m \in Nat \ {0}
  PROVE  /\ c \div m \in Nat /\ c % m \in 0..(m - 1) /\ c - (c % m) \in Nat
         /\ c = (c \div m) * m + (c % m)
BY SMTT(30)

LEMMA LessByFactor ==
  ASSUME NEW q \in Nat, NEW l \in Nat, NEW m \in Nat \ {0}, q * m < l * m
  PROVE  q < l
BY SMTT(30)

LEMMA MultiplesInOrder ==
  ASSUME NEW q \in Nat, NEW l \in Nat, NEW m \in Nat, q <= l
  PROVE  q * m \in Nat /\ l * m \in Nat /\ q * m <= l * m /\ (q + 1) * m = q * m + m
BY SMTT(30)

\* The scan of kmt_context_switch comes by every slot.
LEMMA ScanReaches ==
  ASSUME NEW m \in Nat \ {0}, NEW a \in 0..(m - 1), NEW b \in 0..(m - 1)
  PROVE  \E k \in 1..(m + 1) : (a + k) % m = b
<1>1. CASE b > a
  <2>1. (b - a) \in 1..(m + 1) /\ a + (b - a) = b BY <1>1
  <2>2. b % m = b BY ModSmall
  <2> QED BY <2>1, <2>2
<1>2. CASE b <= a
  <2>1. (b - a + m) \in 1..(m + 1) /\ a + (b - a + m) = b + m BY <1>2
  <2>2. (b + m) % m = b BY ModWrap
  <2> QED BY <2>1, <2>2
<1> QED BY <1>1, <1>2

\* A set of numbers that is not empty has a smallest member, which CHOOSE finds.
LEMMA SmallestExists ==
  ASSUME NEW S \in SUBSET Nat, S # {}
  PROVE  \E m \in S : \A n \in S : m <= n
<1> DEFINE Less == {p \in Nat \X Nat : p[1] < p[2]}
<1>1. IsWellFoundedOn(Less, Nat) BY NatLessThanWellFounded, Zenon DEF OpToRel
<1>2. PICK m \in S : \A n \in S : <<n, m>> \notin Less BY <1>1, WFMin
<1>3. \A n \in S : ~(n < m) BY <1>2
<1> QED BY <1>3

\* A set of numbers below a bound has a largest member.
LEMMA LargestExists ==
  ASSUME NEW S \in SUBSET Nat, S # {}, NEW n \in Nat, \A s \in S : s <= n
  PROVE  \E m \in S : \A s \in S : s <= m
<1> DEFINE T == {n - s : s \in S}
<1>1. T \in SUBSET Nat OBVIOUS
<1>2. PICK s0 \in S : TRUE OBVIOUS
<1>3. n - s0 \in T BY <1>2
<1>4. T # {} BY <1>3
<1>5. PICK k \in T : \A t \in T : k <= t BY <1>1, <1>4, SmallestExists
<1>6. PICK m \in S : k = n - m BY <1>5
<1>7. \A s \in S : n - m <= n - s BY <1>5, <1>6
<1>8. \A s \in S : s <= m BY <1>7
<1> QED BY <1>8

\* What a sequence of members of S all of which are in T is.
LEMMA SeqOfMembers ==
  ASSUME NEW S, NEW T, NEW q \in Seq(S), \A i \in 1..Len(q) : q[i] \in T
  PROVE  q \in Seq(T)
<1>1. Len(q) \in Nat /\ q \in [1..Len(q) -> S] BY LenProperties
<1>2. q \in [1..Len(q) -> T] BY <1>1
<1> QED BY <1>1, <1>2, SeqDef

\* What sem_wait puts at the front of a queue.
LEMMA AddFirst ==
  ASSUME NEW S, NEW q \in Seq(S), NEW x \in S
  PROVE  /\ <<x>> \o q \in Seq(S)
         /\ Len(<<x>> \o q) = Len(q) + 1
         /\ (<<x>> \o q)[1] = x
         /\ \A i \in 2..(Len(q) + 1) : (<<x>> \o q)[i] = q[i - 1]
<1>1. <<x>> \in Seq(S) /\ Len(<<x>>) = 1 /\ <<x>>[1] = x OBVIOUS
<1>2. Len(q) \in Nat BY LenProperties
<1> QED BY <1>1, <1>2, ConcatProperties

\* What sem_signal leaves of a queue.
LEMMA DropLast ==
  ASSUME NEW S, NEW q \in Seq(S), q # << >>
  PROVE  /\ Len(q) \in Nat \ {0} /\ q[Len(q)] \in S
         /\ SubSeq(q, 1, Len(q) - 1) \in Seq(S)
         /\ Len(SubSeq(q, 1, Len(q) - 1)) = Len(q) - 1
         /\ \A i \in 1..(Len(q) - 1) : SubSeq(q, 1, Len(q) - 1)[i] = q[i]
<1>1. Len(q) \in Nat \ {0} /\ q \in [1..Len(q) -> S] BY EmptySeq, LenProperties
<1>2. \A i \in 1..(Len(q) - 1) : q[i] \in S BY <1>1
<1> QED BY <1>1, <1>2, SubSeqProperties

-----------------------------------------------------------------------------
(* Folds.  MapThenFoldSet defines a function on the subsets of the domain   *)
(* of a sequence by recursion; the two lemmas are the induction that its    *)
(* uses need, the recursion being the function G or what "it" satisfies.    *)

\* The largest member is what Max chooses.
LEMMA MaxIs ==
  ASSUME NEW s \in SUBSET Nat, NEW m \in s, \A x \in s : x <= m
  PROVE  Max(s) = m
<1>1. \A x \in s : (\A y \in s : x >= y) => x = m OBVIOUS
<1>2. \A y \in s : m >= y OBVIOUS
<1> QED BY <1>1, <1>2 DEF Max

LEMMA MaxInInterval ==
  ASSUME NEW n \in Nat, NEW s \in SUBSET (1..n), s # {}
  PROVE  Max(s) \in s
<1>1. s \in SUBSET Nat /\ \A x \in s : x <= n OBVIOUS
<1>2. PICK m \in s : \A x \in s : x <= m BY <1>1, LargestExists
<1> QED BY <1>1, <1>2, MaxIs

\* f is the function of a fold over 1..N, whose step is G.
IsFold(f, N, base, G) ==
  \A s \in SUBSET (1..N) : f[s] = IF s = {} THEN base ELSE G[<<f[s \ {Max(s)}], Max(s)>>]

\* A function with the recursion of a fold exists.
LEMMA FoldExists ==
  ASSUME NEW N \in Nat, NEW T, NEW base \in T, NEW G \in [T \X (1..N) -> T]
  PROVE  \E f \in [SUBSET (1..N) -> T] : IsFold(f, N, base, G)
<1> DEFINE Good(n) == \E f \in [SUBSET (1..n) -> T] :
                        \A s \in SUBSET (1..n) :
                          f[s] = IF s = {} THEN base ELSE G[<<f[s \ {Max(s)}], Max(s)>>]
           Bad == {n \in 0..N : ~Good(n)}
<1> HIDE DEF Good
<1>1. SUFFICES ASSUME Bad # {} PROVE FALSE
  <2>1. N \in 0..N OBVIOUS
  <2>2. Good(N) <=> \E f \in [SUBSET (1..N) -> T] : IsFold(f, N, base, G)
    BY DEF Good, IsFold
  <2> QED BY <2>1, <2>2
<1>2. PICK n \in Bad : \A m \in Bad : n <= m
  <2>1. Bad \in SUBSET Nat OBVIOUS
  <2> QED BY <1>1, <2>1, SmallestExists
<1>3. n # 0
  <2>1. Good(0)
    <3> DEFINE f == [s \in SUBSET (1..0) |-> base]
    <3>1. \A s \in SUBSET (1..0) : s = {} OBVIOUS
    <3>2. f \in [SUBSET (1..0) -> T] OBVIOUS
    <3>3. \A s \in SUBSET (1..0) : f[s] = IF s = {} THEN base ELSE G[<<f[s \ {Max(s)}], Max(s)>>]
      BY <3>1
    <3> HIDE DEF f
    <3> QED BY <3>2, <3>3 DEF Good
  <2> QED BY <2>1
<1>4. n \in 1..N /\ n - 1 \in 0..N /\ n - 1 < n BY <1>3
<1>5. Good(n - 1) BY <1>2, <1>4
<1>6. PICK f \in [SUBSET (1..(n - 1)) -> T] :
         \A s \in SUBSET (1..(n - 1)) :
           f[s] = IF s = {} THEN base ELSE G[<<f[s \ {Max(s)}], Max(s)>>]
  BY <1>5 DEF Good
<1> DEFINE g == [s \in SUBSET (1..n) |-> IF n \in s THEN G[<<f[s \ {n}], n>>] ELSE f[s]]
<1>7. \A s \in SUBSET (1..n) : s \ {n} \in SUBSET (1..(n - 1)) /\ (n \notin s => s \in SUBSET (1..(n - 1)))
  BY <1>4
<1>8. g \in [SUBSET (1..n) -> T]
  <2>1. \A s \in SUBSET (1..n) : f[s \ {n}] \in T /\ (n \notin s => f[s] \in T) BY <1>6, <1>7
  <2>2. \A y \in T : G[<<y, n>>] \in T BY <1>4
  <2>3. \A s \in SUBSET (1..n) : (IF n \in s THEN G[<<f[s \ {n}], n>>] ELSE f[s]) \in T BY <2>1, <2>2
  <2> QED BY <2>3
<1>9. ASSUME NEW s \in SUBSET (1..n)
      PROVE  g[s] = IF s = {} THEN base ELSE G[<<g[s \ {Max(s)}], Max(s)>>]
  <2>1. CASE n \in s
    <3>1. Max(s) = n
      <4>1. s \in SUBSET Nat /\ \A x \in s : x <= n BY <1>4
      <4> QED BY <2>1, <4>1, MaxIs
    <3>2. g[s \ {n}] = f[s \ {n}]
      <4>1. s \ {n} \in SUBSET (1..n) /\ n \notin s \ {n} OBVIOUS
      <4> QED BY <4>1
    <3>3. g[s] = G[<<f[s \ {n}], n>>] BY <2>1
    <3> HIDE DEF g
    <3> QED BY <2>1, <3>1, <3>2, <3>3
  <2>2. CASE n \notin s
    <3>1. g[s] = f[s] BY <2>2
    <3>2. g[s \ {Max(s)}] = f[s \ {Max(s)}]
      <4>1. s \ {Max(s)} \in SUBSET (1..n) /\ n \notin s \ {Max(s)} BY <2>2
      <4> QED BY <4>1
    <3>3. f[s] = IF s = {} THEN base ELSE G[<<f[s \ {Max(s)}], Max(s)>>] BY <1>6, <1>7, <2>2
    <3> HIDE DEF g
    <3> QED BY <3>1, <3>2, <3>3
  <2> QED BY <2>1, <2>2
<1>10. Good(n)
  <2> HIDE DEF g
  <2> QED BY <1>8, <1>9 DEF Good
<1> QED BY <1>2, <1>10

\* What a fold keeps, it has at the end.
LEMMA FoldMembers ==
  ASSUME NEW N \in Nat, NEW T, NEW it, it[{}] \in T,
         \A k \in 1..N : it[1..(k - 1)] \in T => it[1..k] \in T
  PROVE  \A k \in 0..N : it[1..k] \in T
<1> DEFINE Bad == {n \in 0..N : it[1..n] \notin T}
<1>1. SUFFICES ASSUME Bad # {} PROVE FALSE OBVIOUS
<1>2. PICK n \in Bad : \A m \in Bad : n <= m
  <2>1. Bad \in SUBSET Nat OBVIOUS
  <2> QED BY <1>1, <2>1, SmallestExists
<1>3. n # 0
  <2>1. 1..0 = {} OBVIOUS
  <2> QED BY <1>2, <2>1
<1>4. n \in 1..N /\ n - 1 \in 0..N /\ ~(n <= n - 1) BY <1>3
<1>5. it[1..(n - 1)] \in T BY <1>2, <1>4
<1> QED BY <1>2, <1>4, <1>5

\* The last step of a fold over the first k elements.
LEMMA LastOfInterval ==
  ASSUME NEW k \in Nat \ {0}
  PROVE  1..k # {} /\ Max(1..k) = k /\ (1..k) \ {Max(1..k)} = 1..(k - 1)
<1>1. 1..k \in SUBSET Nat /\ k \in 1..k /\ \A x \in 1..k : x <= k OBVIOUS
<1>2. Max(1..k) = k BY <1>1, MaxIs
<1>3. (1..k) \ {k} = 1..(k - 1) OBVIOUS
<1> QED BY <1>1, <1>2, <1>3

\* f goes from base by the step G.
IsIteration(f, N, base, G) == f[0] = base /\ \A i \in 1..N : f[i] = G[f[i - 1]]

\* A function that is defined from its value before exists.
LEMMA IterationExists ==
  ASSUME NEW N \in Nat, NEW T, NEW base \in T, NEW G \in [T -> T]
  PROVE  \E f \in [0..N -> T] : IsIteration(f, N, base, G)
<1> DEFINE Good(n) == \E f \in [0..n -> T] : f[0] = base /\ \A i \in 1..n : f[i] = G[f[i - 1]]
           Bad == {n \in 0..N : ~Good(n)}
<1> HIDE DEF Good
<1>1. SUFFICES ASSUME Bad # {} PROVE FALSE
  <2>1. N \in 0..N OBVIOUS
  <2>2. Good(N) <=> \E f \in [0..N -> T] : IsIteration(f, N, base, G) BY DEF Good, IsIteration
  <2> QED BY <2>1, <2>2
<1>2. PICK n \in Bad : \A m \in Bad : n <= m
  <2>1. Bad \in SUBSET Nat OBVIOUS
  <2> QED BY <1>1, <2>1, SmallestExists
<1>3. n # 0
  <2>1. [i \in 0..0 |-> base] \in [0..0 -> T] OBVIOUS
  <2>2. [i \in 0..0 |-> base][0] = base /\ 1..0 = {} OBVIOUS
  <2>3. Good(0) BY <2>1, <2>2 DEF Good
  <2> QED BY <2>3
<1>4. n \in 1..N /\ n - 1 \in 0..N /\ ~(n <= n - 1) BY <1>3
<1>5. Good(n - 1) BY <1>2, <1>4
<1>6. PICK f \in [0..(n - 1) -> T] : f[0] = base /\ \A i \in 1..(n - 1) : f[i] = G[f[i - 1]]
  BY <1>5 DEF Good
<1> DEFINE g == [i \in 0..n |-> IF i = n THEN G[f[n - 1]] ELSE f[i]]
<1>7. \A i \in 0..n : i # n => i \in 0..(n - 1) BY <1>4
<1>8. g \in [0..n -> T] BY <1>4, <1>6, <1>7
<1>9. \A i \in 0..(n - 1) : g[i] = f[i] BY <1>4
<1>10. g[n] = G[f[n - 1]] BY <1>4
<1> HIDE DEF g
<1>11. \A i \in 1..n : g[i] = G[g[i - 1]]
  <2> TAKE i \in 1..n
  <2>1. i - 1 \in 0..(n - 1) /\ g[i - 1] = f[i - 1] BY <1>4, <1>9
  <2>2. CASE i = n BY <1>10, <2>1, <2>2
  <2>3. CASE i # n
    <3>1. i \in 1..(n - 1) /\ i \in 0..(n - 1) BY <1>4, <2>3
    <3> QED BY <1>6, <1>9, <2>1, <3>1
  <2> QED BY <2>2, <2>3
<1>12. g[0] = base BY <1>4, <1>6, <1>9
<1>13. Good(n) BY <1>8, <1>11, <1>12 DEF Good
<1> QED BY <1>2, <1>13

\* Induction, for a set of numbers.
LEMMA StepByStep ==
  ASSUME NEW N \in Nat, NEW a \in 0..N, NEW P, a \in P, \A i \in (a + 1)..N : i - 1 \in P => i \in P
  PROVE  \A i \in a..N : i \in P
<1> DEFINE Bad == {i \in a..N : i \notin P}
<1>1. SUFFICES ASSUME Bad # {} PROVE FALSE OBVIOUS
<1>2. PICK n \in Bad : \A m \in Bad : n <= m
  <2>1. Bad \in SUBSET Nat OBVIOUS
  <2> QED BY <1>1, <2>1, SmallestExists
<1>3. n \in (a + 1)..N /\ n - 1 \in a..N /\ ~(n <= n - 1) BY <1>2
<1>4. n - 1 \in P BY <1>2, <1>3
<1> QED BY <1>2, <1>3, <1>4
=============================================================================
