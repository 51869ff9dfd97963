----------------------------- MODULE PmmProofs -----------------------------
(***************************************************************************)
(* Machine-checked proofs about Pmm, for every number of CPUs, every size  *)
(* of the heap and of the headers, and all sizes that are asked for.       *)
(*                                                                         *)
(* The invariant is about the headers h of the heap: they are in order and *)
(* cover it (Heap), and the lists of the CPUs have all of them but the     *)
(* last one (Arena).  What kalloc and kfree do with the headers, dividing, *)
(* appending and merging, keeps both.                                      *)
(***************************************************************************)
EXTENDS Pmm, DataLemmas

\* The first unit behind a block.
Behind(h, b) == b + Info + h[b].size

Typed(h) == DOMAIN h \in SUBSET Addrs /\ h \in [DOMAIN h -> Block]

\* The blocks lie one behind the other, from the start of the heap to its end.
Tiled(h) ==
  /\ \A b, d \in DOMAIN h : b < d => Behind(h, b) <= d
  /\ \A b \in DOMAIN h : Behind(h, b) <= HeapSz
  /\ \A u \in Addrs : \E b \in DOMAIN h : b <= u /\ u < Behind(h, b)

\* The links go both ways, from one block to one behind it.
Linked(h) ==
  \A b \in DOMAIN h :
    /\ h[b].next # Nil => h[b].next > b /\ h[b].next \in DOMAIN h /\ h[h[b].next].prev = b
    /\ h[b].prev # Nil => h[b].prev \in DOMAIN h /\ h[h[b].prev].next = b

Heap(h) == Typed(h) /\ Tiled(h) /\ Linked(h)

\* s are the blocks of the list that starts at head.
IsList(h, head, s) ==
  /\ s \in SUBSET DOMAIN h
  /\ IF s = {} THEN head = Nil ELSE head \in s /\ h[head].prev = Nil
  /\ \A b \in s : h[b].next # Nil => h[b].next \in s
  /\ \A b \in s : b # head => h[b].prev \in s

\* fb is the last block and in no list; all others are in one.
Lists(h, heads, fb, L) ==
  /\ fb \in DOMAIN h /\ \A b \in DOMAIN h : b <= fb
  /\ h[fb].next = Nil /\ h[fb].prev = Nil
  /\ heads \in [CPUs -> Addrs \cup {Nil}]
  /\ \A c \in CPUs : IsList(h, heads[c], L[c])
  /\ \A c, e \in CPUs : c # e => L[c] \cap L[e] = {}
  /\ \A b \in DOMAIN h : b # fb <=> \E c \in CPUs : b \in L[c]

Arena(h, heads, fb) == Heap(h) /\ \E L \in [CPUs -> SUBSET DOMAIN h] : Lists(h, heads, fb, L)

\* Programs hold the blocks that are not free, each once.
Held(h, held) ==
  /\ held \in SUBSET (Addrs \X Sizes)
  /\ \A b \in DOMAIN h : ~h[b].free <=> \E a \in held : b = a[1] - Info
  /\ \A a \in held : a[1] - Info \in DOMAIN h /\ h[a[1] - Info].size >= a[2]
  /\ \A a, e \in held : a[1] = e[1] => a = e

PmmInv ==
  /\ Arena(blocks, small_head, free_block)
  /\ Held(blocks, live)
  /\ blocks[free_block].free
  /\ mode \in {"run", "out of memory"}

-----------------------------------------------------------------------------
(* Searching a list.                                                        *)

LEMMA AddrFacts ==
  /\ Info \in Nat \ {0} /\ Unit \in Nat \ {0} /\ Ignore \in Nat \ {0} /\ HeapSz \in Nat \ {0}
  /\ Info < HeapSz /\ Sizes \in SUBSET (Nat \ {0}) /\ Nil \notin Nat /\ Addrs \in SUBSET Nat
  /\ \A a : a \in Addrs <=> a \in Nat /\ a < HeapSz
BY PmmAssumption DEF Nil, Addrs

LEMMA BlockFacts ==
  ASSUME NEW h, Typed(h)
  PROVE  /\ h = [b \in DOMAIN h |-> h[b]]
         /\ \A b \in DOMAIN h : /\ b \in Addrs /\ b \in Nat /\ b # Nil
                                /\ h[b] \in Block /\ h[b].size \in Nat /\ h[b].free \in BOOLEAN
                                /\ h[b].next \in Addrs \cup {Nil} /\ h[b].prev \in Addrs \cup {Nil}
         /\ IsFiniteSet(DOMAIN h) /\ Cardinality(DOMAIN h) \in Nat
<1>1. h = [b \in DOMAIN h |-> h[b]] BY DEF Typed
<1>2. ASSUME NEW b \in DOMAIN h
      PROVE  /\ b \in Addrs /\ b \in Nat /\ b # Nil
             /\ h[b] \in Block /\ h[b].size \in Nat /\ h[b].free \in BOOLEAN
             /\ h[b].next \in Addrs \cup {Nil} /\ h[b].prev \in Addrs \cup {Nil}
  <2>1. b \in Addrs /\ h[b] \in Block BY DEF Typed
  <2>2. h[b].size \in 0..HeapSz /\ h[b].free \in BOOLEAN
        /\ h[b].next \in Addrs \cup {Nil} /\ h[b].prev \in Addrs \cup {Nil}
    BY <2>1 DEF Block
  <2> QED BY <2>1, <2>2, AddrFacts
<1>3. IsFiniteSet(DOMAIN h)
  <2>1. DOMAIN h \in SUBSET Nat /\ \A b \in DOMAIN h : b <= HeapSz BY <1>2, AddrFacts
  <2> QED BY <2>1, AddrFacts, FS_BoundedSetOfNaturals
<1> QED BY <1>1, <1>2, <1>3, FS_CardinalityType

\* What find_small steps through: w[i] is where it is after i blocks.
IsWalk(w, h, head, n) ==
  /\ w[0] = head
  /\ \A i \in 1..Cardinality(DOMAIN h) :
       w[i] = IF w[i - 1] = Nil \/ Fits(h, w[i - 1], n) THEN w[i - 1] ELSE h[w[i - 1]].next

LEMMA WalkIs ==
  ASSUME NEW h, Typed(h), NEW s, NEW head, IsList(h, head, s), NEW n
  PROVE  /\ Walk(h, head, n) \in [0..Cardinality(DOMAIN h) -> s \cup {Nil}]
         /\ IsWalk(Walk(h, head, n), h, head, n)
<1> DEFINE N == Cardinality(DOMAIN h)
           T == s \cup {Nil}
           G == [x \in T |-> IF x = Nil \/ Fits(h, x, n) THEN x ELSE h[x].next]
           Rec(w) == [i \in 0..N |->
                        IF i = 0 THEN head
                        ELSE IF w[i - 1] = Nil \/ Fits(h, w[i - 1], n) THEN w[i - 1] ELSE h[w[i - 1]].next]
           it == CHOOSE w : w = Rec(w)
<1>1. N \in Nat BY BlockFacts
<1>2. Walk(h, head, n) = it BY DEF Walk
<1>3. head \in T BY DEF IsList
<1>4. G \in [T -> T] BY DEF IsList
<1>5. \A x \in T : G[x] = IF x = Nil \/ Fits(h, x, n) THEN x ELSE h[x].next OBVIOUS
<1> HIDE DEF G, N, T, it
<1>6. PICK f \in [0..N -> T] : IsIteration(f, N, head, G) BY <1>1, <1>3, <1>4, IterationExists
<1>7. \A i \in 1..N : i - 1 \in 0..N /\ f[i - 1] \in T BY <1>1, <1>6
<1>8. f = Rec(f)
  <2>1. \A i \in 0..N : i # 0 => i \in 1..N BY <1>1
  <2>2. \A i \in 0..N : f[i] = Rec(f)[i] BY <1>5, <1>6, <1>7, <2>1 DEF IsIteration
  <2> QED BY <1>6, <2>2
<1> HIDE DEF Rec
<1>9. it = Rec(it) BY <1>8 DEF it
<1>10. it[0] = head /\ \A i \in 1..N : it[i] =
         IF it[i - 1] = Nil \/ Fits(h, it[i - 1], n) THEN it[i - 1] ELSE h[it[i - 1]].next
  BY <1>1, <1>9 DEF Rec
<1>11. IsWalk(it, h, head, n) BY <1>10 DEF IsWalk, N
<1>12. it \in [0..N -> T]
  <2>1. DOMAIN it = 0..N /\ it = [i \in 0..N |-> it[i]] BY <1>9 DEF Rec
  <2> DEFINE Bad == {i \in 0..N : it[i] \notin T}
  <2>2. SUFFICES ASSUME Bad # {} PROVE FALSE BY <2>1
  <2>3. PICK i \in Bad : \A m \in Bad : i <= m
    <3>1. Bad \in SUBSET Nat BY <1>1
    <3> QED BY <2>2, <3>1, SmallestExists
  <2>4. i # 0 BY <1>3, <1>10, <2>3
  <2>5. i \in 1..N /\ i - 1 \in 0..N /\ ~(i <= i - 1) BY <1>1, <2>3, <2>4
  <2>6. it[i - 1] \in T BY <2>3, <2>5
  <2>7. it[i] = G[it[i - 1]] BY <1>5, <1>10, <2>5, <2>6
  <2> QED BY <1>4, <2>3, <2>6, <2>7
<1> QED BY <1>2, <1>11, <1>12 DEF N, T

\* find_small stops at a block that fits, or has looked at all of them.
LEMMA SearchIs ==
  ASSUME NEW h, Typed(h), Linked(h), NEW s, NEW head, IsList(h, head, s), NEW n
  PROVE  /\ Found(h, head, n) \in s \cup {Nil} /\ Passed(h, head, n) \in SUBSET s
         /\ Found(h, head, n) # Nil => Fits(h, Found(h, head, n), n)
         /\ Found(h, head, n) = Nil => Range(Walk(h, head, n)) \ {Nil} = s /\ Passed(h, head, n) = s
<1> DEFINE N == Cardinality(DOMAIN h)
           w == Walk(h, head, n)
           Below(x) == {d \in DOMAIN h : d <= x}
           Halts(i) == w[i] = Nil \/ Fits(h, w[i], n)
<1>1. N \in Nat /\ IsFiniteSet(DOMAIN h) BY BlockFacts
<1>2. w \in [0..N -> s \cup {Nil}] /\ w[0] = head
      /\ \A i \in 1..N : w[i] = IF Halts(i - 1) THEN w[i - 1] ELSE h[w[i - 1]].next
  BY WalkIs DEF IsWalk
<1>3. s \in SUBSET DOMAIN h BY DEF IsList
<1>4. Found(h, head, n) = w[N] /\ Passed(h, head, n) = Range(w) \ {w[N], Nil} BY DEF Found, Passed
<1>5. Range(w) = {w[i] : i \in 0..N} BY <1>2 DEF Range
<1> HIDE DEF w, N
<1>6. \A x : IsFiniteSet(Below(x)) /\ Cardinality(Below(x)) \in Nat /\ Cardinality(Below(x)) <= N
  <2> TAKE x
  <2>1. Below(x) \in SUBSET DOMAIN h OBVIOUS
  <2> QED BY <1>1, <2>1, FS_Subset, FS_CardinalityType DEF N
<1>7. \A i \in 0..N : Halts(i) \/ Cardinality(Below(w[i])) >= i + 1
  <2> DEFINE P == {i \in 0..N : Halts(i) \/ Cardinality(Below(w[i])) >= i + 1}
  <2>1. ASSUME NEW i \in 0..N, i = 0 \/ (i \in 1..N /\ i - 1 \in P), ~Halts(i)
        PROVE  Cardinality(Below(w[i])) >= i + 1
    <3>1. w[i] \in DOMAIN h /\ w[i] \in Nat BY <1>2, <1>3, <2>1, BlockFacts
    <3>2. w[i] \in Below(w[i]) BY <3>1
    <3>3. CASE i = 0
      <4>1. Below(w[i]) # {} BY <3>2
      <4>2. Cardinality(Below(w[i])) # 0 BY <1>6, <4>1, FS_EmptySet
      <4> QED BY <1>6, <3>3, <4>2
    <3>4. CASE i \in 1..N /\ i - 1 \in P
      <4>1. ~Halts(i - 1) BY <1>2, <2>1, <3>4
      <4>2. w[i] = h[w[i - 1]].next /\ Cardinality(Below(w[i - 1])) >= i BY <1>1, <1>2, <3>4, <4>1
      <4>3. w[i - 1] \in DOMAIN h /\ w[i - 1] \in Nat BY <1>2, <1>3, <3>4, <4>1, BlockFacts
      <4>4. w[i] > w[i - 1] BY <2>1, <4>2, <4>3 DEF Linked
      <4>5. Below(w[i - 1]) \in SUBSET (Below(w[i]) \ {w[i]})
        <5> SUFFICES ASSUME NEW d \in DOMAIN h, d <= w[i - 1] PROVE d <= w[i] /\ d # w[i] OBVIOUS
        <5>1. d \in Nat BY BlockFacts
        <5> QED BY <3>1, <4>3, <4>4, <5>1
      <4>6. /\ IsFiniteSet(Below(w[i]) \ {w[i]})
            /\ Cardinality(Below(w[i]) \ {w[i]}) = Cardinality(Below(w[i])) - 1
        BY <1>6, <3>2, FS_RemoveElement, ZenonT(30)
      <4>7. Cardinality(Below(w[i - 1])) <= Cardinality(Below(w[i]) \ {w[i]}) BY <4>5, <4>6, FS_Subset
      <4> HIDE DEF Below
      <4> QED BY <1>6, <3>4, <4>2, <4>6, <4>7
    <3> QED BY <2>1, <3>3, <3>4
  <2>2. 0 \in P
    <3>1. 0 \in 0..N /\ 0 + 1 = 1 BY <1>1
    <3>2. ~Halts(0) => Cardinality(Below(w[0])) >= 0 + 1 BY <2>1, <3>1
    <3> QED BY <3>1, <3>2
  <2>3. \A i \in (0 + 1)..N : i - 1 \in P => i \in P BY <1>1, <2>1
  <2> HIDE DEF P
  <2>4. \A i \in 0..N : i \in P BY <1>1, <2>2, <2>3, StepByStep
  <2> QED BY <2>4 DEF P
<1>8. Halts(N)
  <2>1. N \in 0..N BY <1>1
  <2>2. Halts(N) \/ Cardinality(Below(w[N])) >= N + 1 BY <1>7, <2>1
  <2> HIDE DEF Below, Halts
  <2>3. Cardinality(Below(w[N])) \in Nat /\ Cardinality(Below(w[N])) <= N BY <1>6
  <2> QED BY <1>1, <2>2, <2>3
<1>9. ASSUME NEW j \in 0..N, Halts(j) PROVE w[N] = w[j]
  <2> DEFINE P == {i \in 0..N : w[i] = w[j]}
  <2>1. \A i \in (j + 1)..N : i - 1 \in P => i \in P BY <1>1, <1>2, <1>9
  <2>2. j \in P OBVIOUS
  <2> HIDE DEF P
  <2>3. \A i \in j..N : i \in P BY <1>1, <2>1, <2>2, StepByStep
  <2> QED BY <1>1, <2>3 DEF P
<1>10. ASSUME w[N] = Nil PROVE \A b \in s : \E i \in 0..N : w[i] = b
  <2> DEFINE Bad == {b \in s : \A i \in 0..N : w[i] # b}
  <2> SUFFICES ASSUME Bad # {} PROVE FALSE OBVIOUS
  <2>1. PICK b \in Bad : \A d \in Bad : b <= d
    <3>1. Bad \in SUBSET Nat BY <1>3, BlockFacts
    <3> QED BY <3>1, SmallestExists
  <2>2. b \in DOMAIN h /\ b \in Nat /\ b # head BY <1>1, <1>2, <1>3, <2>1, BlockFacts
  <2>3. h[b].prev \in s BY <2>1, <2>2 DEF IsList
  <2> DEFINE p == h[b].prev
  <2>4. p \in DOMAIN h /\ p # Nil /\ p \in Nat BY <1>3, <2>3, BlockFacts
  <2>5. h[p].next = b /\ b # Nil BY <2>2, <2>4, BlockFacts DEF Linked
  <2>6. b > p BY <2>4, <2>5 DEF Linked
  <2>7. p \notin Bad BY <2>1, <2>2, <2>4, <2>6
  <2>8. PICK i \in 0..N : w[i] = p BY <2>3, <2>7
  <2>9. ~Halts(i) BY <1>9, <1>10, <2>4, <2>8
  <2>10. i # N BY <1>10, <2>4, <2>8
  <2>11. i + 1 \in 1..N /\ i + 1 \in 0..N /\ (i + 1) - 1 = i BY <1>1, <2>10
  <2>12. w[i + 1] = b BY <1>2, <2>5, <2>8, <2>9, <2>11
  <2> QED BY <2>1, <2>11, <2>12
<1>11. N \in 0..N BY <1>1
<1>12. w[N] \in s \cup {Nil} /\ Range(w) \in SUBSET (s \cup {Nil}) BY <1>2, <1>5, <1>11
<1>13. Nil \notin s BY <1>3, BlockFacts
<1>14. w[N] = Nil => Range(w) \ {Nil} = s /\ Range(w) \ {w[N], Nil} = s BY <1>5, <1>10, <1>12, <1>13
<1> QED BY <1>4, <1>8, <1>12, <1>14 DEF w

-----------------------------------------------------------------------------
(* Dividing a block.                                                        *)

LEMMA MinOne ==
  ASSUME NEW s, NEW v \in Nat, s # {}, \A x \in s : x = v
  PROVE  Min(s) = v
<1>1. s = {v} OBVIOUS
<1>2. v <= v OBVIOUS
<1> QED BY <1>1, <1>2 DEF Min

\* The links that find_small writes are there already.
LEMMA RelinkedIs ==
  ASSUME NEW h, Typed(h), Linked(h), NEW passed \in SUBSET DOMAIN h
  PROVE  Relinked(h, passed) = h
<1>1. ASSUME NEW b \in DOMAIN h PROVE Relinked(h, passed)[b] = h[b]
  <2> DEFINE after == {p \in passed : h[p].prev = b}
             before == {p \in passed : h[p].next = b}
  <2>1. b # Nil /\ h[b].next \in Addrs \cup {Nil} /\ h[b].prev \in Addrs \cup {Nil} BY BlockFacts
  <2>2. (IF after = {} THEN h[b].next ELSE Min(after)) = h[b].next
    <3> SUFFICES ASSUME after # {} PROVE Min(after) = h[b].next OBVIOUS
    <3>1. \A p \in after : p = h[b].next /\ p \in Nat BY <2>1, BlockFacts DEF Linked
    <3> HIDE DEF after
    <3> QED BY <3>1, MinOne
  <2>3. (IF before = {} THEN h[b].prev ELSE Min(before)) = h[b].prev
    <3> SUFFICES ASSUME before # {} PROVE Min(before) = h[b].prev OBVIOUS
    <3>1. \A p \in before : p = h[b].prev /\ p \in Nat BY <2>1, BlockFacts DEF Linked
    <3> HIDE DEF before
    <3> QED BY <3>1, MinOne
  <2>4. Relinked(h, passed)[b] =
          [h[b] EXCEPT !.next = IF after = {} THEN h[b].next ELSE Min(after),
                       !.prev = IF before = {} THEN h[b].prev ELSE Min(before)]
    BY DEF Relinked
  <2>5. h[b] \in Block BY BlockFacts
  <2> HIDE DEF after, before
  <2>6. [h[b] EXCEPT !.next = h[b].next, !.prev = h[b].prev] = h[b] BY <2>5 DEF Block
  <2> QED BY <2>2, <2>3, <2>4, <2>6
<1>2. DOMAIN Relinked(h, passed) = DOMAIN h /\ Relinked(h, passed) = [b \in DOMAIN h |-> Relinked(h, passed)[b]]
  BY DEF Relinked
<1> QED BY <1>1, <1>2, BlockFacts

\* g is h with a new block at r, behind cur.
IsDivided(g, h, cur, n, r) ==
  /\ r = cur + Info + n /\ r \notin DOMAIN h /\ r \in Addrs /\ r < Behind(h, cur)
  /\ DOMAIN g = DOMAIN h \cup {r} /\ Typed(g)
  /\ g[r].size = h[cur].size - Info - n /\ g[r].next = h[cur].next /\ g[r].prev = cur /\ g[r].free
  /\ g[cur].size = n /\ g[cur].next = r /\ g[cur].prev = h[cur].prev
  /\ \A b \in DOMAIN h : /\ g[b].free = h[b].free
                         /\ b # cur => g[b].size = h[b].size /\ g[b].next = h[b].next
                         /\ b # h[cur].next => g[b].prev = h[b].prev
                         /\ b # cur /\ b = h[cur].next => g[b].prev = r

LEMMA DivideIs ==
  ASSUME NEW h, Heap(h), NEW cur \in DOMAIN h, NEW n \in Nat \ {0}, h[cur].size >= n
  PROVE  LET g == Divide(h, cur, n) IN
         g = h \/ IsDivided(g, h, cur, n, cur + Info + n)
<1> DEFINE r == cur + Info + n
           g == Divide(h, cur, n)
           nx == h[cur].next
<1> SUFFICES ASSUME ~(h[cur].size < n + Info + Ignore) PROVE IsDivided(g, h, cur, n, r)
  BY DEF Divide
<1>1. Typed(h) /\ Linked(h) /\ Tiled(h) BY DEF Heap
<1>2. cur \in Nat /\ h[cur] \in Block /\ h[cur].size \in Nat /\ nx \in Addrs \cup {Nil} /\ h[cur].prev \in Addrs \cup {Nil}
  BY <1>1, BlockFacts
<1>3. Behind(h, cur) <= HeapSz BY <1>1 DEF Tiled
<1>4. r \in Nat /\ r > cur /\ r < Behind(h, cur) /\ r \in Addrs /\ h[cur].size <= HeapSz
  BY <1>2, <1>3, AddrFacts DEF Behind
<1>5. r \notin DOMAIN h
  <2> SUFFICES ASSUME r \in DOMAIN h PROVE FALSE OBVIOUS
  <2>1. Behind(h, cur) <= r BY <1>1, <1>2, <1>4 DEF Tiled
  <2>2. Behind(h, cur) \in Nat BY <1>2, AddrFacts DEF Behind
  <2> QED BY <1>4, <2>1, <2>2
<1>6. nx # cur /\ nx # r BY <1>1, <1>2, <1>4, <1>5, AddrFacts DEF Linked
<1>7. cur # r BY <1>2, <1>4
<1> DEFINE R == [h[cur] EXCEPT !.size = @ - Info - n, !.prev = cur, !.free = TRUE]
           G(b) == IF b = cur THEN [h[cur] EXCEPT !.size = n, !.next = r]
                   ELSE IF b = nx THEN [h[b] EXCEPT !.prev = r] ELSE IF b = r THEN R ELSE h[b]
<1>8. DOMAIN g = DOMAIN h \cup {r} /\ g = [b \in DOMAIN h \cup {r} |-> G(b)]
  <2>1. With(h, r, R) = [b \in DOMAIN h \cup {r} |-> IF b = r THEN R ELSE h[b]] BY DEF With
  <2>2. \A b \in DOMAIN h \cup {r} :
          (IF b = cur THEN [With(h, r, R)[b] EXCEPT !.size = n, !.next = r]
           ELSE IF b = nx THEN [With(h, r, R)[b] EXCEPT !.prev = r] ELSE With(h, r, R)[b]) = G(b)
    BY <1>6, <1>7, <2>1
  <2>3. g = [b \in DOMAIN With(h, r, R) |->
              IF b = cur THEN [With(h, r, R)[b] EXCEPT !.size = n, !.next = r]
              ELSE IF b = nx THEN [With(h, r, R)[b] EXCEPT !.prev = r] ELSE With(h, r, R)[b]]
    BY DEF Divide
  <2>4. DOMAIN With(h, r, R) = DOMAIN h \cup {r} BY <2>1
  <2> HIDE DEF g, R, G
  <2> QED BY <2>2, <2>3, <2>4
<1>9. /\ R \in Block /\ R.size = h[cur].size - Info - n /\ R.next = nx /\ R.prev = cur /\ R.free = TRUE
  <2>1. h[cur].size - Info - n \in 0..HeapSz BY <1>2, <1>4, AddrFacts
  <2>2. cur \in Addrs BY <1>1, BlockFacts
  <2>3. h[cur] \in [size : 0..HeapSz, next : Addrs \cup {Nil}, prev : Addrs \cup {Nil}, free : BOOLEAN]
    BY <1>2 DEF Block
  <2> QED BY <2>1, <2>2, <2>3 DEF Block
<1>10. ASSUME NEW b \in DOMAIN h, b # cur, b # nx PROVE g[b] = h[b]
  <2>1. b # r BY <1>5
  <2> QED BY <1>8, <1>10, <2>1
<1>11. ASSUME NEW b \in DOMAIN h, b # cur, b = nx
       PROVE  /\ g[b] \in Block /\ g[b].prev = r /\ g[b].size = h[b].size /\ g[b].next = h[b].next
              /\ g[b].free = h[b].free
  <2>1. g[b] = [h[b] EXCEPT !.prev = r] BY <1>8, <1>11
  <2>2. h[b] \in Block BY <1>1, BlockFacts
  <2> QED BY <1>4, <2>1, <2>2 DEF Block
<1>12. /\ g[cur] \in Block /\ g[cur].size = n /\ g[cur].next = r /\ g[cur].prev = h[cur].prev
       /\ g[cur].free = h[cur].free
  <2>1. g[cur] = [h[cur] EXCEPT !.size = n, !.next = r] BY <1>8
  <2>2. n \in 0..HeapSz BY <1>2, <1>4, AddrFacts
  <2> QED BY <1>2, <1>4, <2>1, <2>2 DEF Block
<1>13. g[r] = R BY <1>6, <1>7, <1>8
<1> HIDE DEF g, R
<1>14. Typed(g)
  <2>1. DOMAIN g \in SUBSET Addrs BY <1>1, <1>4, <1>8 DEF Typed
  <2>2. \A b \in DOMAIN g : g[b] \in Block BY <1>1, <1>8, <1>9, <1>10, <1>11, <1>12, <1>13, BlockFacts
  <2>3. g = [b \in DOMAIN g |-> g[b]] BY <1>8
  <2> QED BY <2>1, <2>2, <2>3 DEF Typed
<1>15. \A b \in DOMAIN h : /\ g[b].free = h[b].free
                           /\ b # cur => g[b].size = h[b].size /\ g[b].next = h[b].next
                           /\ b # nx => g[b].prev = h[b].prev
                           /\ b # cur /\ b = nx => g[b].prev = r
  BY <1>10, <1>11, <1>12
<1> QED BY <1>4, <1>5, <1>8, <1>9, <1>12, <1>13, <1>14, <1>15 DEF IsDivided

\* A block is cut in two.
LEMMA SplitTiled ==
  ASSUME NEW g, NEW h, Typed(h), Tiled(h), NEW cur \in DOMAIN h, NEW r \in Addrs, r \notin DOMAIN h,
         cur < r, r < Behind(h, cur), DOMAIN g = DOMAIN h \cup {r},
         Behind(g, r) = Behind(h, cur), Behind(g, cur) = r,
         \A b \in DOMAIN h : b # cur => Behind(g, b) = Behind(h, b)
  PROVE  Tiled(g)
<1>1. cur \in Nat /\ r \in Nat BY BlockFacts, AddrFacts
<1>2. \A b \in DOMAIN h : b \in Nat /\ Behind(h, b) \in Nat /\ b < Behind(h, b)
  BY BlockFacts, AddrFacts DEF Behind
<1>3. ASSUME NEW b \in DOMAIN g, NEW d \in DOMAIN g, b < d PROVE Behind(g, b) <= d
  <2>1. CASE b = cur
    <3>1. d # r => d >= Behind(h, cur) BY <1>3, <2>1 DEF Tiled
    <3> QED BY <1>1, <1>2, <1>3, <2>1, <3>1
  <2>2. CASE b = r
    <3>1. d \in DOMAIN h /\ d > cur BY <1>1, <1>2, <1>3, <2>2
    <3>2. d >= Behind(h, cur) BY <3>1 DEF Tiled
    <3> QED BY <2>2, <3>2
  <2>3. CASE b # cur /\ b # r
    <3>1. b \in DOMAIN h BY <2>3
    <3>2. CASE d # r BY <1>3, <2>3, <3>1, <3>2 DEF Tiled
    <3>3. CASE d = r
      <4>1. cur < b => Behind(h, cur) <= b BY <3>1 DEF Tiled
      <4>2. b < cur BY <1>1, <1>2, <1>3, <2>3, <3>1, <3>3, <4>1
      <4>3. Behind(h, b) <= cur BY <3>1, <4>2 DEF Tiled
      <4> QED BY <1>1, <1>2, <2>3, <3>1, <3>3, <4>3
    <3> QED BY <3>2, <3>3
  <2> QED BY <2>1, <2>2, <2>3
<1>4. ASSUME NEW b \in DOMAIN g PROVE Behind(g, b) <= HeapSz
  <2>1. CASE b = cur \/ b = r
    <3>1. Behind(h, cur) <= HeapSz BY DEF Tiled
    <3> QED BY <1>1, <2>1, <3>1, AddrFacts
  <2>2. CASE b # cur /\ b # r BY <2>2 DEF Tiled
  <2> QED BY <2>1, <2>2
<1>5. ASSUME NEW u \in Addrs PROVE \E b \in DOMAIN g : b <= u /\ u < Behind(g, b)
  <2>1. PICK b \in DOMAIN h : b <= u /\ u < Behind(h, b) BY DEF Tiled
  <2>2. CASE b # cur BY <2>1, <2>2
  <2>3. CASE b = cur /\ u < r BY <2>1, <2>3
  <2>4. CASE b = cur /\ ~(u < r)
    <3>1. u \in Nat BY AddrFacts
    <3>2. r <= u /\ u < Behind(g, r) /\ r \in DOMAIN g BY <1>1, <2>1, <2>4, <3>1
    <3> QED BY <3>2
  <2> QED BY <2>2, <2>3, <2>4
<1> QED BY <1>3, <1>4, <1>5 DEF Tiled

\* What a list looks like when its block cur is divided.
LEMMA DividedHeap ==
  ASSUME NEW g, NEW h, Heap(h), NEW cur \in DOMAIN h, NEW n \in Nat \ {0}, h[cur].size >= n,
         NEW r, IsDivided(g, h, cur, n, r)
  PROVE  Heap(g) /\ r > cur
<1>1. Typed(h) /\ Linked(h) /\ Tiled(h) BY DEF Heap
<1>2. /\ r = cur + Info + n /\ r \notin DOMAIN h /\ r \in Addrs /\ r < Behind(h, cur)
      /\ DOMAIN g = DOMAIN h \cup {r} /\ Typed(g)
      /\ g[r].size = h[cur].size - Info - n /\ g[r].next = h[cur].next /\ g[r].prev = cur /\ g[r].free
      /\ g[cur].size = n /\ g[cur].next = r /\ g[cur].prev = h[cur].prev
      /\ \A b \in DOMAIN h : /\ b # cur => g[b].size = h[b].size /\ g[b].next = h[b].next
                             /\ b # h[cur].next => g[b].prev = h[b].prev
                             /\ b # cur /\ b = h[cur].next => g[b].prev = r
  BY DEF IsDivided
<1>3. cur \in Nat /\ r \in Nat /\ h[cur].size \in Nat /\ Info \in Nat /\ r > cur /\ r # Nil /\ cur # Nil
  <2>1. cur \in Nat /\ cur # Nil /\ h[cur].size \in Nat BY <1>1, BlockFacts
  <2>2. r = cur + Info + n BY <1>2
  <2> QED BY <2>1, <2>2, AddrFacts
<1>4. Behind(h, cur) \in Nat /\ Behind(g, r) = Behind(h, cur) /\ Behind(g, cur) = r
  BY <1>2, <1>3 DEF Behind
<1>5. \A b \in DOMAIN h : b # cur => Behind(g, b) = Behind(h, b) BY <1>2 DEF Behind
<1>6. \A b \in DOMAIN h : b \in Nat /\ Behind(h, b) \in Nat /\ b < Behind(h, b)
  BY <1>1, BlockFacts, AddrFacts DEF Behind
<1>7. Tiled(g) BY <1>1, <1>2, <1>3, <1>4, <1>5, SplitTiled
<1>8. h[cur].next # Nil => h[cur].next \in DOMAIN h /\ h[cur].next > r /\ h[h[cur].next].prev = cur
  <2> SUFFICES ASSUME h[cur].next # Nil PROVE h[cur].next \in DOMAIN h /\ h[cur].next > r /\ h[h[cur].next].prev = cur
    OBVIOUS
  <2>1. h[cur].next \in DOMAIN h /\ h[cur].next > cur /\ h[h[cur].next].prev = cur BY <1>1 DEF Linked
  <2>2. h[cur].next >= Behind(h, cur) BY <1>1, <2>1 DEF Tiled
  <2> QED BY <1>2, <1>3, <1>4, <1>6, <2>1, <2>2
<1>9. Linked(g)
  <2> SUFFICES ASSUME NEW b \in DOMAIN g
               PROVE  /\ g[b].next # Nil => g[b].next > b /\ g[b].next \in DOMAIN g /\ g[g[b].next].prev = b
                      /\ g[b].prev # Nil => g[b].prev \in DOMAIN g /\ g[g[b].prev].next = b
    BY DEF Linked
  <2>1. CASE b = r
    <3>1. g[b].prev = cur /\ cur \in DOMAIN g /\ g[cur].next = r BY <1>2, <2>1
    <3>2. g[b].next # Nil => g[b].next > r /\ g[b].next \in DOMAIN h /\ g[b].next = h[cur].next
      BY <1>2, <1>8, <2>1
    <3>3. g[b].next # Nil => g[g[b].next].prev = r BY <1>2, <1>3, <3>2, <1>6
    <3> QED BY <1>2, <2>1, <3>1, <3>2, <3>3
  <2>2. CASE b = cur
    <3>1. g[b].next = r /\ r > b /\ r \in DOMAIN g /\ g[r].prev = b BY <1>2, <1>3, <2>2
    <3>2. g[b].prev = h[b].prev BY <1>2, <2>2
    <3>3. g[b].prev # Nil => g[b].prev \in DOMAIN h /\ h[g[b].prev].next = b BY <1>1, <2>2, <3>2 DEF Linked
    <3>4. g[b].prev # Nil => g[b].prev # cur
      <4>1. h[cur].next # cur BY <1>3, <1>8
      <4> QED BY <2>2, <3>3, <4>1
    <3> QED BY <1>2, <3>1, <3>3, <3>4
  <2>3. CASE b # r /\ b # cur
    <3>1. b \in DOMAIN h /\ g[b].next = h[b].next BY <1>2, <2>3
    <3>2. g[b].next # Nil => /\ g[b].next > b /\ g[b].next \in DOMAIN g /\ g[b].next \in DOMAIN h
                             /\ h[g[b].next].prev = b
      BY <1>1, <1>2, <3>1 DEF Linked
    <3>3. g[b].next # Nil => g[b].next # h[cur].next
      <4> SUFFICES ASSUME g[b].next # Nil, g[b].next = h[cur].next PROVE FALSE OBVIOUS
      <4>1. h[h[cur].next].prev = cur BY <1>8
      <4> QED BY <2>3, <3>2, <4>1
    <3>4. g[b].next # Nil => g[g[b].next].prev = b BY <1>2, <3>2, <3>3
    <3>5. CASE b = h[cur].next
      <4>1. g[b].prev = r /\ r \in DOMAIN g /\ g[r].next = b BY <1>2, <2>3, <3>1, <3>5
      <4> QED BY <3>2, <3>4, <4>1
    <3>6. CASE b # h[cur].next
      <4>1. g[b].prev = h[b].prev BY <1>2, <3>1, <3>6
      <4>2. g[b].prev # Nil => g[b].prev \in DOMAIN h /\ h[g[b].prev].next = b BY <1>1, <3>1, <4>1 DEF Linked
      <4>3. g[b].prev # Nil => g[b].prev # cur BY <3>6, <4>2
      <4> QED BY <1>2, <3>2, <3>4, <4>2, <4>3
    <3> QED BY <3>5, <3>6
  <2> QED BY <2>1, <2>2, <2>3
<1> QED BY <1>2, <1>3, <1>7, <1>9 DEF Heap

LEMMA DividedLists ==
  ASSUME NEW g, NEW h, Heap(h), NEW heads, NEW fb, NEW L \in [CPUs -> SUBSET DOMAIN h], Lists(h, heads, fb, L),
         NEW cur \in DOMAIN h, cur # fb, NEW n \in Nat \ {0}, h[cur].size >= n, NEW r, IsDivided(g, h, cur, n, r)
  PROVE  Arena(g, heads, fb) /\ g[fb] = h[fb]
<1> DEFINE M == [c \in CPUs |-> IF cur \in L[c] THEN L[c] \cup {r} ELSE L[c]]
<1>1. Typed(h) /\ Linked(h) /\ Tiled(h) BY DEF Heap
<1>2. /\ r \notin DOMAIN h /\ r \in Addrs /\ r < Behind(h, cur)
      /\ DOMAIN g = DOMAIN h \cup {r} /\ Typed(g)
      /\ g[r].next = h[cur].next /\ g[r].prev = cur
      /\ g[cur].next = r /\ g[cur].prev = h[cur].prev
      /\ \A b \in DOMAIN h : /\ g[b].free = h[b].free
                             /\ b # cur => g[b].size = h[b].size /\ g[b].next = h[b].next
                             /\ b # h[cur].next => g[b].prev = h[b].prev
                             /\ b # cur /\ b = h[cur].next => g[b].prev = r
  BY DEF IsDivided
<1>3. Heap(g) /\ r > cur BY DividedHeap
<1>4. /\ fb \in DOMAIN h /\ (\A b \in DOMAIN h : b <= fb) /\ h[fb].next = Nil /\ h[fb].prev = Nil
      /\ heads \in [CPUs -> Addrs \cup {Nil}]
      /\ \A c \in CPUs : IsList(h, heads[c], L[c])
      /\ \A c, e \in CPUs : c # e => L[c] \cap L[e] = {}
      /\ \A b \in DOMAIN h : b # fb <=> \E c \in CPUs : b \in L[c]
  BY DEF Lists
<1>5. \A b \in DOMAIN h : b \in Nat /\ b # Nil BY <1>1, BlockFacts
<1>6. r \in Nat /\ r # Nil BY <1>2, AddrFacts
<1>7. r < fb
  <2>1. cur < fb BY <1>4, <1>5
  <2>2. Behind(h, cur) <= fb BY <1>1, <1>4, <2>1 DEF Tiled
  <2>3. h[cur].size \in Nat BY <1>1, BlockFacts
  <2> QED BY <1>2, <1>4, <1>5, <1>6, <2>2, <2>3, AddrFacts DEF Behind
<1>8. h[cur].next # fb
  <2> SUFFICES ASSUME h[cur].next = fb PROVE FALSE OBVIOUS
  <2>1. fb # Nil BY <1>4, <1>5
  <2>2. h[fb].prev = cur BY <1>1, <2>1 DEF Linked
  <2> QED BY <1>4, <1>5, <2>2
<1>9. g[fb] = h[fb]
  <2>1. /\ g[fb].size = h[fb].size /\ g[fb].next = h[fb].next /\ g[fb].prev = h[fb].prev /\ g[fb].free = h[fb].free
    BY <1>2, <1>4, <1>8
  <2>2. g[fb] \in Block /\ h[fb] \in Block BY <1>1, <1>2, <1>4, BlockFacts
  <2> QED BY <2>1, <2>2 DEF Block
<1>10. ASSUME NEW c \in CPUs PROVE IsList(g, heads[c], M[c])
  <2> DEFINE s == L[c]
             t == M[c]
             head == heads[c]
  <2>1. /\ s \in SUBSET DOMAIN h
        /\ IF s = {} THEN head = Nil ELSE head \in s /\ h[head].prev = Nil
        /\ \A b \in s : h[b].next # Nil => h[b].next \in s
        /\ \A b \in s : b # head => h[b].prev \in s
    BY <1>4 DEF IsList
  <2>2. t = IF cur \in s THEN s \cup {r} ELSE s OBVIOUS
  <2> HIDE DEF t, s, head
  <2>3. t \in SUBSET DOMAIN g BY <1>2, <2>1, <2>2
  <2>4. IF t = {} THEN head = Nil ELSE head \in t /\ g[head].prev = Nil
    <3>1. t = {} <=> s = {} BY <2>2
    <3>2. s # {} => head \in t /\ head \in DOMAIN h /\ h[head].prev = Nil BY <2>1, <2>2
    <3>3. s # {} => head # h[cur].next
      <4> SUFFICES ASSUME s # {}, head = h[cur].next PROVE FALSE OBVIOUS
      <4>1. head # Nil /\ h[head].prev = cur BY <1>1, <1>5, <3>2 DEF Linked
      <4> QED BY <1>5, <3>2, <4>1
    <3> QED BY <1>2, <2>1, <3>1, <3>2, <3>3
  <2>5. ASSUME NEW b \in t, g[b].next # Nil PROVE g[b].next \in t
    <3>1. CASE b = r
      <4>1. cur \in s /\ h[cur].next # Nil BY <1>2, <2>1, <2>2, <2>5, <3>1
      <4> QED BY <1>2, <2>1, <2>2, <3>1, <4>1
    <3>2. CASE b = cur BY <1>2, <2>1, <2>2, <3>2
    <3>3. CASE b # r /\ b # cur
      <4>1. b \in s /\ b \in DOMAIN h BY <2>1, <2>2, <3>3
      <4> QED BY <1>2, <2>1, <2>2, <2>5, <3>3, <4>1
    <3> QED BY <3>1, <3>2, <3>3
  <2>6. ASSUME NEW b \in t, b # head PROVE g[b].prev \in t
    <3>1. CASE b = r BY <1>2, <2>1, <2>2, <3>1
    <3>2. CASE b # r /\ b # cur /\ b = h[cur].next
      <4>1. b \in s /\ b # Nil BY <1>5, <2>1, <2>2, <3>2
      <4>2. h[b].prev = cur BY <1>1, <3>2, <4>1 DEF Linked
      <4>3. cur \in s BY <2>1, <2>6, <4>1, <4>2
      <4> QED BY <1>2, <2>1, <2>2, <3>2, <4>1, <4>3
    <3>3. CASE b # r /\ (b = cur \/ b # h[cur].next)
      <4>1. b \in s /\ b \in DOMAIN h BY <2>1, <2>2, <3>3
      <4>2. g[b].prev = h[b].prev BY <1>2, <3>3, <4>1
      <4> QED BY <2>1, <2>2, <2>6, <4>1, <4>2
    <3> QED BY <3>1, <3>2, <3>3
  <2> QED BY <2>3, <2>4, <2>5, <2>6 DEF IsList, t, s, head
<1>11. M \in [CPUs -> SUBSET DOMAIN g] BY <1>2
<1>12. \A c \in CPUs : M[c] = IF cur \in L[c] THEN L[c] \cup {r} ELSE L[c] OBVIOUS
<1> HIDE DEF M
<1>13. \A c, e \in CPUs : c # e => M[c] \cap M[e] = {}
  <2> SUFFICES ASSUME NEW c \in CPUs, NEW e \in CPUs, c # e, NEW x \in M[c], x \in M[e] PROVE FALSE OBVIOUS
  <2>1. L[c] \cap L[e] = {} /\ r \notin L[c] /\ r \notin L[e] BY <1>2, <1>4
  <2> QED BY <1>12, <2>1
<1>14. \A b \in DOMAIN g : b # fb <=> \E c \in CPUs : b \in M[c]
  <2> TAKE b \in DOMAIN g
  <2>1. CASE b = r
    <3>1. b # fb BY <1>6, <1>7, <1>4, <1>5, <2>1
    <3>2. PICK c \in CPUs : cur \in L[c] BY <1>4
    <3> QED BY <1>12, <2>1, <3>1, <3>2
  <2>2. CASE b # r
    <3>1. b \in DOMAIN h BY <1>2, <2>2
    <3>2. \A c \in CPUs : b \in M[c] <=> b \in L[c] BY <1>12, <2>2
    <3> QED BY <1>4, <3>1, <3>2
  <2> QED BY <2>1, <2>2
<1>15. \A b \in DOMAIN g : b <= fb BY <1>2, <1>4, <1>5, <1>6, <1>7
<1>16. Lists(g, heads, fb, M)
  <2>1. fb \in DOMAIN g /\ g[fb].next = Nil /\ g[fb].prev = Nil BY <1>2, <1>4, <1>9
  <2> QED BY <1>4, <1>10, <1>13, <1>14, <1>15, <2>1 DEF Lists
<1> QED BY <1>3, <1>9, <1>11, <1>16 DEF Arena

-----------------------------------------------------------------------------
(* Marking a block.                                                         *)

SameLinks(g, h) ==
  /\ DOMAIN g = DOMAIN h
  /\ \A b \in DOMAIN h : g[b].size = h[b].size /\ g[b].next = h[b].next /\ g[b].prev = h[b].prev

\* It is of no matter to the lists which blocks are free.
LEMMA SameShape ==
  ASSUME NEW g, NEW h, Typed(g), SameLinks(g, h), NEW heads, NEW fb, Arena(h, heads, fb)
  PROVE  Arena(g, heads, fb)
<1>1. Typed(h) /\ Linked(h) /\ Tiled(h) BY DEF Heap, Arena
<1>2. DOMAIN g = DOMAIN h
      /\ \A b \in DOMAIN h : g[b].size = h[b].size /\ g[b].next = h[b].next /\ g[b].prev = h[b].prev
  BY DEF SameLinks
<1>3. \A b \in DOMAIN h : Behind(g, b) = Behind(h, b) BY <1>2 DEF Behind
<1>4. Tiled(g) BY <1>1, <1>2, <1>3 DEF Tiled
<1>5. Linked(g) BY <1>1, <1>2 DEF Linked
<1>6. PICK L \in [CPUs -> SUBSET DOMAIN h] : Lists(h, heads, fb, L) BY DEF Arena
<1>7. Lists(g, heads, fb, L)
  <2>1. fb \in DOMAIN h /\ \A c \in CPUs : IsList(h, heads[c], L[c]) BY <1>6 DEF Lists
  <2>2. ASSUME NEW c \in CPUs PROVE IsList(g, heads[c], L[c])
    <3>1. IsList(h, heads[c], L[c]) BY <2>1
    <3> QED BY <1>2, <3>1 DEF IsList
  <2>3. g[fb].next = h[fb].next /\ g[fb].prev = h[fb].prev BY <1>2, <2>1
  <2> QED BY <1>2, <1>6, <2>2, <2>3 DEF Lists
<1> QED BY <1>2, <1>4, <1>5, <1>6, <1>7 DEF Heap, Arena

\* h with the block b free or in use.
LEMMA MarkedIs ==
  ASSUME NEW h, Typed(h), NEW cur \in DOMAIN h, NEW f \in BOOLEAN
  PROVE  LET g == [h EXCEPT ![cur].free = f] IN
         /\ Typed(g) /\ SameLinks(g, h) /\ g[cur].free = f
         /\ \A b \in DOMAIN h : b # cur => g[b] = h[b]
<1> DEFINE g == [h EXCEPT ![cur].free = f]
<1>1. h[cur] \in Block /\ (\A b \in DOMAIN h : h[b] \in Block) /\ DOMAIN h \in SUBSET Addrs BY DEF Typed
<1>2. g = [b \in DOMAIN h |-> IF b = cur THEN [h[cur] EXCEPT !.free = f] ELSE h[b]]
  BY <1>1 DEF Typed
<1>3. DOMAIN g = DOMAIN h /\ g[cur] = [h[cur] EXCEPT !.free = f] /\ \A b \in DOMAIN h : b # cur => g[b] = h[b]
  BY <1>2
<1> DEFINE R == [h[cur] EXCEPT !.free = f]
<1>4. R \in Block /\ R.size = h[cur].size /\ R.next = h[cur].next /\ R.prev = h[cur].prev /\ R.free = f
  BY <1>1 DEF Block
<1>5. g[cur] = R BY <1>3
<1> HIDE DEF g, R
<1>6. g \in [DOMAIN g -> Block] BY <1>1, <1>2, <1>3, <1>4, <1>5
<1>7. Typed(g) BY <1>1, <1>3, <1>6 DEF Typed
<1>8. SameLinks(g, h) BY <1>3, <1>4, <1>5 DEF SameLinks
<1> QED BY <1>3, <1>4, <1>5, <1>7, <1>8 DEF g

-----------------------------------------------------------------------------
(* Appending a block.                                                       *)

Grown(n) == IF n < Unit THEN Unit ELSE n

\* g is h with fb cut to sz, behind last in a list, and a new last block.
IsAppended(g, h, fb, last, sz, r) ==
  /\ r = fb + Info + sz /\ r \notin DOMAIN h /\ r \in Addrs /\ r < Behind(h, fb)
  /\ DOMAIN g = DOMAIN h \cup {r} /\ Typed(g)
  /\ g[r].size = h[fb].size - Info - sz /\ g[r].next = Nil /\ g[r].prev = Nil /\ g[r].free
  /\ g[fb].size = sz /\ g[fb].next = h[fb].next /\ g[fb].prev = IF last = Nil THEN h[fb].prev ELSE last
  /\ \A b \in DOMAIN h :
       /\ g[b].free = h[b].free
       /\ b # fb => g[b].size = h[b].size /\ g[b].prev = h[b].prev
                    /\ g[b].next = IF b = last THEN fb ELSE h[b].next

LEMMA AppendIs ==
  ASSUME NEW h, Heap(h), free_block \in DOMAIN h, NEW last \in DOMAIN h \cup {Nil}, last # free_block,
         NEW n \in Nat \ {0}, h[free_block].size >= Info + Grown(n)
  PROVE  IsAppended(NewSmallBlock(h, last, n), h, free_block, last, Grown(n), free_block + Info + Grown(n))
<1> DEFINE sz == Grown(n)
           fb == free_block
           r == fb + Info + sz
           g == NewSmallBlock(h, last, n)
           R == FreeHeader(h[fb].size - Info - sz)
           cut == With(h, fb + sz + Info, R)
           own == [cut EXCEPT ![fb].size = sz, ![fb].prev = IF last = Nil THEN @ ELSE last]
<1>1. Typed(h) /\ Linked(h) /\ Tiled(h) BY DEF Heap
<1>2. fb \in Nat /\ fb \in Addrs /\ h[fb] \in Block /\ h[fb].size \in Nat /\ sz \in Nat /\ sz > 0
  BY <1>1, BlockFacts, AddrFacts DEF Grown
<1>3. Behind(h, fb) <= HeapSz BY <1>1 DEF Tiled
<1>4. r \in Nat /\ r > fb /\ r < Behind(h, fb) /\ r \in Addrs /\ h[fb].size <= HeapSz /\ r = fb + sz + Info
      /\ h[fb].size - Info - sz \in 0..HeapSz /\ sz \in 0..HeapSz
  BY <1>2, <1>3, AddrFacts DEF Behind
<1>5. r \notin DOMAIN h
  <2> SUFFICES ASSUME r \in DOMAIN h PROVE FALSE OBVIOUS
  <2>1. Behind(h, fb) <= r BY <1>1, <1>4 DEF Tiled
  <2>2. Behind(h, fb) \in Nat BY <1>2, AddrFacts DEF Behind
  <2> QED BY <1>4, <2>1, <2>2
<1>6. g = IF last = Nil THEN own ELSE [own EXCEPT ![last].next = fb] BY DEF NewSmallBlock, Grown
<1>7. R \in Block /\ R.size = h[fb].size - Info - sz /\ R.next = Nil /\ R.prev = Nil /\ R.free = TRUE
  BY <1>4 DEF FreeHeader, Block
<1> DEFINE F == [h[fb] EXCEPT !.size = sz, !.prev = IF last = Nil THEN h[fb].prev ELSE last]
<1>8. F \in Block /\ F.size = sz /\ F.next = h[fb].next /\ F.free = h[fb].free
      /\ F.prev = IF last = Nil THEN h[fb].prev ELSE last
  <2>1. last \in Addrs \cup {Nil} BY <1>1 DEF Typed
  <2>2. h[fb] \in [size : 0..HeapSz, next : Addrs \cup {Nil}, prev : Addrs \cup {Nil}, free : BOOLEAN]
    BY <1>2 DEF Block
  <2> QED BY <1>4, <2>1, <2>2 DEF Block
<1>9. DOMAIN cut = DOMAIN h \cup {r} /\ cut = [b \in DOMAIN h \cup {r} |-> IF b = r THEN R ELSE h[b]]
  BY <1>4 DEF With
<1> HIDE DEF r, R, sz, g, cut
<1>10. fb # r BY <1>2, <1>4
<1>11. cut[fb] = h[fb] BY <1>9, <1>10
<1>12. DOMAIN own = DOMAIN h \cup {r} /\ own = [b \in DOMAIN h \cup {r} |-> IF b = fb THEN F ELSE IF b = r THEN R ELSE h[b]]
  <2>1. own = [b \in DOMAIN cut |->
                 IF b = fb THEN [cut[fb] EXCEPT !.size = sz, !.prev = IF last = Nil THEN cut[fb].prev ELSE last]
                 ELSE cut[b]]
    <3>1. cut[fb] \in Block BY <1>2, <1>11
    <3>2. [[cut[fb] EXCEPT !.size = sz] EXCEPT !.prev = IF last = Nil THEN @ ELSE last] =
          [cut[fb] EXCEPT !.size = sz, !.prev = IF last = Nil THEN cut[fb].prev ELSE last]
      BY <3>1 DEF Block
    <3> QED BY <1>9, <3>2
  <2> HIDE DEF own
  <2> QED BY <1>9, <1>11, <2>1
<1> HIDE DEF own, F
<1>13. last # Nil => last \in DOMAIN h /\ h[last] \in Block /\ last # r
  BY <1>1, <1>5, BlockFacts
<1> DEFINE E == [h[last] EXCEPT !.next = fb]
<1>14. last # Nil => E \in Block /\ E.size = h[last].size /\ E.prev = h[last].prev /\ E.free = h[last].free /\ E.next = fb
  BY <1>2, <1>13 DEF Block
<1>15. DOMAIN g = DOMAIN h \cup {r}
       /\ g = [b \in DOMAIN h \cup {r} |-> IF last # Nil /\ b = last THEN E ELSE own[b]]
  <2>1. CASE last = Nil
    <3>1. g = own BY <1>6, <2>1
    <3> QED BY <1>12, <2>1, <3>1
  <2>2. CASE last # Nil
    <3>1. own[last] = h[last] BY <1>12, <1>13, <2>2
    <3>2. g = [own EXCEPT ![last].next = fb] BY <1>6, <2>2
    <3>3. g = [b \in DOMAIN own |-> IF b = last THEN [own[last] EXCEPT !.next = fb] ELSE own[b]] BY <1>12, <3>2
    <3> QED BY <1>12, <2>2, <3>1, <3>3
  <2> QED BY <2>1, <2>2
<1> HIDE DEF E, fb
<1>16. last # fb BY DEF fb
<1>17. fb \in DOMAIN h BY DEF fb
<1>18. g[r] = R /\ g[fb] = F /\ \A b \in DOMAIN h : b # fb => g[b] = IF last # Nil /\ b = last THEN E ELSE h[b]
  BY <1>5, <1>10, <1>12, <1>13, <1>15, <1>16, <1>17
<1>19. Typed(g)
  <2>1. DOMAIN g \in SUBSET Addrs BY <1>1, <1>4, <1>15 DEF Typed
  <2>2. \A b \in DOMAIN h : h[b] \in Block BY <1>1, BlockFacts
  <2>3. \A b \in DOMAIN g : g[b] \in Block BY <1>7, <1>8, <1>14, <1>15, <1>18, <2>2
  <2>4. g = [b \in DOMAIN g |-> g[b]] BY <1>15
  <2> QED BY <2>1, <2>3, <2>4 DEF Typed
<1>20. \A b \in DOMAIN h : b # Nil BY <1>1, BlockFacts
<1>21. \A b \in DOMAIN h :
         /\ g[b].free = h[b].free
         /\ b # fb => g[b].size = h[b].size /\ g[b].prev = h[b].prev
                      /\ g[b].next = IF b = last THEN fb ELSE h[b].next
  BY <1>8, <1>14, <1>18, <1>20
<1>22. r = fb + Info + sz BY DEF r
<1>23. IsAppended(g, h, fb, last, sz, r)
  BY <1>4, <1>5, <1>7, <1>8, <1>15, <1>18, <1>19, <1>21, <1>22 DEF IsAppended
<1> QED BY <1>23 DEF g, fb, sz, r

\* The last block goes to the end of a list.
LEMMA AppendedLists ==
  ASSUME NEW g, NEW h, Heap(h), NEW heads, NEW fb, NEW L \in [CPUs -> SUBSET DOMAIN h], Lists(h, heads, fb, L),
         NEW c \in CPUs, NEW last, IF L[c] = {} THEN last = Nil ELSE last \in L[c] /\ h[last].next = Nil,
         NEW sz \in Nat \ {0}, NEW r, IsAppended(g, h, fb, last, sz, r)
  PROVE  Arena(g, [heads EXCEPT ![c] = IF last = Nil THEN fb ELSE @], r)
<1> DEFINE M == [e \in CPUs |-> IF e = c THEN L[e] \cup {fb} ELSE L[e]]
           H == [heads EXCEPT ![c] = IF last = Nil THEN fb ELSE @]
<1>1. Typed(h) /\ Linked(h) /\ Tiled(h) BY DEF Heap
<1>2. /\ r = fb + Info + sz /\ r \notin DOMAIN h /\ r \in Addrs /\ r < Behind(h, fb)
      /\ DOMAIN g = DOMAIN h \cup {r} /\ Typed(g)
      /\ g[r].size = h[fb].size - Info - sz /\ g[r].next = Nil /\ g[r].prev = Nil
      /\ g[fb].size = sz /\ g[fb].next = h[fb].next /\ g[fb].prev = (IF last = Nil THEN h[fb].prev ELSE last)
      /\ \A b \in DOMAIN h : b # fb => /\ g[b].size = h[b].size /\ g[b].prev = h[b].prev
                                       /\ g[b].next = IF b = last THEN fb ELSE h[b].next
  BY DEF IsAppended
<1>3. /\ fb \in DOMAIN h /\ (\A b \in DOMAIN h : b <= fb) /\ h[fb].next = Nil /\ h[fb].prev = Nil
      /\ heads \in [CPUs -> Addrs \cup {Nil}]
      /\ \A e \in CPUs : IsList(h, heads[e], L[e])
      /\ \A e, f \in CPUs : e # f => L[e] \cap L[f] = {}
      /\ \A b \in DOMAIN h : b # fb <=> \E e \in CPUs : b \in L[e]
  BY DEF Lists
<1>4. \A b \in DOMAIN h : b \in Nat /\ b # Nil BY <1>1, BlockFacts
<1>5. fb \in Nat /\ r \in Nat /\ r # Nil /\ h[fb].size \in Nat /\ r > fb
  <2>1. fb \in Nat /\ h[fb].size \in Nat BY <1>1, <1>3, BlockFacts
  <2>2. r \in Nat /\ r # Nil BY <1>2, AddrFacts
  <2>3. r = fb + Info + sz BY <1>2
  <2> QED BY <2>1, <2>2, <2>3, AddrFacts
<1>6. Tiled(g)
  <2>1. Behind(g, r) = Behind(h, fb) /\ Behind(g, fb) = r BY <1>2, <1>5, AddrFacts DEF Behind
  <2>2. \A b \in DOMAIN h : b # fb => Behind(g, b) = Behind(h, b) BY <1>2 DEF Behind
  <2> QED BY <1>1, <1>2, <1>3, <1>5, <2>1, <2>2, SplitTiled
<1>7. \A e \in CPUs : L[e] \in SUBSET DOMAIN h /\ fb \notin L[e] BY <1>3
<1>8. last # Nil => last \in L[c] /\ last \in DOMAIN h /\ last # fb /\ h[last].next = Nil /\ last < fb
  <2>1. last # Nil => last \in L[c] /\ h[last].next = Nil OBVIOUS
  <2> QED BY <1>3, <1>4, <1>7, <2>1
<1>9. last = Nil <=> L[c] = {} BY <1>4, <1>7
<1>10. \A b \in DOMAIN h : h[b].next # fb
  <2> SUFFICES ASSUME NEW b \in DOMAIN h, h[b].next = fb PROVE FALSE OBVIOUS
  <2>1. h[fb].prev = b BY <1>1, <1>3, <1>4 DEF Linked
  <2> QED BY <1>3, <1>4, <2>1
<1>11. Linked(g)
  <2> SUFFICES ASSUME NEW b \in DOMAIN g
               PROVE  /\ g[b].next # Nil => g[b].next > b /\ g[b].next \in DOMAIN g /\ g[g[b].next].prev = b
                      /\ g[b].prev # Nil => g[b].prev \in DOMAIN g /\ g[g[b].prev].next = b
    BY DEF Linked
  <2>1. CASE b = r BY <1>2, <2>1
  <2>2. CASE b = fb
    <3>1. g[b].next = Nil BY <1>2, <1>3, <2>2
    <3>2. g[b].prev # Nil => g[b].prev = last /\ last # Nil BY <1>2, <1>3, <2>2
    <3> QED BY <1>2, <1>8, <2>2, <3>1, <3>2
  <2>3. CASE b # r /\ b # fb
    <3>1. b \in DOMAIN h BY <1>2, <2>3
    <3>2. /\ h[b].next # Nil => h[b].next > b /\ h[b].next \in DOMAIN h /\ h[h[b].next].prev = b
          /\ h[b].prev # Nil => h[b].prev \in DOMAIN h /\ h[h[b].prev].next = b
      BY <1>1, <3>1 DEF Linked
    <3>3. h[b].prev # Nil => g[b].prev \in DOMAIN g /\ g[g[b].prev].next = b
      <4> SUFFICES ASSUME h[b].prev # Nil PROVE g[b].prev \in DOMAIN g /\ g[g[b].prev].next = b OBVIOUS
      <4>1. g[b].prev = h[b].prev /\ h[b].prev \in DOMAIN h /\ h[h[b].prev].next = b BY <1>2, <2>3, <3>1, <3>2
      <4>2. h[b].prev # fb BY <1>3, <1>4, <3>1, <4>1
      <4>3. h[b].prev # last BY <1>4, <1>8, <3>1, <4>1
      <4> QED BY <1>2, <4>1, <4>2, <4>3
    <3>4. CASE b = last
      <4>1. g[b].next = fb /\ last # Nil BY <1>2, <1>4, <2>3, <3>1, <3>4
      <4>2. g[fb].prev = b BY <1>2, <3>4, <4>1
      <4> QED BY <1>2, <1>3, <1>4, <1>8, <2>3, <3>1, <3>3, <3>4, <4>1, <4>2
    <3>5. CASE b # last
      <4>1. g[b].next = h[b].next BY <1>2, <2>3, <3>1, <3>5
      <4>2. h[b].next # Nil => g[h[b].next].prev = b BY <1>2, <1>10, <3>1, <3>2
      <4>3. g[b].prev = h[b].prev BY <1>2, <2>3, <3>1
      <4> QED BY <1>2, <3>2, <3>3, <4>1, <4>2, <4>3
    <3> QED BY <3>4, <3>5
  <2> QED BY <2>1, <2>2, <2>3
<1>12. H \in [CPUs -> Addrs \cup {Nil}] /\ H[c] = (IF last = Nil THEN fb ELSE heads[c])
       /\ \A e \in CPUs : e # c => H[e] = heads[e]
  <2>1. fb \in Addrs BY <1>1, <1>3, BlockFacts
  <2> QED BY <1>3, <2>1
<1>13. M \in [CPUs -> SUBSET DOMAIN g] /\ M[c] = L[c] \cup {fb} /\ \A e \in CPUs : e # c => M[e] = L[e]
  BY <1>2, <1>3
<1> HIDE DEF H, M
<1>14. ASSUME NEW e \in CPUs, e # c PROVE IsList(g, H[e], M[e])
  <2> DEFINE s == L[e]
             head == heads[e]
  <2>1. /\ s \in SUBSET DOMAIN h
        /\ IF s = {} THEN head = Nil ELSE head \in s /\ h[head].prev = Nil
        /\ \A b \in s : h[b].next # Nil => h[b].next \in s
        /\ \A b \in s : b # head => h[b].prev \in s
    BY <1>3 DEF IsList
  <2>2. M[e] = s /\ H[e] = head BY <1>12, <1>13, <1>14
  <2>3. fb \notin s /\ s \cap L[c] = {} BY <1>3, <1>7, <1>14
  <2> HIDE DEF s, head
  <2>4. \A b \in s : b \in DOMAIN h /\ b # fb /\ b # last BY <1>4, <1>8, <2>1, <2>3
  <2>5. \A b \in s : g[b].next = h[b].next /\ g[b].prev = h[b].prev BY <1>2, <2>4
  <2>6. IsList(g, head, s) BY <1>2, <2>1, <2>5 DEF IsList
  <2> QED BY <2>2, <2>6
<1>15. IsList(g, H[c], M[c])
  <2> DEFINE s == L[c]
             head == heads[c]
  <2>1. /\ s \in SUBSET DOMAIN h
        /\ IF s = {} THEN head = Nil ELSE head \in s /\ h[head].prev = Nil
        /\ \A b \in s : h[b].next # Nil => h[b].next \in s
        /\ \A b \in s : b # head => h[b].prev \in s
    BY <1>3 DEF IsList
  <2>2. fb \notin s /\ M[c] = s \cup {fb} /\ H[c] = (IF last = Nil THEN fb ELSE head) BY <1>7, <1>12, <1>13
  <2>3. last = Nil <=> s = {} BY <1>9
  <2>4. last # Nil => last \in s BY <1>8
  <2> HIDE DEF s, head
  <2>5. \A b \in s : /\ b \in DOMAIN h /\ b # fb /\ g[b].prev = h[b].prev
                     /\ g[b].next = IF b = last THEN fb ELSE h[b].next
    BY <1>2, <2>1, <2>2
  <2>6. g[fb].next = Nil /\ g[fb].prev = (IF last = Nil THEN Nil ELSE last) BY <1>2, <1>3
  <2>7. M[c] \in SUBSET DOMAIN g BY <1>2, <1>3, <2>1, <2>2
  <2>8. M[c] # {} /\ H[c] \in M[c] /\ g[H[c]].prev = Nil
    <3>1. CASE last = Nil BY <2>2, <2>6, <3>1
    <3>2. CASE last # Nil BY <2>1, <2>2, <2>3, <2>5, <3>2
    <3> QED BY <3>1, <3>2
  <2>9. \A b \in M[c] : g[b].next # Nil => g[b].next \in M[c] BY <2>1, <2>2, <2>5, <2>6
  <2>10. \A b \in M[c] : b # H[c] => g[b].prev \in M[c] BY <2>1, <2>2, <2>3, <2>4, <2>5, <2>6
  <2> QED BY <2>7, <2>8, <2>9, <2>10 DEF IsList
<1>16. \A e \in CPUs : IsList(g, H[e], M[e]) BY <1>14, <1>15
<1>17. \A e, f \in CPUs : e # f => M[e] \cap M[f] = {}
  <2> SUFFICES ASSUME NEW e \in CPUs, NEW f \in CPUs, e # f, NEW x \in M[e], x \in M[f] PROVE FALSE OBVIOUS
  <2>1. L[e] \cap L[f] = {} /\ fb \notin L[e] /\ fb \notin L[f] BY <1>3, <1>7
  <2> QED BY <1>13, <2>1
<1>18. \A b \in DOMAIN g : b # r <=> \E e \in CPUs : b \in M[e]
  <2> TAKE b \in DOMAIN g
  <2>1. CASE b = r
    <3>1. \A e \in CPUs : M[e] \in SUBSET DOMAIN h
      <4> TAKE e \in CPUs
      <4>1. L[e] \in SUBSET DOMAIN h BY <1>7
      <4> QED BY <1>3, <1>13, <4>1
    <3> QED BY <1>2, <2>1, <3>1
  <2>2. CASE b = fb BY <1>5, <1>13, <2>2
  <2>3. CASE b # r /\ b # fb
    <3>1. b \in DOMAIN h BY <1>2, <2>3
    <3>2. PICK e \in CPUs : b \in L[e] BY <1>3, <2>3, <3>1
    <3>3. b \in M[e] BY <1>13, <3>2
    <3> QED BY <2>3, <3>3
  <2> QED BY <2>1, <2>2, <2>3
<1>19. \A b \in DOMAIN g : b <= r BY <1>2, <1>3, <1>4, <1>5
<1>20. r \in DOMAIN g /\ g[r].next = Nil /\ g[r].prev = Nil BY <1>2
<1>21. Lists(g, H, r, M) BY <1>12, <1>16, <1>17, <1>18, <1>19, <1>20 DEF Lists
<1>22. Heap(g) BY <1>2, <1>6, <1>11 DEF Heap
<1>23. Arena(g, H, r) BY <1>13, <1>21, <1>22 DEF Arena
<1> QED BY <1>23 DEF H

-----------------------------------------------------------------------------
(* Taking a block.                                                          *)

\* No header lies in a block.
LEMMA ClearedIs ==
  ASSUME NEW h, Heap(h), NEW cur \in DOMAIN h, NEW n \in Nat, h[cur].size >= n
  PROVE  Cleared(h, cur + Info, n) = h
<1>1. Typed(h) /\ Tiled(h) BY DEF Heap
<1>2. cur \in Nat /\ h[cur].size \in Nat BY <1>1, BlockFacts
<1>3. ASSUME NEW d \in DOMAIN h, d \in (cur + Info)..(cur + Info + n - 1) PROVE FALSE
  <2>1. d > cur /\ d < cur + Info + n BY <1>2, <1>3, AddrFacts
  <2>2. cur + Info + h[cur].size <= d BY <1>1, <2>1 DEF Tiled, Behind
  <2>3. d \in Nat BY <1>1, BlockFacts
  <2> QED BY <1>2, <2>1, <2>2, <2>3, AddrFacts
<1>4. DOMAIN h \ ((cur + Info)..(cur + Info + n - 1)) = DOMAIN h BY <1>3
<1>5. Cleared(h, cur + Info, n) = [b \in DOMAIN h |-> h[b]] BY <1>4 DEF Cleared, Restrict
<1> QED BY <1>1, <1>5, BlockFacts

\* g is h with cur in use, and perhaps a new free block.
IsTaken(g, h, cur, n) ==
  /\ DOMAIN h \in SUBSET DOMAIN g /\ ~g[cur].free /\ g[cur].size >= n
  /\ \A b \in DOMAIN g : b # cur => g[b].free = (b \in DOMAIN h => h[b].free)
  /\ \A b \in DOMAIN h : b # cur => g[b].size = h[b].size

LEMMA TakenIs ==
  ASSUME NEW h, NEW heads, NEW fb, Arena(h, heads, fb), NEW cur \in DOMAIN h, cur # fb,
         NEW n \in Nat \ {0}, h[cur].size >= n
  PROVE  LET g == Cleared([Divide(h, cur, n) EXCEPT ![cur].free = FALSE], cur + Info, n) IN
         Arena(g, heads, fb) /\ IsTaken(g, h, cur, n) /\ g[fb].free = h[fb].free
<1>1. Heap(h) BY DEF Arena
<1>2. PICK L \in [CPUs -> SUBSET DOMAIN h] : Lists(h, heads, fb, L) BY DEF Arena
<1> DEFINE d == Divide(h, cur, n)
           m == [d EXCEPT ![cur].free = FALSE]
           g == Cleared(m, cur + Info, n)
<1>3. fb \in DOMAIN h BY <1>2 DEF Lists
<1>4. \A b \in DOMAIN h : h[b].free \in BOOLEAN /\ h[b].size \in Nat BY <1>1, BlockFacts DEF Heap
<1>5. /\ Arena(d, heads, fb) /\ d[fb] = h[fb] /\ DOMAIN h \in SUBSET DOMAIN d /\ d[cur].size >= n
      /\ \A b \in DOMAIN d : b # cur => d[b].free = (b \in DOMAIN h => h[b].free)
      /\ \A b \in DOMAIN h : b # cur => d[b].size = h[b].size
  <2>1. d = h \/ IsDivided(d, h, cur, n, cur + Info + n) BY <1>1, DivideIs
  <2> HIDE DEF d
  <2>2. CASE d = h BY <1>4, <2>2
  <2>3. CASE IsDivided(d, h, cur, n, cur + Info + n)
    <3>1. Arena(d, heads, fb) /\ d[fb] = h[fb] BY <1>1, <1>2, <2>3, DividedLists
    <3>2. d[cur + Info + n].free \in BOOLEAN
      <4>1. Typed(d) /\ cur + Info + n \in DOMAIN d BY <2>3 DEF IsDivided
      <4> QED BY <4>1, BlockFacts
    <3>3. \A b \in DOMAIN d : b \in DOMAIN h \/ d[b].free = TRUE BY <2>3, <3>2 DEF IsDivided
    <3>4. DOMAIN h \in SUBSET DOMAIN d /\ d[cur].size >= n BY <2>3 DEF IsDivided
    <3>5. \A b \in DOMAIN h : d[b].free = h[b].free /\ (b # cur => d[b].size = h[b].size) BY <2>3 DEF IsDivided
    <3> QED BY <1>4, <3>1, <3>3, <3>4, <3>5
  <2> QED BY <2>1, <2>2, <2>3
<1> HIDE DEF d
<1>6. Typed(d) /\ Heap(d) BY <1>5 DEF Arena, Heap
<1>7. cur \in DOMAIN d BY <1>5
<1>8. /\ Typed(m) /\ SameLinks(m, d) /\ m[cur].free = FALSE
      /\ \A b \in DOMAIN d : b # cur => m[b] = d[b]
  BY <1>6, <1>7, MarkedIs
<1> HIDE DEF m
<1>9. Arena(m, heads, fb) BY <1>5, <1>8, SameShape
<1>10. DOMAIN m = DOMAIN d /\ m[cur].size = d[cur].size BY <1>7, <1>8 DEF SameLinks
<1>11. g = m
  <2>1. Heap(m) BY <1>9 DEF Arena
  <2> QED BY <1>5, <1>7, <1>10, <2>1, ClearedIs
<1>12. IsTaken(m, h, cur, n) BY <1>5, <1>8, <1>10 DEF IsTaken
<1>13. m[fb].free = h[fb].free BY <1>3, <1>5, <1>8
<1> QED BY <1>9, <1>11, <1>12, <1>13 DEF g, m, d

LEMMA TakenHeld ==
  ASSUME NEW g, NEW h, Heap(g), Typed(h), NEW cur \in DOMAIN h, NEW n \in Sizes, IsTaken(g, h, cur, n),
         h[cur].free, NEW held, Held(h, held)
  PROVE  Held(g, held \cup {<<cur + Info, n>>})
<1> DEFINE a == <<cur + Info, n>>
           now == held \cup {a}
<1>1. /\ DOMAIN h \in SUBSET DOMAIN g /\ ~g[cur].free /\ g[cur].size >= n
      /\ \A b \in DOMAIN g : b # cur => g[b].free = (b \in DOMAIN h => h[b].free)
      /\ \A b \in DOMAIN h : b # cur => g[b].size = h[b].size
  BY DEF IsTaken
<1>2. /\ held \in SUBSET (Addrs \X Sizes)
      /\ \A b \in DOMAIN h : ~h[b].free <=> \E e \in held : b = e[1] - Info
      /\ \A e \in held : e[1] - Info \in DOMAIN h /\ h[e[1] - Info].size >= e[2]
      /\ \A e, f \in held : e[1] = f[1] => e = f
  BY DEF Held
<1>3. cur \in Nat /\ n \in Nat \ {0} BY BlockFacts, AddrFacts
<1>4. a \in Addrs \X Sizes
  <2>1. Typed(g) /\ Tiled(g) /\ cur \in DOMAIN g BY <1>1 DEF Heap
  <2>2. cur + Info + g[cur].size <= HeapSz /\ g[cur].size \in Nat BY <2>1, BlockFacts DEF Tiled, Behind
  <2>3. cur + Info \in Nat /\ cur + Info < HeapSz BY <1>1, <1>3, <2>2, AddrFacts
  <2> QED BY <2>3, AddrFacts
<1>5. a[1] - Info = cur /\ a[2] = n BY <1>3, AddrFacts
<1>6. \A e \in held : e[1] - Info # cur
  <2> SUFFICES ASSUME NEW e \in held, e[1] - Info = cur PROVE FALSE OBVIOUS
  <2>1. ~h[cur].free BY <1>2
  <2> QED BY <2>1
<1>7. a[1] = cur + Info OBVIOUS
<1> HIDE DEF a
<1>8. now \in SUBSET (Addrs \X Sizes) BY <1>2, <1>4
<1>9. \A b \in DOMAIN g : ~g[b].free <=> \E e \in now : b = e[1] - Info
  <2> TAKE b \in DOMAIN g
  <2>1. CASE b = cur BY <1>1, <1>5, <2>1
  <2>2. CASE b # cur /\ b \in DOMAIN h
    <3>1. g[b].free = h[b].free
      <4>1. h[b].free \in BOOLEAN BY BlockFacts, <2>2
      <4> QED BY <1>1, <2>2, <4>1
    <3>2. ~h[b].free <=> \E e \in held : b = e[1] - Info BY <1>2, <2>2
    <3>3. (\E e \in held : b = e[1] - Info) <=> (\E e \in now : b = e[1] - Info) BY <1>5, <2>2
    <3> QED BY <3>1, <3>2, <3>3
  <2>3. CASE b # cur /\ b \notin DOMAIN h
    <3>1. g[b].free = TRUE BY <1>1, <2>3
    <3>2. ~ \E e \in now : b = e[1] - Info BY <1>2, <1>5, <2>3
    <3> QED BY <3>1, <3>2
  <2> QED BY <2>1, <2>2, <2>3
<1>10. \A e \in now : e[1] - Info \in DOMAIN g /\ g[e[1] - Info].size >= e[2]
  <2> TAKE e \in now
  <2>1. CASE e = a BY <1>1, <1>5, <2>1
  <2>2. CASE e \in held BY <1>1, <1>2, <1>6, <2>2
  <2> QED BY <2>1, <2>2
<1>11. \A e, f \in now : e[1] = f[1] => e = f BY <1>2, <1>5, <1>6
<1> QED BY <1>8, <1>9, <1>10, <1>11 DEF Held, a

\* Free blocks may come and go.
LEMMA HeldSame ==
  ASSUME NEW g, NEW h, Typed(g), Typed(h), NEW held, Held(h, held),
         \A b \in DOMAIN h : ~h[b].free => b \in DOMAIN g /\ ~g[b].free /\ g[b].size = h[b].size,
         \A b \in DOMAIN g : ~g[b].free => b \in DOMAIN h /\ ~h[b].free
  PROVE  Held(g, held)
<1>1. /\ held \in SUBSET (Addrs \X Sizes)
      /\ \A b \in DOMAIN h : ~h[b].free <=> \E e \in held : b = e[1] - Info
      /\ \A e \in held : e[1] - Info \in DOMAIN h /\ h[e[1] - Info].size >= e[2]
      /\ \A e, f \in held : e[1] = f[1] => e = f
  BY DEF Held
<1>2. ASSUME NEW e \in held
      PROVE  /\ e[1] - Info \in DOMAIN g /\ ~g[e[1] - Info].free /\ g[e[1] - Info].size >= e[2]
  <2>1. e[1] - Info \in DOMAIN h /\ h[e[1] - Info].size >= e[2] BY <1>1
  <2>2. ~h[e[1] - Info].free BY <1>1, <2>1
  <2> QED BY <2>1, <2>2
<1>3. ASSUME NEW b \in DOMAIN g, ~g[b].free PROVE \E e \in held : b = e[1] - Info BY <1>1, <1>3
<1> QED BY <1>1, <1>2, <1>3 DEF Held

\* A list that is not empty has one last block.
LEMMA LastExists ==
  ASSUME NEW h, Typed(h), Linked(h), NEW s, NEW head, IsList(h, head, s), s # {}
  PROVE  \E p \in s : h[p].next = Nil
<1>1. s \in SUBSET DOMAIN h /\ \A b \in s : h[b].next # Nil => h[b].next \in s BY DEF IsList
<1>2. \A b \in DOMAIN h : b \in Nat /\ b < HeapSz BY BlockFacts, AddrFacts
<1>3. s \in SUBSET Nat /\ \A b \in s : b <= HeapSz BY <1>1, <1>2, AddrFacts
<1>4. PICK p \in s : \A b \in s : b <= p BY <1>3, AddrFacts, LargestExists
<1>5. h[p].next # Nil => FALSE
  <2> SUFFICES ASSUME h[p].next # Nil PROVE FALSE OBVIOUS
  <2>1. h[p].next \in s /\ h[p].next > p BY <1>1, <1>4 DEF Linked
  <2> QED BY <1>1, <1>2, <1>4, <2>1
<1> QED BY <1>4, <1>5

-----------------------------------------------------------------------------
(* kalloc                                                                   *)

LEMMA KallocKeeps ==
  ASSUME PmmInv, NEW c \in CPUs, NEW n \in Sizes, kalloc(c, n)
  PROVE  PmmInv'
<1> DEFINE h == Relinked(blocks, Passed(blocks, small_head[c], n))
           cur == Found(blocks, small_head[c], n)
           passed == Passed(blocks, small_head[c], n)
           last == IF passed = {} THEN Nil ELSE CHOOSE p \in passed : h[p].next = Nil
           fb == free_block
           sz == Grown(n)
<1>1. /\ Arena(blocks, small_head, fb) /\ Held(blocks, live) /\ blocks[fb].free
      /\ mode \in {"run", "out of memory"}
  BY DEF PmmInv
<1>2. Heap(blocks) /\ Typed(blocks) /\ Linked(blocks) BY <1>1 DEF Arena, Heap
<1>3. PICK L \in [CPUs -> SUBSET DOMAIN blocks] : Lists(blocks, small_head, fb, L) BY <1>1 DEF Arena
<1>4. /\ fb \in DOMAIN blocks /\ IsList(blocks, small_head[c], L[c]) /\ fb \notin L[c]
      /\ L[c] \in SUBSET DOMAIN blocks /\ small_head \in [CPUs -> Addrs \cup {Nil}]
  BY <1>3 DEF Lists
<1>5. /\ cur \in L[c] \cup {Nil} /\ passed \in SUBSET L[c]
      /\ cur # Nil => Fits(blocks, cur, n)
      /\ cur = Nil => passed = L[c]
  BY <1>2, <1>4, SearchIs
<1>6. h = blocks
  <2>1. passed \in SUBSET DOMAIN blocks BY <1>4, <1>5
  <2> QED BY <1>2, <2>1, RelinkedIs
<1>7. /\ \/ /\ cur # Nil
            /\ Taken(h, cur, n)
            /\ UNCHANGED <<small_head, free_block, mode>>
         \/ cur = Nil /\ ~Room(n) /\ Stops("out of memory")
         \/ /\ cur = Nil /\ Room(n)
            /\ Taken(NewSmallBlock(h, last, n), free_block, n)
            /\ small_head' = [small_head EXCEPT ![c] = IF last = Nil THEN free_block ELSE @]
            /\ free_block' = free_block + Info + (IF n < Unit THEN Unit ELSE n)
            /\ UNCHANGED mode
  BY DEF kalloc
<1>8. n \in Nat \ {0} /\ Nil \notin DOMAIN blocks
  <2>1. \A b \in DOMAIN blocks : b # Nil BY <1>2, BlockFacts
  <2> QED BY <2>1, AddrFacts
<1>9. last = IF passed = {} THEN Nil ELSE CHOOSE p \in passed : blocks[p].next = Nil BY <1>6
<1> HIDE DEF h, cur, passed, last
<1>10. CASE cur # Nil /\ Taken(h, cur, n) /\ UNCHANGED <<small_head, free_block, mode>>
  <2>1. cur \in DOMAIN blocks /\ cur # fb /\ blocks[cur].free /\ blocks[cur].size >= n
    BY <1>4, <1>5, <1>10 DEF Fits
  <2>2. blocks' = Cleared([Divide(blocks, cur, n) EXCEPT ![cur].free = FALSE], cur + Info, n)
        /\ live' = live \cup {<<cur + Info, n>>}
    BY <1>6, <1>10 DEF Taken
  <2>3. Arena(blocks', small_head, fb) /\ IsTaken(blocks', blocks, cur, n) /\ (blocks')[fb].free = blocks[fb].free
    <3> HIDE DEF fb
    <3>1. LET g == Cleared([Divide(blocks, cur, n) EXCEPT ![cur].free = FALSE], cur + Info, n) IN
          Arena(g, small_head, fb) /\ IsTaken(g, blocks, cur, n) /\ g[fb].free = blocks[fb].free
      BY <1>1, <1>8, <2>1, TakenIs
    <3> QED BY <2>2, <3>1
  <2>4. Held(blocks', live')
    <3>1. Heap(blocks') BY <2>3 DEF Arena
    <3> QED BY <1>1, <1>2, <2>1, <2>2, <2>3, <3>1, TakenHeld
  <2>5. Arena(blocks', small_head', free_block') /\ (blocks')[free_block'].free BY <1>1, <1>10, <2>3
  <2> QED BY <1>1, <1>10, <2>4, <2>5 DEF PmmInv
<1>11. CASE cur = Nil /\ ~Room(n) /\ Stops("out of memory")
  <2>1. mode' = "out of memory" /\ UNCHANGED <<blocks, small_head, free_block, live>> BY <1>11 DEF Stops
  <2> QED BY <1>1, <2>1 DEF PmmInv
<1>12. CASE /\ cur = Nil /\ Room(n)
            /\ Taken(NewSmallBlock(h, last, n), free_block, n)
            /\ small_head' = [small_head EXCEPT ![c] = IF last = Nil THEN free_block ELSE @]
            /\ free_block' = free_block + Info + (IF n < Unit THEN Unit ELSE n)
            /\ UNCHANGED mode
  <2> DEFINE g == NewSmallBlock(blocks, last, n)
             r == fb + Info + sz
             H == [small_head EXCEPT ![c] = IF last = Nil THEN fb ELSE @]
  <2>1. blocks[fb].size >= Info + sz BY <1>12 DEF Room, Grown
  <2>2. IF L[c] = {} THEN last = Nil ELSE last \in L[c] /\ blocks[last].next = Nil
    <3>1. passed = L[c] BY <1>5, <1>12
    <3>2. CASE L[c] = {} BY <1>9, <3>1, <3>2
    <3>3. CASE L[c] # {}
      <4>1. \E p \in L[c] : blocks[p].next = Nil BY <1>2, <1>4, <3>3, LastExists
      <4> QED BY <1>9, <3>1, <3>3, <4>1
    <3> QED BY <3>2, <3>3
  <2>3. last \in DOMAIN blocks \cup {Nil} /\ last # fb BY <1>4, <1>8, <2>2
  <2>4. IsAppended(g, blocks, fb, last, sz, r) BY <1>2, <1>4, <1>8, <2>1, <2>3, AppendIs
  <2>5. sz \in Nat \ {0} /\ sz >= n BY <1>8, AddrFacts DEF Grown
  <2>6. blocks' = Cleared([Divide(g, fb, n) EXCEPT ![fb].free = FALSE], fb + Info, n)
        /\ live' = live \cup {<<fb + Info, n>>}
    BY <1>6, <1>12 DEF Taken
  <2>7. small_head' = H /\ free_block' = r BY <1>12 DEF Grown
  <2> HIDE DEF g, r, sz, fb, H
  <2>8. Arena(g, H, r) BY <1>2, <1>3, <2>2, <2>4, <2>5, AppendedLists DEF H
  <2>9. /\ r = fb + Info + sz /\ r \notin DOMAIN blocks /\ DOMAIN g = DOMAIN blocks \cup {r} /\ Typed(g) /\ g[r].free
        /\ g[fb].size = sz
        /\ \A b \in DOMAIN blocks : g[b].free = blocks[b].free /\ (b # fb => g[b].size = blocks[b].size)
    BY <2>4 DEF IsAppended
  <2>10. fb \in DOMAIN g /\ fb # r /\ g[fb].size >= n /\ g[fb].free BY <1>1, <1>4, <2>5, <2>9
  <2>11. Arena(blocks', H, r) /\ IsTaken(blocks', g, fb, n) /\ (blocks')[r].free = g[r].free
    BY <1>8, <2>6, <2>8, <2>10, TakenIs
  <2>12. Held(g, live)
    <3>1. \A b \in DOMAIN blocks : ~blocks[b].free => b \in DOMAIN g /\ ~g[b].free /\ g[b].size = blocks[b].size
      BY <1>1, <2>9
    <3>2. \A b \in DOMAIN g : ~g[b].free => b \in DOMAIN blocks /\ ~blocks[b].free BY <2>9
    <3> QED BY <1>1, <1>2, <2>9, <3>1, <3>2, HeldSame
  <2>13. Held(blocks', live')
    <3>1. Heap(blocks') BY <2>11 DEF Arena
    <3> QED BY <2>6, <2>9, <2>10, <2>11, <2>12, <3>1, TakenHeld
  <2>14. Arena(blocks', small_head', free_block') /\ (blocks')[free_block'].free BY <2>7, <2>9, <2>11
  <2> QED BY <1>1, <1>12, <2>13, <2>14 DEF PmmInv
<1> QED BY <1>7, <1>10, <1>11, <1>12

-----------------------------------------------------------------------------
(* Merging two blocks.                                                      *)

\* g is h with b2 in b1.
IsMerged(g, h, b1, b2) ==
  /\ b1 \in DOMAIN h /\ b2 \in DOMAIN h /\ h[b1].next = b2 /\ h[b2].prev = b1
  /\ Behind(h, b1) = b2 /\ h[b1].free /\ h[b2].free
  /\ DOMAIN g = DOMAIN h \ {b2} /\ Typed(g)
  /\ g[b1].size = h[b1].size + h[b2].size + Info /\ g[b1].next = h[b2].next /\ g[b1].prev = h[b1].prev
  /\ \A b \in DOMAIN g : /\ g[b].free = h[b].free
                         /\ b # b1 => g[b].size = h[b].size /\ g[b].next = h[b].next
                         /\ b # h[b2].next => g[b].prev = h[b].prev
                         /\ b = h[b2].next => g[b].prev = b1

\* The links that merge_small writes are there already.
LEMMA LinksAre ==
  ASSUME NEW h, Typed(h), NEW b1 \in DOMAIN h, NEW b2 \in DOMAIN h, b1 # b2, h[b1].next = b2, h[b2].prev = b1
  PROVE  [h EXCEPT ![b1].next = b2, ![b2].prev = b1] = h
<1>1. h = [b \in DOMAIN h |-> h[b]] /\ h[b1] \in Block /\ h[b2] \in Block BY BlockFacts
<1>2. [h[b1] EXCEPT !.next = b2] = h[b1] BY <1>1 DEF Block
<1>3. [h[b2] EXCEPT !.prev = b1] = h[b2] BY <1>1 DEF Block
<1>4. [h EXCEPT ![b1].next = b2] = h BY <1>1, <1>2
<1>5. [h EXCEPT ![b2].prev = b1] = h BY <1>1, <1>3
<1> QED BY <1>4, <1>5

LEMMA MergeIs ==
  ASSUME NEW h, Heap(h), NEW b1, NEW b2,
         b1 # Nil /\ b2 # Nil => b1 \in DOMAIN h /\ b2 \in DOMAIN h /\ h[b1].next = b2 /\ h[b2].prev = b1
  PROVE  Merge(h, b1, b2) = h \/ IsMerged(Merge(h, b1, b2), h, b1, b2)
<1> DEFINE g == Merge(h, b1, b2)
           nx == h[b2].next
<1> SUFFICES ASSUME Adjacent(h, b1, b2) PROVE g = h \/ IsMerged(g, h, b1, b2) BY DEF Merge
<1>1. Typed(h) /\ Linked(h) /\ Tiled(h) BY DEF Heap
<1>2. /\ b1 \in DOMAIN h /\ b2 \in DOMAIN h /\ h[b1].next = b2 /\ h[b2].prev = b1
      /\ b1 + h[b1].size + Info = b2 /\ b1 # Nil /\ b2 # Nil
  BY DEF Adjacent
<1>3. /\ b1 \in Nat /\ b2 \in Nat /\ h[b1].size \in Nat /\ h[b2].size \in Nat
      /\ h[b1] \in Block /\ nx \in Addrs \cup {Nil} /\ b1 \in Addrs
      /\ \A b \in DOMAIN h : h[b] \in Block
  BY <1>1, <1>2, BlockFacts
<1>4. b2 > b1 /\ b1 # b2 BY <1>2, <1>3, AddrFacts
<1>5. nx # Nil => nx > b2 /\ nx \in DOMAIN h /\ nx # b1 /\ nx # b2
  <2> SUFFICES ASSUME nx # Nil PROVE nx > b2 /\ nx \in DOMAIN h /\ nx # b1 /\ nx # b2 OBVIOUS
  <2>1. nx > b2 /\ nx \in DOMAIN h BY <1>1, <1>2 DEF Linked
  <2> QED BY <1>3, <1>4, <2>1
<1>6. [h EXCEPT ![b1].next = b2, ![b2].prev = b1] = h BY <1>1, <1>2, <1>4, LinksAre
<1> DEFINE K == [h EXCEPT ![b1].next = b2, ![b2].prev = b1]
           Joined == [b \in DOMAIN h \ {b2} |->
                        IF b = b1 THEN [h[b] EXCEPT !.size = @ + h[b2].size + Info, !.next = nx]
                        ELSE IF b = nx THEN [h[b] EXCEPT !.prev = b1] ELSE h[b]]
<1>joined. g = h \/ (h[b1].free /\ h[b2].free /\ g = Joined)
  <2>1. g = IF ~h[b1].free \/ ~h[b2].free \/ h[b1].size + h[b2].size + Info > Unit THEN K
            ELSE [b \in DOMAIN h \ {b2} |->
                    IF b = b1 THEN [K[b] EXCEPT !.size = @ + h[b2].size + Info, !.next = nx]
                    ELSE IF b = nx THEN [K[b] EXCEPT !.prev = b1] ELSE K[b]]
    BY DEF Merge
  <2> HIDE DEF K, g
  <2>2. K = h BY <1>6 DEF K
  <2> DEFINE J(b) == IF b = b1 THEN [K[b] EXCEPT !.size = @ + h[b2].size + Info, !.next = nx]
                     ELSE IF b = nx THEN [K[b] EXCEPT !.prev = b1] ELSE K[b]
  <2>3. \A b \in DOMAIN h \ {b2} : J(b) = Joined[b] BY <2>2
  <2>4. [b \in DOMAIN h \ {b2} |-> J(b)] = Joined
    <3> HIDE DEF J
    <3>1. Joined = [b \in DOMAIN h \ {b2} |-> Joined[b]] OBVIOUS
    <3> HIDE DEF Joined
    <3> QED BY <2>3, <3>1
  <2>5. g = IF ~h[b1].free \/ ~h[b2].free \/ h[b1].size + h[b2].size + Info > Unit THEN K
            ELSE [b \in DOMAIN h \ {b2} |-> J(b)]
    BY <2>1, Zenon
  <2>6. h[b1].free \in BOOLEAN /\ h[b2].free \in BOOLEAN BY <1>1, <1>2, BlockFacts
  <2>7. CASE ~h[b1].free \/ ~h[b2].free \/ h[b1].size + h[b2].size + Info > Unit
    <3>1. g = K BY <2>5, <2>7, Zenon
    <3> QED BY <2>2, <3>1, Zenon
  <2>8. CASE ~(~h[b1].free \/ ~h[b2].free \/ h[b1].size + h[b2].size + Info > Unit)
    <3>1. g = Joined BY <2>4, <2>5, <2>8, Zenon
    <3>2. h[b1].free /\ h[b2].free BY <2>6, <2>8
    <3> QED BY <3>1, <3>2, Zenon
  <2> QED BY <2>7, <2>8, Zenon
<1> HIDE DEF g
<1>both. SUFFICES ASSUME h[b1].free, h[b2].free, g = Joined PROVE IsMerged(g, h, b1, b2) BY <1>joined
<1> DEFINE R == [h[b1] EXCEPT !.size = @ + h[b2].size + Info, !.next = nx]
           E == [h[nx] EXCEPT !.prev = b1]
<1>7. /\ R \in Block /\ R.size = h[b1].size + h[b2].size + Info /\ R.next = nx /\ R.prev = h[b1].prev
      /\ R.free = h[b1].free
  <2>1. b2 + Info + h[b2].size <= HeapSz BY <1>1, <1>2 DEF Tiled, Behind
  <2>2. h[b1].size + h[b2].size + Info \in 0..HeapSz
    <3>1. \A p, q, x, y, i, m \in Nat : p + x + i = q /\ q + i + y <= m => x + y + i \in 0..m OBVIOUS
    <3> QED BY <1>2, <1>3, <2>1, <3>1, AddrFacts
  <2>3. h[b1] \in [size : 0..HeapSz, next : Addrs \cup {Nil}, prev : Addrs \cup {Nil}, free : BOOLEAN]
    BY <1>3 DEF Block
  <2> QED BY <1>3, <2>2, <2>3 DEF Block
<1>8. nx # Nil => /\ E \in Block /\ E.size = h[nx].size /\ E.next = h[nx].next /\ E.prev = b1
                  /\ E.free = h[nx].free
  BY <1>3, <1>5 DEF Block
<1>9. DOMAIN g = DOMAIN h \ {b2} BY <1>both
<1>10. g[b1] = R BY <1>2, <1>4, <1>both
<1>11. nx # Nil => g[nx] = E BY <1>5, <1>both
<1>12. \A b \in DOMAIN g : b # b1 /\ b # nx => g[b] = h[b] BY <1>both
<1>13. g = [b \in DOMAIN g |-> g[b]] BY <1>both
<1> HIDE DEF R, E, K, Joined
<1>14. \A b \in DOMAIN g : b # Nil /\ b \in DOMAIN h BY <1>1, <1>9, BlockFacts
<1>15. \A b \in DOMAIN g : g[b] \in Block
  <2> TAKE b \in DOMAIN g
  <2>1. CASE b = b1 BY <1>7, <1>10, <2>1
  <2>2. CASE b # b1 /\ b = nx BY <1>8, <1>11, <1>14, <2>2
  <2>3. CASE b # b1 /\ b # nx BY <1>3, <1>12, <1>14, <2>3
  <2> QED BY <2>1, <2>2, <2>3
<1>16. Typed(g)
  <2>1. DOMAIN g \in SUBSET Addrs BY <1>1, <1>9 DEF Typed
  <2> QED BY <1>13, <1>15, <2>1 DEF Typed
<1>17. \A b \in DOMAIN g : /\ g[b].free = h[b].free
                           /\ b # b1 => g[b].size = h[b].size /\ g[b].next = h[b].next
                           /\ b # nx => g[b].prev = h[b].prev
                           /\ b = nx => g[b].prev = b1
  <2> TAKE b \in DOMAIN g
  <2>1. CASE b = b1 BY <1>5, <1>7, <1>10, <1>14, <2>1
  <2>2. CASE b # b1 /\ b = nx BY <1>8, <1>11, <1>14, <2>2
  <2>3. CASE b # b1 /\ b # nx BY <1>12, <2>3
  <2> QED BY <2>1, <2>2, <2>3
<1>18. Behind(h, b1) = b2 BY <1>2, <1>3, AddrFacts DEF Behind
<1> QED BY <1>2, <1>7, <1>9, <1>10, <1>16, <1>17, <1>18, <1>both DEF IsMerged

LEMMA MergedLists ==
  ASSUME NEW g, NEW h, Heap(h), NEW heads, NEW fb, NEW L \in [CPUs -> SUBSET DOMAIN h], Lists(h, heads, fb, L),
         NEW b1, NEW b2, IsMerged(g, h, b1, b2)
  PROVE  Arena(g, heads, fb) /\ fb \in DOMAIN g
<1> DEFINE M == [c \in CPUs |-> L[c] \ {b2}]
           nx == h[b2].next
<1>1. Typed(h) /\ Linked(h) /\ Tiled(h) BY DEF Heap
<1>2. /\ b1 \in DOMAIN h /\ b2 \in DOMAIN h /\ h[b1].next = b2 /\ h[b2].prev = b1
      /\ Behind(h, b1) = b2
      /\ DOMAIN g = DOMAIN h \ {b2} /\ Typed(g)
      /\ g[b1].size = h[b1].size + h[b2].size + Info /\ g[b1].next = nx /\ g[b1].prev = h[b1].prev
      /\ \A b \in DOMAIN g : /\ b # b1 => g[b].size = h[b].size /\ g[b].next = h[b].next
                             /\ b # nx => g[b].prev = h[b].prev
                             /\ b = nx => g[b].prev = b1
      /\ \A b \in DOMAIN g : g[b].free = h[b].free
  BY DEF IsMerged
<1>3. /\ fb \in DOMAIN h /\ (\A b \in DOMAIN h : b <= fb) /\ h[fb].next = Nil /\ h[fb].prev = Nil
      /\ heads \in [CPUs -> Addrs \cup {Nil}]
      /\ \A c \in CPUs : IsList(h, heads[c], L[c])
      /\ \A c, e \in CPUs : c # e => L[c] \cap L[e] = {}
      /\ \A b \in DOMAIN h : b # fb <=> \E c \in CPUs : b \in L[c]
  BY DEF Lists
<1>4. \A b \in DOMAIN h : b \in Nat /\ b # Nil /\ h[b].size \in Nat /\ Behind(h, b) \in Nat
  BY <1>1, BlockFacts, AddrFacts DEF Behind
<1>5. b1 < b2 /\ b1 # b2
  <2>1. b1 + Info + h[b1].size = b2 BY <1>2 DEF Behind
  <2> QED BY <1>2, <1>4, <2>1, AddrFacts
<1>6. fb # b1 /\ fb # b2 /\ fb \in DOMAIN g BY <1>2, <1>3, <1>4
<1>7. nx # Nil => nx > b2 /\ nx \in DOMAIN h /\ h[nx].prev = b2 /\ nx # b1 /\ nx # b2
  <2> SUFFICES ASSUME nx # Nil PROVE nx > b2 /\ nx \in DOMAIN h /\ h[nx].prev = b2 /\ nx # b1 /\ nx # b2 OBVIOUS
  <2>1. nx > b2 /\ nx \in DOMAIN h /\ h[nx].prev = b2 BY <1>1, <1>2 DEF Linked
  <2> QED BY <1>2, <1>4, <1>5, <2>1
<1>8. Tiled(g)
  <2>1. Behind(g, b1) = Behind(h, b2)
    <3>1. b1 + Info + h[b1].size = b2 BY <1>2 DEF Behind
    <3>2. b1 + Info + (h[b1].size + h[b2].size + Info) = b2 + Info + h[b2].size BY <1>2, <1>4, <3>1, AddrFacts
    <3> QED BY <1>2, <3>2 DEF Behind
  <2>2. \A b \in DOMAIN g : b # b1 => Behind(g, b) = Behind(h, b) BY <1>2 DEF Behind
  <2>3. ASSUME NEW b \in DOMAIN g, NEW d \in DOMAIN g, b < d PROVE Behind(g, b) <= d
    <3>1. b \in DOMAIN h /\ d \in DOMAIN h /\ d # b2 BY <1>2
    <3>2. Behind(h, b) <= d BY <1>1, <2>3, <3>1 DEF Tiled
    <3>3. CASE b # b1 BY <2>2, <3>2, <3>3
    <3>4. CASE b = b1
      <4>1. b2 < d BY <1>2, <1>4, <3>1, <3>2, <3>4
      <4>2. Behind(h, b2) <= d BY <1>1, <1>2, <3>1, <4>1 DEF Tiled
      <4> QED BY <2>1, <3>4, <4>2
    <3> QED BY <3>3, <3>4
  <2>4. ASSUME NEW b \in DOMAIN g PROVE Behind(g, b) <= HeapSz
    <3>1. b \in DOMAIN h BY <1>2
    <3>2. Behind(h, b) <= HeapSz /\ Behind(h, b2) <= HeapSz BY <1>1, <1>2, <3>1 DEF Tiled
    <3> QED BY <2>1, <2>2, <3>2
  <2>5. ASSUME NEW u \in Addrs PROVE \E b \in DOMAIN g : b <= u /\ u < Behind(g, b)
    <3>1. PICK b \in DOMAIN h : b <= u /\ u < Behind(h, b) BY <1>1 DEF Tiled
    <3>2. b1 \in DOMAIN g BY <1>2, <1>5
    <3>3. CASE b # b1 /\ b # b2 BY <1>2, <2>2, <3>1, <3>3
    <3>4. CASE b = b1 \/ b = b2
      <4>1. u \in Nat BY AddrFacts
      <4>2. b2 <= Behind(h, b2)
        <5>1. Behind(h, b2) = b2 + Info + h[b2].size BY DEF Behind
        <5> QED BY <1>2, <1>4, <5>1, AddrFacts
      <4>3. b1 <= u /\ u < Behind(g, b1) BY <1>2, <1>4, <1>5, <2>1, <3>1, <3>4, <4>1, <4>2
      <4> QED BY <3>2, <4>3
    <3> QED BY <3>3, <3>4
  <2> QED BY <2>3, <2>4, <2>5 DEF Tiled
<1>9. \A b \in DOMAIN h : /\ h[b].next # Nil => h[b].next > b /\ h[b].next \in DOMAIN h /\ h[h[b].next].prev = b
                          /\ h[b].prev # Nil => h[b].prev \in DOMAIN h /\ h[h[b].prev].next = b
  BY <1>1 DEF Linked
<1>10. b1 \in DOMAIN g BY <1>2, <1>5
<1> HIDE DEF nx
<1>11. h[b2].next = nx BY DEF nx
<1>12. Linked(g)
  <2> SUFFICES ASSUME NEW b \in DOMAIN g
               PROVE  /\ g[b].next # Nil => g[b].next > b /\ g[b].next \in DOMAIN g /\ g[g[b].next].prev = b
                      /\ g[b].prev # Nil => g[b].prev \in DOMAIN g /\ g[g[b].prev].next = b
    BY DEF Linked
  <2>1. b \in DOMAIN h /\ b # b2 BY <1>2
  <2>2. g[b].next # Nil => g[b].next > b /\ g[b].next \in DOMAIN g /\ g[g[b].next].prev = b
    <3> SUFFICES ASSUME g[b].next # Nil PROVE g[b].next > b /\ g[b].next \in DOMAIN g /\ g[g[b].next].prev = b
      OBVIOUS
    <3>1. CASE b = b1
      <4>1. g[b].next = nx /\ nx # Nil BY <1>2, <3>1
      <4>2. nx \in DOMAIN g /\ nx > b BY <1>2, <1>4, <1>5, <1>7, <3>1, <4>1
      <4>3. g[nx].prev = b BY <1>2, <3>1, <4>2
      <4> QED BY <4>1, <4>2, <4>3
    <3>2. CASE b # b1
      <4>1. g[b].next = h[b].next BY <1>2, <3>2
      <4>2. h[b].next > b /\ h[b].next \in DOMAIN h /\ h[h[b].next].prev = b BY <1>9, <2>1, <4>1
      <4>3. h[b].next # b2 BY <1>2, <3>2, <4>2
      <4>4. h[b].next # nx BY <1>7, <2>1, <4>1, <4>2
      <4>5. h[b].next \in DOMAIN g BY <1>2, <4>2, <4>3
      <4>6. g[h[b].next].prev = h[h[b].next].prev BY <1>2, <4>4, <4>5
      <4> QED BY <4>1, <4>2, <4>5, <4>6
    <3> QED BY <3>1, <3>2
  <2>3. g[b].prev # Nil => g[b].prev \in DOMAIN g /\ g[g[b].prev].next = b
    <3> SUFFICES ASSUME g[b].prev # Nil PROVE g[b].prev \in DOMAIN g /\ g[g[b].prev].next = b
      OBVIOUS
    <3>1. CASE b = nx BY <1>2, <1>10, <3>1
    <3>2. CASE b # nx
      <4>1. g[b].prev = h[b].prev BY <1>2, <3>2
      <4>2. h[b].prev \in DOMAIN h /\ h[h[b].prev].next = b BY <1>9, <2>1, <4>1
      <4>3. h[b].prev # b1 BY <1>2, <2>1, <4>2
      <4>4. h[b].prev # b2 BY <1>11, <3>2, <4>2
      <4> QED BY <1>2, <4>1, <4>2, <4>3, <4>4
    <3> QED BY <3>1, <3>2
  <2> QED BY <2>2, <2>3
<1>13. ASSUME NEW c \in CPUs PROVE IsList(g, heads[c], M[c])
  <2> DEFINE s == L[c]
             t == M[c]
             head == heads[c]
  <2>1. /\ s \in SUBSET DOMAIN h
        /\ IF s = {} THEN head = Nil ELSE head \in s /\ h[head].prev = Nil
        /\ \A b \in s : h[b].next # Nil => h[b].next \in s
        /\ \A b \in s : b # head => h[b].prev \in s
    BY <1>3 DEF IsList
  <2>2. t = s \ {b2} OBVIOUS
  <2> HIDE DEF t, s, head
  <2>3. t \in SUBSET DOMAIN g BY <1>2, <2>1, <2>2
  <2>4. IF t = {} THEN head = Nil ELSE head \in t /\ g[head].prev = Nil
    <3>1. CASE s = {} BY <2>1, <2>2, <3>1
    <3>2. CASE s # {}
      <4>1. head \in s /\ h[head].prev = Nil BY <2>1, <3>2
      <4>2. head # b2 BY <1>2, <1>4, <4>1
      <4>3. head # nx BY <1>2, <1>4, <1>7, <2>1, <4>1
      <4>4. head \in t /\ head \in DOMAIN g BY <2>2, <2>3, <4>1, <4>2
      <4> QED BY <1>2, <4>1, <4>3, <4>4
    <3> QED BY <3>1, <3>2
  <2>5. ASSUME NEW b \in t, g[b].next # Nil PROVE g[b].next \in t
    <3>1. b \in s /\ b \in DOMAIN g /\ b \in DOMAIN h BY <1>2, <2>2, <2>3
    <3>2. CASE b = b1
      <4>1. g[b].next = nx /\ nx # Nil /\ nx # b2 BY <1>2, <1>7, <2>5, <3>2
      <4>2. b2 \in s BY <1>2, <1>4, <2>1, <3>1, <3>2
      <4>3. nx \in s BY <1>11, <2>1, <4>1, <4>2
      <4> QED BY <2>2, <4>1, <4>3
    <3>3. CASE b # b1
      <4>1. g[b].next = h[b].next BY <1>2, <3>1, <3>3
      <4>2. h[b].next \in s /\ h[h[b].next].prev = b BY <1>9, <2>1, <2>5, <3>1, <4>1
      <4>3. h[b].next # b2 BY <1>2, <3>3, <4>2
      <4> QED BY <2>2, <4>1, <4>2, <4>3
    <3> QED BY <3>2, <3>3
  <2>6. ASSUME NEW b \in t, b # head PROVE g[b].prev \in t
    <3>1. b \in s /\ b \in DOMAIN g /\ b \in DOMAIN h BY <1>2, <2>2, <2>3
    <3>2. h[b].prev \in s BY <2>1, <2>6, <3>1
    <3>3. CASE b = nx
      <4>1. h[b].prev = b2 /\ b2 # head
        <5>1. h[b].prev = b2 BY <1>4, <1>7, <3>1, <3>3
        <5>2. b2 # head BY <1>2, <1>4, <2>1, <3>1
        <5> QED BY <5>1, <5>2
      <4>2. b1 \in s BY <1>2, <2>1, <3>2, <4>1
      <4> QED BY <1>2, <1>5, <2>2, <3>1, <3>3, <4>2
    <3>4. CASE b # nx
      <4>1. g[b].prev = h[b].prev BY <1>2, <3>1, <3>4
      <4>2. h[b].prev # Nil BY <1>4, <2>1, <3>2
      <4>3. h[h[b].prev].next = b BY <1>9, <3>1, <4>2
      <4>4. h[b].prev # b2 BY <1>11, <3>4, <4>3
      <4> QED BY <2>2, <3>2, <4>1, <4>4
    <3> QED BY <3>3, <3>4
  <2> QED BY <2>3, <2>4, <2>5, <2>6 DEF IsList, t, s, head
<1>14. M \in [CPUs -> SUBSET DOMAIN g] BY <1>2
<1>15. \A c \in CPUs : M[c] = L[c] \ {b2} OBVIOUS
<1> HIDE DEF M
<1>16. \A c, e \in CPUs : c # e => M[c] \cap M[e] = {} BY <1>3, <1>15
<1>17. \A b \in DOMAIN g : b # fb <=> \E c \in CPUs : b \in M[c] BY <1>2, <1>3, <1>15
<1>18. \A b \in DOMAIN g : b <= fb BY <1>2, <1>3
<1>19. g[fb].next = Nil /\ g[fb].prev = Nil
  <2>1. g[fb].next = Nil BY <1>2, <1>3, <1>6
  <2>2. fb # nx BY <1>2, <1>3, <1>4, <1>7
  <2> QED BY <1>2, <1>3, <1>6, <2>1, <2>2
<1>20. Lists(g, heads, fb, M) BY <1>3, <1>6, <1>13, <1>16, <1>17, <1>18, <1>19 DEF Lists
<1>21. Heap(g) BY <1>2, <1>8, <1>12 DEF Heap
<1> QED BY <1>2, <1>6, <1>14, <1>20, <1>21 DEF Arena

-----------------------------------------------------------------------------
(* kfree                                                                    *)

LEMMA MergeKeeps ==
  ASSUME NEW h, NEW heads, NEW fb, Arena(h, heads, fb), NEW held, Held(h, held), h[fb].free, NEW b1, NEW b2,
         b1 # Nil /\ b2 # Nil => b1 \in DOMAIN h /\ b2 \in DOMAIN h /\ h[b1].next = b2 /\ h[b2].prev = b1
  PROVE  LET g == Merge(h, b1, b2) IN
         /\ Arena(g, heads, fb) /\ Held(g, held) /\ g[fb].free
         /\ \A b \in DOMAIN h : b # b2 => b \in DOMAIN g
<1> DEFINE g == Merge(h, b1, b2)
<1>1. Heap(h) /\ Typed(h) BY DEF Arena, Heap
<1>2. PICK L \in [CPUs -> SUBSET DOMAIN h] : Lists(h, heads, fb, L) BY DEF Arena
<1>3. g = h \/ IsMerged(g, h, b1, b2) BY <1>1, MergeIs
<1> HIDE DEF g
<1>4. CASE g = h BY <1>4 DEF g
<1>5. CASE IsMerged(g, h, b1, b2)
  <2>1. Arena(g, heads, fb) /\ fb \in DOMAIN g BY <1>1, <1>2, <1>5, MergedLists
  <2>2. /\ DOMAIN g = DOMAIN h \ {b2} /\ Typed(g) /\ h[b1].free /\ h[b2].free
        /\ \A b \in DOMAIN g : g[b].free = h[b].free /\ (b # b1 => g[b].size = h[b].size)
    BY <1>5 DEF IsMerged
  <2>3. \A b \in DOMAIN h : ~h[b].free => b \in DOMAIN g /\ ~g[b].free /\ g[b].size = h[b].size BY <2>2
  <2>4. \A b \in DOMAIN g : ~g[b].free => b \in DOMAIN h /\ ~h[b].free BY <2>2
  <2>5. Held(g, held) BY <1>1, <2>2, <2>3, <2>4, HeldSame
  <2>6. g[fb].free BY <2>1, <2>2
  <2> QED BY <2>1, <2>2, <2>5, <2>6 DEF g
<1> QED BY <1>3, <1>4, <1>5

\* A block that is given back is free, and nobody else holds it.
LEMMA FreedHeld ==
  ASSUME NEW h, Typed(h), NEW held, Held(h, held), NEW a \in held
  PROVE  Held([h EXCEPT ![a[1] - Info].free = TRUE], held \ {a})
<1> DEFINE b == a[1] - Info
           g == [h EXCEPT ![b].free = TRUE]
<1>1. /\ held \in SUBSET (Addrs \X Sizes)
      /\ \A d \in DOMAIN h : ~h[d].free <=> \E e \in held : d = e[1] - Info
      /\ \A e \in held : e[1] - Info \in DOMAIN h /\ h[e[1] - Info].size >= e[2]
      /\ \A e, f \in held : e[1] = f[1] => e = f
  BY DEF Held
<1>2. b \in DOMAIN h BY <1>1
<1>3. /\ Typed(g) /\ SameLinks(g, h) /\ g[b].free = TRUE
      /\ \A d \in DOMAIN h : d # b => g[d] = h[d]
  BY <1>2, MarkedIs
<1>4. \A e \in held \ {a} : e[1] - Info # b
  <2> SUFFICES ASSUME NEW e \in held \ {a}, e[1] - Info = b PROVE FALSE OBVIOUS
  <2>1. e[1] \in Nat /\ a[1] \in Nat /\ Info \in Nat BY <1>1, AddrFacts
  <2>2. e[1] = a[1] BY <2>1
  <2> QED BY <1>1, <2>2
<1> HIDE DEF g, b
<1>5. DOMAIN g = DOMAIN h /\ \A d \in DOMAIN h : g[d].size = h[d].size BY <1>3 DEF SameLinks
<1>6. \A d \in DOMAIN g : ~g[d].free <=> \E e \in held \ {a} : d = e[1] - Info
  <2> TAKE d \in DOMAIN g
  <2>1. CASE d = b BY <1>3, <1>4, <2>1
  <2>2. CASE d # b
    <3>1. g[d] = h[d] BY <1>3, <1>5, <2>2
    <3>2. ~h[d].free <=> \E e \in held : d = e[1] - Info BY <1>1, <1>5
    <3>3. (\E e \in held : d = e[1] - Info) <=> (\E e \in held \ {a} : d = e[1] - Info) BY <2>2 DEF b
    <3> QED BY <3>1, <3>2, <3>3
  <2> QED BY <2>1, <2>2
<1>7. \A e \in held \ {a} : e[1] - Info \in DOMAIN g /\ g[e[1] - Info].size >= e[2] BY <1>1, <1>5
<1>8. Held(g, held \ {a}) BY <1>1, <1>6, <1>7 DEF Held
<1> QED BY <1>8 DEF g, b

LEMMA KfreeKeeps ==
  ASSUME PmmInv, NEW a \in live, kfree(a)
  PROVE  PmmInv'
<1> DEFINE b == a[1] - Info
           freed == [blocks EXCEPT ![b].free = TRUE]
           right == Merge(freed, b, freed[b].next)
           left == Merge(right, right[b].prev, b)
           now == live \ {a}
           fb == free_block
<1>1. /\ Arena(blocks, small_head, fb) /\ Held(blocks, live) /\ blocks[fb].free
      /\ mode \in {"run", "out of memory"}
  BY DEF PmmInv
<1>2. Typed(blocks) BY <1>1 DEF Arena, Heap
<1>3. b \in DOMAIN blocks /\ ~blocks[b].free
  <2>1. b \in DOMAIN blocks BY <1>1 DEF Held
  <2> QED BY <1>1, <2>1 DEF Held
<1>4. blocks' = left /\ live' = now /\ UNCHANGED <<small_head, free_block, mode>> BY <1>3 DEF kfree
<1>5. fb \in DOMAIN blocks BY <1>1 DEF Arena, Lists
<1>6. /\ Typed(freed) /\ SameLinks(freed, blocks) /\ freed[b].free = TRUE
      /\ \A d \in DOMAIN blocks : d # b => freed[d] = blocks[d]
  BY <1>2, <1>3, MarkedIs
<1>7. Held(freed, now) BY <1>1, <1>2, FreedHeld
<1> HIDE DEF b, freed, now, fb
<1>8. Arena(freed, small_head, fb) /\ freed[fb].free /\ b \in DOMAIN freed
  <2>1. Arena(freed, small_head, fb) BY <1>1, <1>6, SameShape
  <2>2. freed[fb].free BY <1>1, <1>5, <1>6
  <2>3. b \in DOMAIN freed BY <1>3, <1>6 DEF SameLinks
  <2> QED BY <2>1, <2>2, <2>3
<1>9. Arena(right, small_head, fb) /\ Held(right, now) /\ right[fb].free /\ b \in DOMAIN right
  <2>1. Linked(freed) /\ Typed(freed) BY <1>8 DEF Arena, Heap
  <2> DEFINE nx == freed[b].next
  <2>2. nx # Nil => nx \in DOMAIN freed /\ freed[nx].prev = b /\ nx > b BY <1>8, <2>1 DEF Linked
  <2>3. freed[b].next = nx OBVIOUS
  <2> HIDE DEF nx, right
  <2>4. LET g == Merge(freed, b, nx) IN
        /\ Arena(g, small_head, fb) /\ Held(g, now) /\ g[fb].free
        /\ \A d \in DOMAIN freed : d # nx => d \in DOMAIN g
    BY <1>7, <1>8, <2>2, <2>3, MergeKeeps
  <2>5. b # nx
    <3>1. b \in Nat /\ b # Nil BY <1>8, <2>1, BlockFacts
    <3> QED BY <2>2, <3>1
  <2> QED BY <1>8, <2>4, <2>5 DEF nx, right
<1> HIDE DEF right
<1>10. Arena(left, small_head, fb) /\ Held(left, now) /\ left[fb].free
  <2>1. Linked(right) BY <1>9 DEF Arena, Heap
  <2> DEFINE pv == right[b].prev
  <2>2. pv # Nil => pv \in DOMAIN right /\ right[pv].next = b BY <1>9, <2>1 DEF Linked
  <2>3. right[b].prev = pv OBVIOUS
  <2> HIDE DEF pv
  <2>4. LET g == Merge(right, pv, b) IN Arena(g, small_head, fb) /\ Held(g, now) /\ g[fb].free
    BY <1>9, <2>2, <2>3, MergeKeeps
  <2> QED BY <2>4 DEF pv
<1> HIDE DEF left
<1>11. Arena(blocks', small_head', free_block') /\ Held(blocks', live') /\ (blocks')[free_block'].free
  BY <1>4, <1>10 DEF fb
<1> QED BY <1>1, <1>4, <1>11 DEF PmmInv

LEMMA PmmStarts == Init => PmmInv
<1> SUFFICES ASSUME Init PROVE PmmInv OBVIOUS
<1> DEFINE R == FreeHeader(HeapSz - Info)
           L == [c \in CPUs |-> {}]
<1>1. /\ blocks = With(<<>>, 0, R) /\ small_head = [c \in CPUs |-> Nil]
      /\ free_block = 0 /\ live = {} /\ mode = "run"
  BY DEF Init
<1>2. DOMAIN blocks = {0} /\ blocks = [b \in {0} |-> R] /\ blocks[0] = R
  <2>1. DOMAIN <<>> = {} OBVIOUS
  <2>2. blocks = [b \in {0} |-> R] BY <1>1, <2>1 DEF With
  <2> QED BY <2>2
<1>3. R \in Block /\ R.size = HeapSz - Info /\ R.next = Nil /\ R.prev = Nil /\ R.free = TRUE
  <2>1. HeapSz - Info \in 0..HeapSz BY AddrFacts
  <2> QED BY <2>1 DEF FreeHeader, Block
<1> HIDE DEF R
<1>4. 0 \in Addrs BY AddrFacts
<1>5. Typed(blocks) BY <1>2, <1>3, <1>4 DEF Typed
<1>6. Behind(blocks, 0) = HeapSz BY <1>2, <1>3, AddrFacts DEF Behind
<1>7. Tiled(blocks)
  <2>1. \A b, d \in DOMAIN blocks : ~(b < d) BY <1>2
  <2>2. \A b \in DOMAIN blocks : Behind(blocks, b) <= HeapSz BY <1>2, <1>6, AddrFacts
  <2>3. \A u \in Addrs : 0 <= u /\ u < Behind(blocks, 0) BY <1>6, AddrFacts
  <2> QED BY <1>2, <2>1, <2>2, <2>3 DEF Tiled
<1>8. Linked(blocks) BY <1>2, <1>3 DEF Linked
<1>9. \A c \in CPUs : IsList(blocks, small_head[c], L[c]) BY <1>1 DEF IsList
<1>10. Lists(blocks, small_head, free_block, L)
  <2>1. small_head \in [CPUs -> Addrs \cup {Nil}] BY <1>1
  <2> QED BY <1>1, <1>2, <1>3, <1>9, <2>1 DEF Lists
<1>11. Arena(blocks, small_head, free_block)
  <2>1. L \in [CPUs -> SUBSET DOMAIN blocks] OBVIOUS
  <2> QED BY <1>5, <1>7, <1>8, <1>10, <2>1 DEF Arena, Heap
<1>12. Held(blocks, live) BY <1>1, <1>2, <1>3 DEF Held
<1> QED BY <1>1, <1>2, <1>3, <1>11, <1>12 DEF PmmInv

\* The headers of the heap are in order, and the lists of the CPUs hold them.
LEMMA PmmInvHolds == Spec => []PmmInv
<1>1. PmmInv /\ [Next]_vars => PmmInv'
  <2> SUFFICES ASSUME PmmInv, [Next]_vars PROVE PmmInv' OBVIOUS
  <2>1. ASSUME NEW c \in CPUs, NEW n \in Sizes, kalloc(c, n) PROVE PmmInv' BY <2>1, KallocKeeps
  <2>2. ASSUME NEW a \in live, kfree(a) PROVE PmmInv' BY <2>2, KfreeKeeps
  <2>3. CASE UNCHANGED vars BY <2>3 DEF vars, PmmInv
  <2> QED BY <2>1, <2>2, <2>3 DEF Next
<1> QED BY <1>1, PmmStarts, PTL DEF Spec

-----------------------------------------------------------------------------
(* The sum of all blocks.                                                   *)

\* What the blocks s cover.
Extent(h, s) == {u \in Addrs : \E b \in s : b <= u /\ u < Behind(h, b)}

LEMMA ExtentStep ==
  ASSUME NEW h, Typed(h), Tiled(h), NEW s \in SUBSET DOMAIN h, NEW x \in s
  PROVE  Cardinality(Extent(h, s)) = Cardinality(Extent(h, s \ {x})) + Info + h[x].size
<1> DEFINE rest == Extent(h, s \ {x})
           own == x..(Behind(h, x) - 1)
<1>1. \A b \in DOMAIN h : b \in Nat /\ h[b].size \in Nat /\ Behind(h, b) \in Nat BY BlockFacts, AddrFacts DEF Behind
<1>2. x \in Nat /\ Behind(h, x) \in Nat /\ x < Behind(h, x) /\ Behind(h, x) <= HeapSz
      /\ Behind(h, x) = x + Info + h[x].size /\ h[x].size \in Nat
  <2>1. Behind(h, x) <= HeapSz BY DEF Tiled
  <2> QED BY <1>1, <2>1, AddrFacts DEF Behind
<1>3. Extent(h, s) = rest \cup own
  <2>1. \A u \in own : u \in Addrs /\ x <= u /\ u < Behind(h, x) BY <1>2, AddrFacts
  <2>2. \A u \in Addrs : x <= u /\ u < Behind(h, x) => u \in own BY <1>2, AddrFacts
  <2> HIDE DEF own
  <2> QED BY <2>1, <2>2 DEF Extent
<1>4. rest \cap own = {}
  <2> SUFFICES ASSUME NEW u \in rest, u \in own PROVE FALSE OBVIOUS
  <2>1. PICK b \in s \ {x} : b <= u /\ u < Behind(h, b) BY DEF Extent
  <2>2. u \in Nat /\ x <= u /\ u < Behind(h, x) BY <1>2
  <2>3. b \in DOMAIN h /\ x \in DOMAIN h /\ b # x OBVIOUS
  <2>4. CASE b < x
    <3>1. Behind(h, b) <= x BY <2>3, <2>4 DEF Tiled
    <3> QED BY <1>1, <1>2, <2>1, <2>2, <2>3, <3>1
  <2>5. CASE x < b
    <3>1. Behind(h, x) <= b BY <2>3, <2>5 DEF Tiled
    <3> QED BY <1>1, <1>2, <2>1, <2>2, <2>3, <3>1
  <2> QED BY <1>1, <2>3, <2>4, <2>5
<1>5. IsFiniteSet(rest) /\ IsFiniteSet(own) /\ Cardinality(own) = Info + h[x].size
  <2>1. IsFiniteSet(Addrs) BY AddrFacts, FS_Interval DEF Addrs
  <2>2. rest \in SUBSET Addrs BY DEF Extent
  <2>3. Behind(h, x) - 1 \in Int /\ x \in Int /\ ~(x > Behind(h, x) - 1) BY <1>2
  <2>4. IsFiniteSet(own) /\ Cardinality(own) = Behind(h, x) - 1 - x + 1 BY <2>3, FS_Interval
  <2>5. Behind(h, x) - 1 - x + 1 = Info + h[x].size BY <1>2, AddrFacts
  <2> QED BY <2>1, <2>2, <2>4, <2>5, FS_Subset
<1> HIDE DEF rest, own
<1>6. Cardinality(rest \cup own) = Cardinality(rest) + Cardinality(own) - Cardinality(rest \cap own)
  BY <1>5, FS_Union
<1>7. Cardinality(rest \cap own) = 0 BY <1>4, FS_EmptySet
<1>8. Cardinality(rest) \in Nat BY <1>5, FS_CardinalityType
<1> QED BY <1>2, <1>3, <1>5, <1>6, <1>7, <1>8, AddrFacts DEF rest

\* The blocks, with their headers, are as large as the heap.
LEMMA SumOfBlocks ==
  ASSUME NEW h, Typed(h), Tiled(h)
  PROVE  FoldSet(LAMBDA b, sum : sum + Info + h[b].size, 0, DOMAIN h) = HeapSz
<1> DEFINE D == DOMAIN h
           Size(s) == Cardinality(Extent(h, s))
           Pick(s) == CHOOSE x \in s : TRUE
           Rec(f) == [s \in SUBSET D |-> IF s = {} THEN 0 ELSE f[s \ {Pick(s)}] + Info + h[Pick(s)].size]
           it == CHOOSE f : f = Rec(f)
           W == [s \in SUBSET D |-> Size(s)]
<1>1. FoldSet(LAMBDA b, sum : sum + Info + h[b].size, 0, DOMAIN h) = it[D] BY DEF FoldSet, MapThenFoldSet
<1>2. \A s : s # {} => Pick(s) \in s OBVIOUS
<1> HIDE DEF Pick
<1>3. \A s \in SUBSET D : s # {} => Size(s) = Size(s \ {Pick(s)}) + Info + h[Pick(s)].size
  BY <1>2, ExtentStep
<1>4. Size({}) = 0
  <2>1. Extent(h, {}) = {} BY DEF Extent
  <2> QED BY <2>1, FS_EmptySet
<1>5. Size(D) = HeapSz
  <2>1. Extent(h, D) = Addrs BY DEF Extent, Tiled
  <2>2. 0 \in Int /\ HeapSz - 1 \in Int /\ ~(0 > HeapSz - 1) /\ HeapSz - 1 - 0 + 1 = HeapSz BY AddrFacts
  <2>3. Cardinality(0..(HeapSz - 1)) = HeapSz BY <2>2, FS_Interval
  <2> QED BY <2>1, <2>3 DEF Addrs
<1> HIDE DEF Size, D
<1>6. W = Rec(W)
  <2>1. \A s \in SUBSET D : W[s] = IF s = {} THEN 0 ELSE W[s \ {Pick(s)}] + Info + h[Pick(s)].size
    BY <1>3, <1>4
  <2>2. \A s \in SUBSET D : W[s] = Rec(W)[s] BY <2>1
  <2>3. W = [s \in SUBSET D |-> W[s]] OBVIOUS
  <2> HIDE DEF W
  <2> QED BY <2>1, <2>3
<1> HIDE DEF Rec, W
<1>7. it = Rec(it) BY <1>6 DEF it
<1> HIDE DEF it
<1>8. \A s \in SUBSET D : it[s] = IF s = {} THEN 0 ELSE it[s \ {Pick(s)}] + Info + h[Pick(s)].size
  BY <1>7 DEF Rec
<1>9. \A s \in SUBSET D : IsFiniteSet(s) /\ Cardinality(s) \in Nat
  <2>1. IsFiniteSet(D) BY BlockFacts DEF D
  <2> QED BY <2>1, FS_Subset, FS_CardinalityType
<1> DEFINE Bad == {s \in SUBSET D : it[s] # Size(s)}
           Counts == {Cardinality(s) : s \in Bad}
<1>10. Bad = {}
  <2> SUFFICES ASSUME Bad # {} PROVE FALSE OBVIOUS
  <2>1. Counts \in SUBSET Nat /\ Counts # {} BY <1>9
  <2>2. PICK k \in Counts : \A m \in Counts : k <= m BY <2>1, SmallestExists
  <2>3. PICK s \in Bad : k = Cardinality(s) BY <2>2
  <2>4. s # {} BY <1>4, <1>8, <2>3
  <2> DEFINE t == s \ {Pick(s)}
  <2>5. t \in SUBSET D /\ Cardinality(t) = Cardinality(s) - 1 BY <1>2, <1>9, <2>3, <2>4, FS_RemoveElement
  <2>6. t \notin Bad
    <3> SUFFICES ASSUME t \in Bad PROVE FALSE OBVIOUS
    <3>1. Cardinality(t) \in Counts BY DEF Counts
    <3>2. k <= Cardinality(t) BY <2>2, <3>1
    <3>3. Cardinality(s) \in Nat BY <1>9, <2>3
    <3> QED BY <2>3, <2>5, <3>2, <3>3
  <2>7. it[t] = Size(t) BY <2>5, <2>6
  <2>8. it[s] = Size(s) BY <1>3, <1>8, <2>3, <2>4, <2>7
  <2> QED BY <2>3, <2>8
<1> QED BY <1>1, <1>5, <1>10

-----------------------------------------------------------------------------
(* What is promised.                                                        *)

\* Of every number of CPUs, whatever they ask for and give back and in whichever
\* order, the blocks of alloc.c cover the heap once, headers included, and those
\* that are not free are the ones programs hold, at least as large as asked for.
THEOREM PmmHeap == Spec => []HeapInv
<1>1. PmmInv => HeapInv
  <2> SUFFICES ASSUME PmmInv PROVE HeapInv OBVIOUS
  <2>1. Typed(blocks) /\ Tiled(blocks) BY DEF PmmInv, Arena, Heap
  <2>2. PICK L \in [CPUs -> SUBSET DOMAIN blocks] : Lists(blocks, small_head, free_block, L) BY DEF PmmInv, Arena
  <2>3. free_block \in DOMAIN blocks /\ small_head \in [CPUs -> Addrs \cup {Nil}] BY <2>2 DEF Lists
  <2>4. /\ live \in SUBSET (Addrs \X Sizes)
        /\ \A b \in DOMAIN blocks : ~blocks[b].free <=> \E a \in live : b = a[1] - Info
        /\ \A a \in live : a[1] - Info \in DOMAIN blocks /\ blocks[a[1] - Info].size >= a[2]
    BY DEF PmmInv, Held
  <2>5. TypeOK
    <3>1. DOMAIN blocks \in SUBSET Addrs /\ \A b \in DOMAIN blocks : blocks[b] \in Block BY <2>1 DEF Typed
    <3>2. mode \in {"run", "out of memory"} BY DEF PmmInv
    <3> QED BY <2>3, <2>4, <3>1, <3>2 DEF TypeOK
  <2>6. BlocksTileTheHeap
    <3>1. \A b, d \in DOMAIN blocks : b < d => b + Info + blocks[b].size <= d BY <2>1 DEF Tiled, Behind
    <3>2. FoldSet(LAMBDA b, sum : sum + Info + blocks[b].size, 0, DOMAIN blocks) = HeapSz BY <2>1, SumOfBlocks
    <3> QED BY <3>1, <3>2 DEF BlocksTileTheHeap
  <2>7. InUseIsLive
    <3>1. {b \in DOMAIN blocks : ~blocks[b].free} = {a[1] - Info : a \in live} BY <2>4
    <3> QED BY <2>4, <3>1 DEF InUseIsLive
  <2> QED BY <2>5, <2>6, <2>7 DEF HeapInv
<1> QED BY <1>1, PmmInvHolds, PTL

\* What kalloc returned stays its caller's alone until it is freed: whatever
\* divide_small and merge_small do around it, it is in the heap and meets no
\* header and no other allocation.
THEOREM PmmLiveIsOwn == Spec => []LiveIsOwn
<1>1. PmmInv => LiveIsOwn
  <2> SUFFICES ASSUME PmmInv, NEW a \in live
               PROVE  /\ Units(a[1], a[2]) \subseteq Addrs
                      /\ Units(a[1], a[2]) \cap Headers = {}
                      /\ \A e \in live \ {a} : Units(a[1], a[2]) \cap Units(e[1], e[2]) = {}
    BY DEF LiveIsOwn
  <2>1. Typed(blocks) /\ Tiled(blocks) BY DEF PmmInv, Arena, Heap
  <2>2. /\ live \in SUBSET (Addrs \X Sizes)
        /\ \A e \in live : e[1] - Info \in DOMAIN blocks /\ blocks[e[1] - Info].size >= e[2]
        /\ \A e, f \in live : e[1] = f[1] => e = f
    BY DEF PmmInv, Held
  <2>3. \A b \in DOMAIN blocks : b \in Nat /\ blocks[b].size \in Nat /\ Behind(blocks, b) \in Nat
    BY <2>1, BlockFacts, AddrFacts DEF Behind
  <2>4. ASSUME NEW e \in live, NEW u \in Units(e[1], e[2])
        PROVE  /\ u \in Nat /\ e[1] - Info \in DOMAIN blocks /\ e[1] - Info \in Nat
               /\ e[1] - Info + Info <= u /\ u < Behind(blocks, e[1] - Info)
    <3>1. e[1] \in Nat /\ e[2] \in Nat /\ e[1] - Info \in DOMAIN blocks /\ blocks[e[1] - Info].size >= e[2]
      BY <2>2, AddrFacts
    <3>2. u \in Nat /\ e[1] <= u /\ u < e[1] + e[2]
      <4>1. u \in e[1]..(e[1] + e[2] - 1) BY <2>4 DEF Units
      <4> QED BY <3>1, <4>1
    <3>3. Behind(blocks, e[1] - Info) = e[1] - Info + Info + blocks[e[1] - Info].size BY DEF Behind
    <3> QED BY <2>3, <3>1, <3>2, <3>3, AddrFacts
  <2>5. Units(a[1], a[2]) \subseteq Addrs
    <3> SUFFICES ASSUME NEW u \in Units(a[1], a[2]) PROVE u \in Addrs OBVIOUS
    <3> DEFINE b == a[1] - Info
    <3>1. u \in Nat /\ b \in DOMAIN blocks /\ u < Behind(blocks, b) BY <2>4
    <3>2. Behind(blocks, b) <= HeapSz BY <2>1, <3>1 DEF Tiled
    <3> QED BY <2>3, <3>1, <3>2, AddrFacts
  <2>6. Units(a[1], a[2]) \cap Headers = {}
    <3> SUFFICES ASSUME NEW u \in Units(a[1], a[2]), NEW d \in DOMAIN blocks, u \in Units(d, Info) PROVE FALSE
      BY DEF Headers
    <3> DEFINE b == a[1] - Info
    <3>1. u \in Nat /\ b \in DOMAIN blocks /\ b \in Nat /\ b + Info <= u /\ u < Behind(blocks, b) BY <2>4
    <3>2. d \in Nat /\ d <= u /\ u < d + Info
      <4>1. u \in d..(d + Info - 1) BY DEF Units
      <4> QED BY <2>3, <4>1, AddrFacts
    <3> HIDE DEF b
    <3>3. CASE d < b
      <4>1. Behind(blocks, d) <= b BY <2>1, <3>1, <3>3 DEF Tiled
      <4>2. d + Info <= Behind(blocks, d) BY <2>3, AddrFacts DEF Behind
      <4> QED BY <2>3, <3>1, <3>2, <4>1, <4>2, AddrFacts
    <3>4. CASE b < d
      <4>1. Behind(blocks, b) <= d BY <2>1, <3>1, <3>4 DEF Tiled
      <4> QED BY <2>3, <3>1, <3>2, <4>1
    <3>5. CASE b = d BY <3>1, <3>2, <3>5, AddrFacts
    <3> QED BY <3>1, <3>2, <3>3, <3>4, <3>5
  <2>7. ASSUME NEW e \in live \ {a}, NEW u \in Units(a[1], a[2]), u \in Units(e[1], e[2]) PROVE FALSE
    <3> DEFINE b == a[1] - Info
               d == e[1] - Info
    <3>1. u \in Nat /\ b \in DOMAIN blocks /\ b \in Nat /\ b + Info <= u /\ u < Behind(blocks, b) BY <2>4
    <3>2. d \in DOMAIN blocks /\ d \in Nat /\ d + Info <= u /\ u < Behind(blocks, d) BY <2>4, <2>7
    <3>3. b # d
      <4>1. a[1] # e[1] BY <2>2, <2>7
      <4>2. a[1] \in Nat /\ e[1] \in Nat BY <2>2, <2>7, AddrFacts
      <4> QED BY <4>1, <4>2, AddrFacts
    <3> HIDE DEF b, d
    <3>4. CASE d < b
      <4>1. Behind(blocks, d) <= b BY <2>1, <3>1, <3>2, <3>4 DEF Tiled
      <4> QED BY <2>3, <3>1, <3>2, <4>1, AddrFacts
    <3>5. CASE b < d
      <4>1. Behind(blocks, b) <= d BY <2>1, <3>1, <3>2, <3>5 DEF Tiled
      <4> QED BY <2>3, <3>1, <3>2, <4>1, AddrFacts
    <3> QED BY <3>1, <3>2, <3>3, <3>4, <3>5
  <2> QED BY <2>5, <2>6, <2>7
<1> QED BY <1>1, PmmInvHolds, PTL

\* The lists that find_small goes by are linked both ways, share no block, and
\* together have all but the last one: none is lost by a division or a merge
\* that touches the list of another CPU.
THEOREM PmmLists == Spec => []ListsAreRight
<1>1. PmmInv => ListsAreRight
  <2> SUFFICES ASSUME PmmInv PROVE ListsAreRight OBVIOUS
  <2>1. Typed(blocks) /\ Linked(blocks) BY DEF PmmInv, Arena, Heap
  <2>2. PICK L \in [CPUs -> SUBSET DOMAIN blocks] : Lists(blocks, small_head, free_block, L) BY DEF PmmInv, Arena
  <2>3. /\ free_block \in DOMAIN blocks
        /\ \A c \in CPUs : IsList(blocks, small_head[c], L[c])
        /\ \A c, e \in CPUs : c # e => L[c] \cap L[e] = {}
        /\ \A b \in DOMAIN blocks : b # free_block <=> \E c \in CPUs : b \in L[c]
    BY <2>2 DEF Lists
  <2>4. ASSUME NEW c \in CPUs PROVE ListOf(c) = L[c]
    <3> DEFINE n == HeapSz + 1
               head == small_head[c]
    <3>1. IsList(blocks, head, L[c]) BY <2>3
    <3>2. \A b \in DOMAIN blocks : ~Fits(blocks, b, n)
      <4> TAKE b \in DOMAIN blocks
      <4>1. blocks[b].size \in 0..HeapSz BY <2>1 DEF Typed, Block
      <4> QED BY <4>1, AddrFacts DEF Fits
    <3>3. Found(blocks, head, n) = Nil
      <4>1. Found(blocks, head, n) \in L[c] \cup {Nil}
            /\ (Found(blocks, head, n) # Nil => Fits(blocks, Found(blocks, head, n), n))
        BY <2>1, <3>1, SearchIs
      <4> HIDE DEF n
      <4> QED BY <3>2, <4>1
    <3>4. Range(Walk(blocks, head, n)) \ {Nil} = L[c] BY <2>1, <3>1, <3>3, SearchIs
    <3> QED BY <3>4 DEF ListOf
  <2>5. \A c, e \in CPUs : c # e => ListOf(c) \cap ListOf(e) = {} BY <2>3, <2>4
  <2>6. UNION {ListOf(c) : c \in CPUs} = DOMAIN blocks \ {free_block}
    <3>1. \A c \in CPUs : L[c] \in SUBSET DOMAIN blocks BY <2>2
    <3> HIDE DEF ListOf
    <3> QED BY <2>3, <2>4, <3>1
  <2>7. \A b \in DOMAIN blocks :
          /\ blocks[b].next # Nil => blocks[b].next > b /\ blocks[b].next \in DOMAIN blocks
                                     /\ blocks[blocks[b].next].prev = b
          /\ blocks[b].prev # Nil => blocks[b].prev \in DOMAIN blocks /\ blocks[blocks[b].prev].next = b
    BY <2>1 DEF Linked
  <2> QED BY <2>5, <2>6, <2>7 DEF ListsAreRight
<1> QED BY <1>1, PmmInvHolds, PTL
=============================================================================
