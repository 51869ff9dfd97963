-------------------------------- MODULE Pmm --------------------------------
(***************************************************************************)
(* alloc.c: the heap.  Every CPU has a list of blocks, of which kalloc     *)
(* takes the first free one that is large enough; behind all the blocks    *)
(* lies free_block, from which new ones are cut.  Both functions hold      *)
(* alloc_lk, so each call is one step.  Sizes are in units of 8 bytes and  *)
(* are what align() returns.                                               *)
(*                                                                         *)
(* blocks maps an address to the header there: its domain is the set of    *)
(* the addresses that hold the magic number.  pm_used, which nothing but   *)
(* /proc/meminfo reads, is left out.                                       *)
(***************************************************************************)
EXTENDS Integers, FiniteSets, FiniteSetsExt, Functions

CONSTANTS CPUs,
          HeapSz,   \* pm_end - pm_start
          Info,     \* info_size
          Unit,     \* 4 * DIV: new blocks are at least, merged ones at most this large
          Ignore,   \* IGNORE_MM
          Sizes     \* what is asked for

ASSUME PmmAssumption ==
  /\ {HeapSz, Info, Unit, Ignore} \subseteq Nat \ {0} /\ Info < HeapSz
  /\ Sizes \subseteq Nat \ {0}

Nil == -1
Addrs == 0..(HeapSz - 1)

VARIABLES
  blocks,      \* [size, next, prev, free] of each block
  small_head,  \* the first block of each CPU
  free_block,  \* the address of the last block
  live,        \* what the program holds: <<pointer, size>>
  mode         \* "run" or "out of memory"
vars == <<blocks, small_head, free_block, live, mode>>

Block == [size : 0..HeapSz, next : Addrs \cup {Nil}, prev : Addrs \cup {Nil}, free : BOOLEAN]

TypeOK ==
  /\ DOMAIN blocks \subseteq Addrs /\ \A b \in DOMAIN blocks : blocks[b] \in Block
  /\ small_head \in [CPUs -> Addrs \cup {Nil}]
  /\ free_block \in DOMAIN blocks
  /\ live \subseteq Addrs \X Sizes
  /\ mode \in {"run", "out of memory"}

FreeHeader(size) == [size |-> size, next |-> Nil, prev |-> Nil, free |-> TRUE]

\* h with the header r at address a.
With(h, a, r) == [b \in DOMAIN h \cup {a} |-> IF b = a THEN r ELSE h[b]]

\* pmm_init
Init ==
  /\ blocks = With(<<>>, 0, FreeHeader(HeapSz - Info))
  /\ small_head = [c \in CPUs |-> Nil]
  /\ free_block = 0 /\ live = {} /\ mode = "run"

-----------------------------------------------------------------------------
(* kalloc                                                                   *)

Fits(h, b, n) == h[b].free /\ h[b].size >= n

\* find_small goes by the blocks of the list that are not suitable; walk[i] is
\* where it is after i of them.
Walk(h, head, n) ==
  LET walk[i \in 0..Cardinality(DOMAIN h)] ==
        IF i = 0 THEN head
        ELSE LET cur == walk[i - 1] IN
             IF cur = Nil \/ Fits(h, cur, n) THEN cur ELSE h[cur].next
  IN walk

Found(h, head, n) == Walk(h, head, n)[Cardinality(DOMAIN h)]
Passed(h, head, n) == Range(Walk(h, head, n)) \ {Found(h, head, n), Nil}

\* It writes the links to and from each of them again: its assertions say "="
\* where "==" was meant.
Relinked(h, passed) ==
  [b \in DOMAIN h |->
     [h[b] EXCEPT
        !.next = LET after == {p \in passed : h[p].prev = b} IN IF after = {} THEN @ ELSE Min(after),
        !.prev = LET before == {p \in passed : h[p].next = b} IN IF before = {} THEN @ ELSE Min(before)]]

\* Mutant: the block behind the rest keeps its prev.
DivideKeepsPrev(h, cur, n) ==
  IF h[cur].size < n + Info + Ignore THEN h
  ELSE LET rest == cur + Info + n
           r    == [h[cur] EXCEPT !.size = @ - Info - n, !.prev = cur, !.free = TRUE] IN
       [With(h, rest, r) EXCEPT ![cur].size = n, ![cur].next = rest]

\* divide_small: the rest of a block that is much too large becomes a block.
Divide(h, cur, n) ==
  IF h[cur].size < n + Info + Ignore THEN h
  ELSE LET rest == cur + Info + n
           r    == [h[cur] EXCEPT !.size = @ - Info - n, !.prev = cur, !.free = TRUE]
           cut  == With(h, rest, r) IN
       [b \in DOMAIN cut |->
          IF b = cur THEN [cut[b] EXCEPT !.size = n, !.next = rest]
          ELSE IF b = h[cur].next THEN [cut[b] EXCEPT !.prev = rest] ELSE cut[b]]

\* memset clears what was in these n units.
Cleared(h, ptr, n) == Restrict(h, DOMAIN h \ (ptr..(ptr + n - 1)))

\* cur is divided and taken.
Taken(h, cur, n) ==
  /\ blocks' = Cleared([Divide(h, cur, n) EXCEPT ![cur].free = FALSE], cur + Info, n)
  /\ live' = live \cup {<<cur + Info, n>>}

Stops(how) == mode' = how /\ UNCHANGED <<blocks, small_head, free_block, live>>

\* Mutant: the block that is cut off has no room for a header behind it.
RoomNoHeader(n) == blocks[free_block].size >= IF n < Unit THEN Unit ELSE n
Room(n) == blocks[free_block].size >= Info + IF n < Unit THEN Unit ELSE n

\* new_small_block: free_block goes to the end of the list, behind last.  That
\* the links it asserts are NULL follows from ListsAreRight.
NewSmallBlock(h, last, n) ==
  LET sz   == IF n < Unit THEN Unit ELSE n
      rest == free_block + sz + Info
      cut  == With(h, rest, FreeHeader(h[free_block].size - Info - sz))
      own  == [cut EXCEPT ![free_block].size = sz, ![free_block].prev = IF last = Nil THEN @ ELSE last] IN
  IF last = Nil THEN own ELSE [own EXCEPT ![last].next = free_block]

kalloc(c, n) ==
  LET h      == Relinked(blocks, Passed(blocks, small_head[c], n))
      cur    == Found(blocks, small_head[c], n)
      passed == Passed(blocks, small_head[c], n)
      last   == IF passed = {} THEN Nil ELSE CHOOSE p \in passed : h[p].next = Nil IN
  /\ mode = "run"
  /\ \/ /\ cur # Nil
        /\ Taken(h, cur, n)
        /\ UNCHANGED <<small_head, free_block, mode>>
     \/ cur = Nil /\ ~Room(n) /\ Stops("out of memory")
     \/ /\ cur = Nil /\ Room(n)
        /\ Taken(NewSmallBlock(h, last, n), free_block, n)
        /\ small_head' = [small_head EXCEPT ![c] = IF last = Nil THEN free_block ELSE @]
        /\ free_block' = free_block + Info + (IF n < Unit THEN Unit ELSE n)
        /\ UNCHANGED mode

-----------------------------------------------------------------------------
(* kfree                                                                    *)

Adjacent(h, b1, b2) == b1 # Nil /\ b2 # Nil /\ b1 + h[b1].size + Info = b2

\* Mutant: blocks that are in use are merged too.
MergeInUse(h, b1, b2) ==
  IF ~Adjacent(h, b1, b2) \/ h[b1].size + h[b2].size + Info > Unit THEN h
  ELSE LET next == h[b2].next IN
       [b \in DOMAIN h \ {b2} |->
          IF b = b1 THEN [h[b] EXCEPT !.size = @ + h[b2].size + Info, !.next = next]
          ELSE IF b = next THEN [h[b] EXCEPT !.prev = b1] ELSE h[b]]

\* merge_small: b2 becomes part of b1 and loses its magic number.  Also here
\* assertions write links.
Merge(h, b1, b2) ==
  IF ~Adjacent(h, b1, b2) THEN h
  ELSE LET linked == [h EXCEPT ![b1].next = b2, ![b2].prev = b1]
           next   == h[b2].next IN
       IF ~h[b1].free \/ ~h[b2].free \/ h[b1].size + h[b2].size + Info > Unit THEN linked
       ELSE [b \in DOMAIN h \ {b2} |->
               IF b = b1 THEN [linked[b] EXCEPT !.size = @ + h[b2].size + Info, !.next = next]
               ELSE IF b = next THEN [linked[b] EXCEPT !.prev = b1] ELSE linked[b]]

\* Any CPU may free a block of any list.  A pointer without a header in front
\* of it, or to a free block, is ignored; programs free what they hold.
kfree(a) ==
  LET b     == a[1] - Info
      freed == [blocks EXCEPT ![b].free = TRUE]
      right == Merge(freed, b, freed[b].next) IN
  /\ mode = "run" /\ a \in live
  /\ blocks' = IF b \notin DOMAIN blocks \/ blocks[b].free THEN blocks
               ELSE Merge(right, right[b].prev, b)
  /\ live' = live \ {a}
  /\ UNCHANGED <<small_head, free_block, mode>>

Next == (\E c \in CPUs, n \in Sizes : kalloc(c, n)) \/ (\E a \in live : kfree(a))

Spec == Init /\ [][Next]_vars

-----------------------------------------------------------------------------
(* Properties                                                               *)

Units(from, n) == from..(from + n - 1)
Headers == UNION {Units(b, Info) : b \in DOMAIN blocks}

\* What kalloc returns is in the heap, and is nobody else's as long as it is not
\* freed: it meets no other allocation and no header of a block, whatever was
\* divided and merged around it by any CPU.
LiveIsOwn ==
  \A a \in live :
    /\ Units(a[1], a[2]) \subseteq Addrs
    /\ Units(a[1], a[2]) \cap Headers = {}
    /\ \A b \in live \ {a} : Units(a[1], a[2]) \cap Units(b[1], b[2]) = {}

\* The blocks, with their headers, cover every unit of the heap once: neither
\* dividing nor merging loses memory or hands it out twice.
BlocksTileTheHeap ==
  /\ \A b, d \in DOMAIN blocks : b < d => b + Info + blocks[b].size <= d
  /\ FoldSet(LAMBDA b, sum : sum + Info + blocks[b].size, 0, DOMAIN blocks) = HeapSz

\* The blocks that are not free are exactly those programs hold, and they are
\* large enough.
InUseIsLive ==
  LET held == {a[1] - Info : a \in live} IN
  /\ {b \in DOMAIN blocks : ~blocks[b].free} = held
  /\ \A a \in live : blocks[a[1] - Info].size >= a[2]

\* The heap is the blocks, and what is in use of it is what programs hold.
HeapInv == TypeOK /\ BlocksTileTheHeap /\ InUseIsLive

ListOf(c) == Range(Walk(blocks, small_head[c], HeapSz + 1)) \ {Nil}

\* The lists are linked both ways, in the order of the addresses, share no
\* block, and together have all but free_block: no free block is out of reach.
ListsAreRight ==
  /\ \A b \in DOMAIN blocks :
       /\ blocks[b].next # Nil => blocks[b].next > b /\ blocks[b].next \in DOMAIN blocks
                                  /\ blocks[blocks[b].next].prev = b
       /\ blocks[b].prev # Nil => blocks[b].prev \in DOMAIN blocks /\ blocks[blocks[b].prev].next = b
  /\ \A c, e \in CPUs : c # e => ListOf(c) \cap ListOf(e) = {}
  /\ UNION {ListOf(c) : c \in CPUs} = DOMAIN blocks \ {free_block}
=============================================================================
