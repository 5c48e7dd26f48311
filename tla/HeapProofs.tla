----------------------------- MODULE HeapProofs -----------------------------
(***************************************************************************)
(* What holds of Heap for every size of heap, header and request, and any  *)
(* number of threads.                                                      *)
(*                                                                         *)
(* plug_holes and the splits are proved about one by one, as operators on  *)
(* a chain of blocks; the steps of the heap are made of them.              *)
(***************************************************************************)
EXTENDS Heap, FiniteSetTheorems, TLAPS

-----------------------------------------------------------------------------
(* Numbers.                                                                *)

\* The well-ordering of the naturals.
LEMMA LeastNat ==
    ASSUME NEW T, T \subseteq Nat, T # {}
    PROVE  \E x \in T : \A y \in T : x <= y
<1> DEFINE Less == {ss \in Nat \X Nat : ss[1] < ss[2]}
<1>1. IsWellFoundedOn(Less, Nat)
  BY NatLessThanWellFounded, Zenon DEF OpToRel
<1> HIDE DEF Less
<1>2. PICK x \in T : \A y \in T : <<y, x>> \notin Less
  BY <1>1, WFMin, Zenon
<1>3. ASSUME NEW y \in T PROVE x <= y
  <2>1. x \in Nat /\ y \in Nat
    OBVIOUS
  <2>2. ~(y < x)
    BY <1>2, <1>3, <2>1 DEF Less
  <2> QED
    BY <2>1, <2>2
<1> QED
  BY <1>2, <1>3

\* Min of a set of naturals.
LEMMA MinLemma ==
    ASSUME NEW T, T \subseteq Nat, T # {}
    PROVE  Min(T) \in T /\ \A y \in T : Min(T) <= y
  BY LeastNat, Zenon DEF Min

\* A set of naturals below a bound has a greatest element.
LEMMA GreatestBelow ==
    ASSUME NEW T, NEW k \in Nat, T \subseteq 0 .. k, T # {}
    PROVE  \E x \in T : \A y \in T : y <= x
<1> DEFINE U == {k - y : y \in T}
<1>1. U \subseteq Nat /\ U # {}
  OBVIOUS
<1>2. PICK u \in U : \A y \in U : u <= y
  BY <1>1, LeastNat
<1>3. PICK x \in T : u = k - x
  OBVIOUS
<1>4. ASSUME NEW y \in T PROVE y <= x
  <2>1. u <= k - y
    BY <1>2
  <2> QED
    BY <1>3, <2>1
<1> QED
  BY <1>4

\* How many numbers there are from x to y - 1.
LEMMA IntervalSize ==
    ASSUME NEW x \in Int, NEW y \in Int, x <= y
    PROVE  IsFiniteSet(x .. (y - 1)) /\ Cardinality(x .. (y - 1)) = y - x
<1> DEFINE z == y - 1
<1>1. z \in Int /\ (x > z => x = y)
  OBVIOUS
<1> HIDE DEF z
<1>2. IsFiniteSet(x .. z) /\ Cardinality(x .. z) = IF x > z THEN 0 ELSE z - x + 1
  BY <1>1, FS_Interval
<1>3. (IF x > z THEN 0 ELSE z - x + 1) = y - x
  BY <1>1 DEF z
<1> QED
  BY <1>2, <1>3 DEF z

-----------------------------------------------------------------------------
(* Chains of blocks.                                                       *)

Block == [used : BOOLEAN, next : 0 .. heap_end, prev : 0 .. heap_end]

\* next leads from each header to the next one there is, and prev back.
Chain(b) ==
    /\ DOMAIN b \subseteq 0 .. heap_end /\ 0 \in DOMAIN b /\ heap_end \in DOMAIN b
    /\ b \in [DOMAIN b -> Block]
    /\ \A p \in DOMAIN b \ {heap_end} :
          /\ b[p].next \in DOMAIN b /\ p < b[p].next
          /\ \A q \in DOMAIN b : q <= p \/ b[p].next <= q
          /\ b[p].next # heap_end => b[b[p].next].prev = p
    /\ b[0].prev = 0 /\ b[heap_end].used

UsedIn(b) == {p \in DOMAIN b \ {heap_end} : b[p].used}
FreeIn(b) == {p \in DOMAIN b : ~b[p].used}

\* No free block is before l.
Lowest(b, l) ==
    /\ l \in DOMAIN b /\ (l = heap_end \/ l \in FreeIn(b))
    /\ \A q \in FreeIn(b) : l <= q

\* Two free blocks follow each other only where one of them is p.
CoalescedBut(b, p) ==
    \A q \in FreeIn(b) : b[q].next \in FreeIn(b) => q = p \/ b[q].next = p

LEMMA Bounds == heap_end \in Nat /\ heap_end > 0 /\ Header \in Nat \ {0} /\ MIN_SIZE \in Nat \ {0}
                /\ mem_size \in Nat
  BY HeapAssumption DEF heap_end

\* prev is the header before.
LEMMA PrevLemma ==
    ASSUME NEW b, Chain(b), NEW p \in DOMAIN b \ {0, heap_end}
    PROVE  b[p].prev \in DOMAIN b \ {heap_end} /\ b[p].prev < p /\ b[b[p].prev].next = p
<1> DEFINE T == {q \in DOMAIN b : q < p}
<1>1. /\ DOMAIN b \subseteq Nat /\ p \in Nat /\ p # 0 /\ p < heap_end /\ heap_end \in Nat
      /\ 0 \in DOMAIN b
  BY Bounds DEF Chain
<1>2. PICK r \in T : \A y \in T : y <= r
  <2>1. T \subseteq 0 .. p /\ 0 \in T
    BY <1>1
  <2> HIDE DEF T
  <2> QED
    BY <1>1, <2>1, GreatestBelow
<1>3. /\ r \in DOMAIN b /\ r < p /\ r # heap_end
      /\ b[r].next \in DOMAIN b /\ r < b[r].next /\ b[r].next <= p
  BY <1>1, <1>2 DEF Chain
<1>4. b[r].next = p
  BY <1>1, <1>2, <1>3
<1>5. b[p].prev = r
  BY <1>1, <1>3, <1>4 DEF Chain
<1> QED
  BY <1>3, <1>4, <1>5

\* lfree, when there is nothing free before it, is what NextFree finds.
LEMMA LowestLemma ==
    ASSUME NEW b, Chain(b), NEW p \in DOMAIN b, \A q \in FreeIn(b) : p <= q
    PROVE  /\ Lowest(b, NextFree(b, p))
           /\ p = 0 => \A l : Lowest(b, l) => l = NextFree(b, p)
<1> DEFINE T == {q \in DOMAIN b : p <= q /\ (q = heap_end \/ ~b[q].used)}
<1>1. /\ T \subseteq Nat /\ heap_end \in T /\ DOMAIN b \subseteq Nat
      /\ \A q \in DOMAIN b : q <= heap_end /\ 0 <= q
  BY Bounds DEF Chain
<1>2. NextFree(b, p) = Min(T)
  BY DEF NextFree
<1> DEFINE m == Min(T)
<1>3. m \in T /\ \A y \in T : m <= y
  <2> HIDE DEF T
  <2> QED
    BY <1>1, MinLemma
<1> HIDE DEF m
<1>4. Lowest(b, m)
  BY <1>1, <1>3 DEF Lowest, FreeIn
<1>5. ASSUME p = 0, NEW l, Lowest(b, l) PROVE l = m
  <2>1. l \in T /\ l \in Nat
    BY <1>1, <1>5 DEF Lowest, FreeIn
  <2>2. m \in Nat /\ m <= l
    BY <1>1, <1>3, <2>1
  <2>3. l <= m
    BY <1>1, <1>3, <1>5 DEF Lowest, FreeIn
  <2> QED
    BY <2>1, <2>2, <2>3
<1> QED
  BY <1>2, <1>4, <1>5 DEF m

\* What Merge makes of the chain.
Merged(b, p, n) ==
    [q \in DOMAIN b \ {n} |->
        IF q = p THEN [b[p] EXCEPT !.next = b[n].next]
        ELSE IF q = b[n].next THEN [b[q] EXCEPT !.prev = p]
        ELSE b[q]]

LEMMA MergedLemma ==
    ASSUME NEW b, Chain(b), NEW p \in DOMAIN b \ {heap_end}, NEW n,
           n = b[p].next, n # heap_end
    PROVE  /\ Chain(Merged(b, p, n))
           /\ DOMAIN Merged(b, p, n) = DOMAIN b \ {n}
           /\ p \in DOMAIN Merged(b, p, n) /\ Merged(b, p, n)[p].next = b[n].next
           /\ \A q \in DOMAIN b \ {n} : Merged(b, p, n)[q].used = b[q].used
           /\ \A q \in DOMAIN b \ {n, p} : Merged(b, p, n)[q].next = b[q].next
           /\ p < n /\ n < b[n].next /\ n # 0
<1> DEFINE m == Merged(b, p, n)
<1>1. /\ n \in DOMAIN b \ {heap_end} /\ p < n /\ n # p /\ b[n].prev = p
      /\ \A q \in DOMAIN b : q <= p \/ n <= q
      /\ b[n].next \in DOMAIN b /\ n < b[n].next /\ \A q \in DOMAIN b : q <= n \/ b[n].next <= q
      /\ DOMAIN b \subseteq Nat /\ n # 0 /\ b[n].next # p
  BY Bounds DEF Chain
<1>2. \A q \in DOMAIN b : b[q] \in Block
  BY DEF Chain
<1>3. /\ DOMAIN m = DOMAIN b \ {n}
      /\ m[p] = [b[p] EXCEPT !.next = b[n].next]
      /\ b[n].next \in DOMAIN m
      /\ m[b[n].next] = [b[b[n].next] EXCEPT !.prev = p]
      /\ \A q \in DOMAIN m : q # p /\ q # b[n].next => m[q] = b[q]
  BY <1>1 DEF Merged
<1> HIDE DEF m
<1>4. \A q \in DOMAIN m :
        /\ m[q] \in Block /\ m[q].used = b[q].used
        /\ q # p => m[q].next = b[q].next
        /\ q # b[n].next => m[q].prev = b[q].prev
  BY <1>1, <1>2, <1>3 DEF Block, Chain
<1>5. m[p].next = b[n].next /\ m[b[n].next].prev = p
  BY <1>1, <1>2, <1>3 DEF Block
<1>6. m \in [DOMAIN m -> Block]
  <2>1. m = [q \in DOMAIN m |-> m[q]]
    BY DEF Merged, m
  <2> QED
    BY <1>4, <2>1
<1>7. ASSUME NEW q \in DOMAIN m \ {heap_end}
      PROVE  /\ m[q].next \in DOMAIN m /\ q < m[q].next
             /\ \A r \in DOMAIN m : r <= q \/ m[q].next <= r
             /\ m[q].next # heap_end => m[m[q].next].prev = q
  <2>1. CASE q = p
    <3>1. p \in Nat /\ n \in Nat /\ b[n].next \in Nat /\ p < b[n].next
      BY <1>1
    <3>2. \A r \in DOMAIN m : r <= p \/ b[n].next <= r
      <4>1. ASSUME NEW r \in DOMAIN m PROVE r <= p \/ b[n].next <= r
        <5>1. r \in DOMAIN b /\ r # n /\ r \in Nat /\ (r <= p \/ n <= r) /\ (r <= n \/ b[n].next <= r)
          BY <1>1, <1>3
        <5> QED
          BY <3>1, <5>1
      <4> QED
        BY <4>1
    <3> QED
      BY <1>3, <1>5, <2>1, <3>1, <3>2
  <2>2. CASE q # p
    <3>1. /\ b[q].next \in DOMAIN b /\ q < b[q].next /\ \A r \in DOMAIN b : r <= q \/ b[q].next <= r
          /\ b[q].next # heap_end => b[b[q].next].prev = q
          /\ m[q].next = b[q].next
      BY <1>3, <1>4, <2>2 DEF Chain
    <3>2. b[q].next # n
      BY <1>1, <2>2, <3>1
    <3>3. b[q].next # b[n].next
      BY <1>1, <1>3, <2>2, <3>1
    <3> QED
      BY <1>3, <1>4, <3>1, <3>2, <3>3
  <2> QED
    BY <2>1, <2>2
<1>8. m[0].prev = 0 /\ m[heap_end].used
  BY <1>1, <1>3, <1>4, Bounds DEF Chain
<1>9. Chain(m)
  BY <1>1, <1>3, <1>6, <1>7, <1>8 DEF Chain
<1> QED
  BY <1>1, <1>3, <1>4, <1>5, <1>9 DEF m

\* c is b with a free block p2 at the end of block p.
IsSplit(b, c, p, p2) ==
    /\ DOMAIN c = DOMAIN b \cup {p2}
    /\ p2 \notin DOMAIN b /\ p2 \in Nat /\ p < p2 /\ p2 # heap_end
    /\ ~c[p2].used /\ c[p2].next = b[p].next /\ c[p2].prev = p /\ c[p].next = p2
    /\ \A q \in DOMAIN b : c[q].used = b[q].used
    /\ \A q \in DOMAIN b \ {p} : c[q].next = b[q].next

\* A block becomes two.
LEMMA SplitLemma ==
    ASSUME NEW b, Chain(b), NEW p \in DOMAIN b \ {heap_end}, NEW size \in Nat,
           p + Header + size < b[p].next
    PROVE  Chain(Split(b, p, size)) /\ IsSplit(b, Split(b, p, size), p, p + Header + size)
<1> DEFINE p2 == p + Header + size
           c  == Split(b, p, size)
           n  == b[p].next
<1>1. /\ p2 \in Nat /\ p < p2 /\ p2 < n /\ p2 \notin DOMAIN b /\ p2 # heap_end /\ p \in Nat
      /\ n \in DOMAIN b /\ n <= heap_end /\ \A q \in DOMAIN b : q <= p \/ n <= q
      /\ DOMAIN b \subseteq Nat /\ p2 \in 0 .. heap_end /\ n # p
  BY Bounds DEF Chain
<1>2. \A q \in DOMAIN b : b[q] \in Block
  BY DEF Chain
<1>3. /\ DOMAIN c = DOMAIN b \cup {p2}
      /\ c[p2] = [used |-> FALSE, next |-> n, prev |-> p]
      /\ c[p] = [b[p] EXCEPT !.next = p2]
      /\ n # heap_end => c[n] = [b[n] EXCEPT !.prev = p2]
      /\ n = heap_end => c[n] = b[n]
      /\ \A q \in DOMAIN b : q # p /\ q # n => c[q] = b[q]
  BY <1>1 DEF Split
<1>4. c = [q \in DOMAIN b \cup {p2} |-> c[q]]
  BY DEF Split
<1> HIDE DEF c, p2, n
<1>5. \A q \in DOMAIN b :
        /\ c[q] \in Block /\ c[q].used = b[q].used
        /\ q # p => c[q].next = b[q].next
        /\ q # n => c[q].prev = b[q].prev
  BY <1>1, <1>2, <1>3 DEF Block
<1>6. /\ c[p2] \in Block /\ ~c[p2].used /\ c[p2].next = n /\ c[p2].prev = p
      /\ c[p].next = p2
      /\ n # heap_end => c[n].prev = p2
  BY <1>1, <1>2, <1>3, Bounds DEF Block, Chain
<1>7. c \in [DOMAIN c -> Block]
  BY <1>3, <1>4, <1>5, <1>6
<1>8. ASSUME NEW q \in DOMAIN c \ {heap_end}
      PROVE  /\ c[q].next \in DOMAIN c /\ q < c[q].next
             /\ \A r \in DOMAIN c : r <= q \/ c[q].next <= r
             /\ c[q].next # heap_end => c[c[q].next].prev = q
  <2>1. CASE q = p
    <3>1. \A r \in DOMAIN c : r <= p \/ p2 <= r
      <4>1. ASSUME NEW r \in DOMAIN b PROVE r <= p \/ p2 <= r
        <5>1. r \in Nat /\ n \in Nat /\ (r <= p \/ n <= r)
          BY <1>1
        <5> QED
          BY <1>1, <5>1
      <4> QED
        BY <1>1, <1>3, <4>1
    <3> QED
      BY <1>1, <1>3, <1>6, <2>1, <3>1
  <2>2. CASE q = p2
    <3>1. \A r \in DOMAIN c : r <= p2 \/ n <= r
      <4>1. ASSUME NEW r \in DOMAIN b PROVE r <= p2 \/ n <= r
        <5>1. r \in Nat /\ (r <= p \/ n <= r)
          BY <1>1
        <5> QED
          BY <1>1, <5>1
      <4> QED
        BY <1>1, <1>3, <4>1
    <3>2. c[p2].next \in DOMAIN c /\ p2 < c[p2].next
      BY <1>1, <1>3, <1>6
    <3>3. c[p2].next # heap_end => c[c[p2].next].prev = p2
      BY <1>6
    <3> QED
      BY <1>6, <2>2, <3>1, <3>2, <3>3
  <2>3. CASE q # p /\ q # p2
    <3>1. /\ q \in DOMAIN b \ {heap_end}
          /\ b[q].next \in DOMAIN b /\ q < b[q].next /\ \A r \in DOMAIN b : r <= q \/ b[q].next <= r
          /\ b[q].next # heap_end => b[b[q].next].prev = q
          /\ c[q].next = b[q].next
      BY <1>3, <1>5, <2>3 DEF Chain
    <3>2. b[q].next # n
      BY <1>1, <2>3, <3>1
    <3>3. p2 <= q \/ b[q].next <= p2
      BY <1>1, <2>3, <3>1
    <3>4. \A r \in DOMAIN c : r <= q \/ c[q].next <= r
      BY <1>1, <1>3, <2>3, <3>1, <3>3
    <3> QED
      BY <1>3, <1>5, <3>1, <3>2, <3>4
  <2> QED
    BY <2>1, <2>2, <2>3
<1>9. c[0].prev = 0 /\ c[heap_end].used
  BY <1>1, <1>3, <1>5, Bounds DEF Chain
<1>10. Chain(c)
  <2>1. DOMAIN c \subseteq 0 .. heap_end
    BY <1>1, <1>3 DEF Chain
  <2> QED
    BY <1>3, <1>7, <1>8, <1>9, <2>1 DEF Chain
<1>11. IsSplit(b, c, p, p2)
  BY <1>1, <1>3, <1>5, <1>6 DEF IsSplit, n
<1> QED
  BY <1>10, <1>11 DEF c, p2

\* A block is marked.
LEMMA MarkLemma ==
    ASSUME NEW b, Chain(b), NEW p \in DOMAIN b \ {heap_end}, NEW x \in BOOLEAN
    PROVE  LET c == [b EXCEPT ![p].used = x]
           IN  /\ Chain(c) /\ DOMAIN c = DOMAIN b /\ c[p].used = x
               /\ \A q \in DOMAIN b : c[q].next = b[q].next /\ c[q].prev = b[q].prev
               /\ \A q \in DOMAIN b \ {p} : c[q].used = b[q].used
<1> DEFINE c == [b EXCEPT ![p].used = x]
<1>1. \A q \in DOMAIN b : b[q] \in Block
  BY DEF Chain
<1>2. /\ DOMAIN c = DOMAIN b /\ c[p] = [b[p] EXCEPT !.used = x]
      /\ \A q \in DOMAIN b : q # p => c[q] = b[q]
      /\ c = [q \in DOMAIN b |-> c[q]]
  BY DEF Chain
<1> HIDE DEF c
<1>3. \A q \in DOMAIN b : c[q] \in Block /\ c[q].next = b[q].next /\ c[q].prev = b[q].prev
  BY <1>1, <1>2 DEF Block
<1>4. c[p].used = x
  BY <1>1, <1>2 DEF Block
<1>5. c \in [DOMAIN c -> Block]
  BY <1>2, <1>3
<1>6. Chain(c)
  BY <1>2, <1>3, <1>5, Bounds DEF Chain
<1> QED
  BY <1>2, <1>3, <1>4, <1>6 DEF c

-----------------------------------------------------------------------------
(* plug_holes.                                                             *)

\* A heap between two changes: its chain, and where its first free block is.
Good(s) ==
    /\ s = [block |-> s.block, lfree |-> s.lfree, used_mem |-> s.used_mem]
    /\ Chain(s.block) /\ Lowest(s.block, s.lfree)

\* The blocks in use are the same ones, and as long.
SameUsed(b, c) ==
    /\ UsedIn(c) = UsedIn(b)
    /\ \A q \in UsedIn(b) : c[q].next = b[q].next

\* No free block follows another.
Apart(b) == \A q \in FreeIn(b) : b[q].next \notin FreeIn(b)

LEMMA MergeLemma ==
    ASSUME NEW s, Good(s), NEW p \in FreeIn(s.block), NEW n \in FreeIn(s.block),
           n = s.block[p].next
    PROVE  /\ Good(Merge(s, p, n)) /\ SameUsed(s.block, Merge(s, p, n).block)
           /\ Merge(s, p, n).used_mem = s.used_mem
           /\ FreeIn(Merge(s, p, n).block) = FreeIn(s.block) \ {n}
           /\ Merge(s, p, n).block[p].next = s.block[n].next
           /\ \A q \in DOMAIN s.block \ {n, p} : Merge(s, p, n).block[q].next = s.block[q].next
           /\ p # n
<1> DEFINE b == s.block
           m == Merged(b, p, n)
           r == Merge(s, p, n)
<1>1. /\ Chain(b) /\ p \in DOMAIN b \ {heap_end} /\ n \in DOMAIN b \ {heap_end}
      /\ b[heap_end].used
  BY DEF Good, FreeIn, Chain
<1>2. /\ Chain(m) /\ DOMAIN m = DOMAIN b \ {n} /\ p \in DOMAIN m /\ m[p].next = b[n].next
      /\ \A q \in DOMAIN b \ {n} : m[q].used = b[q].used
      /\ \A q \in DOMAIN b \ {n, p} : m[q].next = b[q].next
      /\ p < n
  <2> HIDE DEF m, b
  <2>1. n = b[p].next /\ n # heap_end
    BY <1>1 DEF b
  <2> QED
    BY <1>1, <2>1, MergedLemma DEF m
<1>3. p \in Nat /\ n \in Nat /\ p # n
  <2>1. DOMAIN b \subseteq Nat
    BY <1>1, Bounds DEF Chain
  <2> HIDE DEF b, m
  <2>2. p \in Nat /\ n \in Nat /\ p < n
    BY <1>1, <1>2, <2>1
  <2> QED
    BY <2>2
<1>4. s.lfree # n
  BY <1>1, <1>2, <1>3 DEF Good, Lowest
<1>5. r = [block |-> m, lfree |-> s.lfree, used_mem |-> s.used_mem]
  <2> DEFINE rec == [block |-> b, lfree |-> s.lfree, used_mem |-> s.used_mem]
  <2>1. s = rec
    BY DEF Good
  <2>2. r = [s EXCEPT !.block = m, !.lfree = IF @ = n THEN p ELSE @]
    BY DEF Merge, Merged
  <2> HIDE DEF m, r
  <2>3. r = [rec EXCEPT !.block = m, !.lfree = IF @ = n THEN p ELSE @]
    BY <2>1, <2>2, Zenon
  <2> QED
    BY <1>4, <2>3
<1>6. r.block = m /\ r.lfree = s.lfree /\ r.used_mem = s.used_mem
  BY <1>5
<1> HIDE DEF r, m
<1>7. FreeIn(m) = FreeIn(b) \ {n}
  BY <1>1, <1>2 DEF FreeIn
<1>8. Lowest(m, s.lfree)
  BY <1>2, <1>4, <1>7 DEF Good, Lowest
<1>9. SameUsed(b, m)
  BY <1>1, <1>2 DEF SameUsed, UsedIn, FreeIn
<1> QED
  BY <1>2, <1>3, <1>5, <1>6, <1>7, <1>8, <1>9 DEF Good, r, m

LEMMA ForwardLemma ==
    ASSUME NEW s, Good(s), NEW p \in FreeIn(s.block), CoalescedBut(s.block, p)
    PROVE  LET f == Forward(s, p)
           IN  /\ Good(f) /\ SameUsed(s.block, f.block) /\ f.used_mem = s.used_mem
               /\ p \in FreeIn(f.block)
               /\ \A q \in FreeIn(f.block) : f.block[q].next \in FreeIn(f.block) =>
                                               f.block[q].next = p
<1> DEFINE b == s.block
           n == b[p].next
           f == Forward(s, p)
<1>1. /\ p \in DOMAIN b \ {heap_end} /\ n \in DOMAIN b /\ p < n /\ b[heap_end].used
      /\ DOMAIN b \subseteq Nat
  BY Bounds DEF Good, Chain, FreeIn
<1>2. CASE n \notin FreeIn(b)
  <2>1. f = s
    BY <1>1, <1>2 DEF Forward, FreeIn
  <2>2. SameUsed(b, b)
    BY DEF SameUsed
  <2> HIDE DEF f
  <2> QED
    BY <1>1, <1>2, <2>1, <2>2 DEF CoalescedBut, f
<1>3. CASE n \in FreeIn(b)
  <2>1. f = Merge(s, p, n) /\ n # heap_end
    BY <1>1, <1>3 DEF Forward, FreeIn
  <2>2. /\ Good(f) /\ SameUsed(b, f.block) /\ f.used_mem = s.used_mem
        /\ FreeIn(f.block) = FreeIn(b) \ {n} /\ p # n
        /\ f.block[p].next = b[n].next
        /\ \A q \in DOMAIN b \ {n, p} : f.block[q].next = b[q].next
    BY <1>3, <2>1, MergeLemma
  <2> HIDE DEF f
  <2>4. b[n].next \notin FreeIn(b)
    <3>1. n < b[n].next /\ b[n].next \in Nat /\ n \in Nat /\ p \in Nat
      BY <1>1, <2>1 DEF Good, Chain
    <3>2. n # p /\ b[n].next # p
      BY <1>1, <3>1
    <3> QED
      BY <1>3, <3>2 DEF CoalescedBut
  <2>5. ASSUME NEW q \in FreeIn(f.block), f.block[q].next \in FreeIn(f.block)
        PROVE  f.block[q].next = p
    <3>1. q \in FreeIn(b) /\ q # n /\ q \in DOMAIN b
      BY <2>2 DEF FreeIn
    <3>2. CASE q = p
      BY <2>2, <2>4, <2>5, <3>2
    <3>3. CASE q # p
      BY <2>2, <2>5, <3>1, <3>3 DEF CoalescedBut
    <3> QED
      BY <3>2, <3>3
  <2> QED
    BY <2>2, <2>5 DEF f
<1> QED
  BY <1>2, <1>3

LEMMA BackwardLemma ==
    ASSUME NEW s, Good(s), NEW p \in FreeIn(s.block),
           \A q \in FreeIn(s.block) : s.block[q].next \in FreeIn(s.block) => s.block[q].next = p
    PROVE  LET f == Backward(s, p)
           IN  /\ Good(f) /\ SameUsed(s.block, f.block) /\ f.used_mem = s.used_mem
               /\ Apart(f.block)
<1> DEFINE b == s.block
           r == b[p].prev
           f == Backward(s, p)
<1>1. /\ p \in DOMAIN b \ {heap_end} /\ b[heap_end].used /\ DOMAIN b \subseteq Nat
      /\ \A q \in DOMAIN b \ {heap_end} : b[q].next # heap_end => b[b[q].next].prev = q
      /\ b[0].prev = 0
  BY Bounds DEF Good, Chain, FreeIn
<1>2. p # 0 => r \in DOMAIN b \ {heap_end} /\ r < p /\ b[r].next = p
  BY <1>1, PrevLemma DEF Good
<1>3. CASE r = p \/ b[r].used
  <2>1. f = s
    BY <1>3 DEF Backward
  <2>2. SameUsed(b, b)
    BY DEF SameUsed
  <2>3. ASSUME NEW q \in FreeIn(b), b[q].next \in FreeIn(b) PROVE FALSE
    <3>1. b[q].next = p /\ q \in DOMAIN b \ {heap_end}
      BY <1>1, <2>3 DEF FreeIn
    <3>2. r = q
      BY <1>1, <3>1
    <3>3. ~b[r].used
      BY <3>2 DEF FreeIn
    <3>4. r < p
      BY <3>1, <3>2 DEF Good, Chain
    <3> QED
      BY <1>1, <1>3, <3>3, <3>4
  <2> HIDE DEF f
  <2> QED
    BY <2>1, <2>2, <2>3 DEF Apart, f
<1>4. CASE r # p /\ ~b[r].used
  <2>1. f = Merge(s, r, p) /\ p # 0
    BY <1>1, <1>4 DEF Backward
  <2>2. r \in FreeIn(b) /\ p = b[r].next
    BY <1>2, <1>4, <2>1 DEF FreeIn
  <2>3. /\ Good(f) /\ SameUsed(b, f.block) /\ f.used_mem = s.used_mem
        /\ FreeIn(f.block) = FreeIn(b) \ {p} /\ r # p
        /\ f.block[r].next = b[p].next
        /\ \A q \in DOMAIN b \ {r, p} : f.block[q].next = b[q].next
    <3> HIDE DEF r, f
    <3>1. r \in FreeIn(s.block) /\ p \in FreeIn(s.block) /\ p = s.block[r].next /\ Good(s)
      BY <2>2
    <3> DEFINE n == s.block[r].next
    <3>2. /\ Good(Merge(s, r, n)) /\ SameUsed(s.block, Merge(s, r, n).block)
          /\ Merge(s, r, n).used_mem = s.used_mem
          /\ FreeIn(Merge(s, r, n).block) = FreeIn(s.block) \ {n}
          /\ Merge(s, r, n).block[r].next = s.block[n].next
          /\ \A q \in DOMAIN s.block \ {n, r} : Merge(s, r, n).block[q].next = s.block[q].next
          /\ r # n
      <4>1. n \in FreeIn(s.block)
        BY <3>1
      <4> QED
        BY <3>1, <4>1, MergeLemma
    <3>3. n = p
      BY <3>1
    <3> HIDE DEF n
    <3> QED
      BY <2>1, <3>2, <3>3
  <2> HIDE DEF f
  <2>5. b[p].next # p
    BY <1>1 DEF Good, Chain
  <2>6. ASSUME NEW q \in FreeIn(f.block) PROVE f.block[q].next \notin FreeIn(f.block)
    <3>1. q \in FreeIn(b) /\ q # p /\ q \in DOMAIN b
      BY <2>3 DEF FreeIn
    <3>2. CASE q = r
      BY <2>3, <2>5, <3>2
    <3>3. CASE q # r
      BY <2>3, <3>1, <3>3
    <3> QED
      BY <3>2, <3>3
  <2> QED
    BY <2>3, <2>6 DEF Apart, f
<1> QED
  BY <1>3, <1>4

\* plug_holes: whatever was free beside p is one block with it, the blocks in use
\* stay as they are, and no two free blocks follow each other any more.
LEMMA PlugLemma ==
    ASSUME NEW s, Good(s), NEW p \in FreeIn(s.block), CoalescedBut(s.block, p)
    PROVE  LET f == plug_holes(s, p)
           IN  /\ Good(f) /\ SameUsed(s.block, f.block) /\ f.used_mem = s.used_mem
               /\ Apart(f.block)
<1> DEFINE g == Forward(s, p)
           f == Backward(g, p)
<1>1. /\ Good(g) /\ SameUsed(s.block, g.block) /\ g.used_mem = s.used_mem /\ p \in FreeIn(g.block)
      /\ \A q \in FreeIn(g.block) : g.block[q].next \in FreeIn(g.block) => g.block[q].next = p
  BY ForwardLemma
<1> HIDE DEF g
<1>2. /\ Good(f) /\ SameUsed(g.block, f.block) /\ f.used_mem = g.used_mem /\ Apart(f.block)
  BY <1>1, BackwardLemma
<1>3. f = plug_holes(s, p)
  BY DEF plug_holes, g
<1> HIDE DEF f
<1>4. SameUsed(s.block, f.block)
  BY <1>1, <1>2 DEF SameUsed
<1> QED
  BY <1>1, <1>2, <1>3, <1>4

-----------------------------------------------------------------------------
(* The units in use.                                                       *)

\* Those of the blocks in use, block p apart.
Others(b, p) ==
    {a \in 0 .. heap_end - 1 : \E q \in UsedIn(b) \ {p} : q <= a /\ a < b[q].next}

\* Two blocks do not overlap.
LEMMA DisjointLemma ==
    ASSUME NEW b, Chain(b), NEW p \in DOMAIN b \ {heap_end}, NEW q \in DOMAIN b \ {heap_end}, p # q
    PROVE  b[p].next <= q \/ b[q].next <= p
<1>1. /\ q <= p \/ b[p].next <= q
      /\ p <= q \/ b[q].next <= p
      /\ p \in Nat /\ q \in Nat
  BY Bounds DEF Chain
<1> QED
  BY <1>1

\* Only the blocks in use matter.
LEMMA SameUnits ==
    ASSUME NEW b, NEW c
    PROVE  /\ SameUsed(b, c) => UsedUnits(c) = UsedUnits(b)
           /\ \A p : UsedIn(c) \ {p} = UsedIn(b) /\ (\A q \in UsedIn(b) : c[q].next = b[q].next)
                       => Others(c, p) = UsedUnits(b)
           /\ \A p : UsedIn(c) \ {p} = UsedIn(b) \ {p}
                     /\ (\A q \in UsedIn(b) \ {p} : c[q].next = b[q].next)
                       => Others(c, p) = Others(b, p)
  BY DEF SameUsed, UsedUnits, UsedIn, Others

\* The units of block p, and the others.
LEMMA UnitsLemma ==
    ASSUME NEW b, Chain(b), NEW p \in UsedIn(b)
    PROVE  /\ Cardinality(UsedUnits(b)) = Cardinality(Others(b, p)) + (b[p].next - p)
           /\ Cardinality(Others(b, p)) \in Nat /\ Cardinality(UsedUnits(b)) \in 0 .. heap_end
<1> DEFINE U == Others(b, p)
           V == p .. (b[p].next - 1)
<1>1. /\ p \in DOMAIN b \ {heap_end} /\ p \in Nat /\ b[p].next \in 0 .. heap_end /\ p < b[p].next
      /\ heap_end \in Nat
  BY Bounds DEF Chain, UsedIn
<1>2. U \cap V = {}
  <2> SUFFICES ASSUME NEW a \in U, a \in V PROVE FALSE
    OBVIOUS
  <2>1. PICK q \in UsedIn(b) \ {p} : q <= a /\ a < b[q].next
    BY DEF Others
  <2>2. q \in DOMAIN b \ {heap_end} /\ q # p
    BY DEF UsedIn
  <2>3. b[p].next <= q \/ b[q].next <= p
    BY <1>1, <2>2, DisjointLemma
  <2>4. q \in Nat /\ b[q].next \in Nat /\ a \in Int /\ p <= a /\ a < b[p].next
    BY <1>1, <2>2 DEF Chain
  <2> QED
    BY <1>1, <2>1, <2>3, <2>4
<1>3. UsedUnits(b) = U \cup V
  <2>1. ASSUME NEW a \in UsedUnits(b) PROVE a \in U \cup V
    BY <1>1, <2>1 DEF UsedUnits, Others, UsedIn
  <2>2. ASSUME NEW a \in U PROVE a \in UsedUnits(b)
    BY <2>2 DEF UsedUnits, Others, UsedIn
  <2>3. ASSUME NEW a \in V PROVE a \in UsedUnits(b)
    BY <1>1, <2>3 DEF UsedUnits, UsedIn
  <2> QED
    BY <2>1, <2>2, <2>3
<1>4. IsFiniteSet(0 .. (heap_end - 1)) /\ Cardinality(0 .. (heap_end - 1)) = heap_end - 0
  BY <1>1, IntervalSize
<1>5. UsedUnits(b) \subseteq 0 .. (heap_end - 1) /\ U \subseteq 0 .. (heap_end - 1)
  BY DEF UsedUnits, Others
<1>6. IsFiniteSet(V) /\ Cardinality(V) = b[p].next - p
  BY <1>1, IntervalSize
<1> HIDE DEF U, V
<1>7. IsFiniteSet(U) /\ Cardinality(U) \in Nat
  BY <1>4, <1>5, FS_Subset, FS_CardinalityType
<1>8. Cardinality(UsedUnits(b)) \in Nat /\ Cardinality(UsedUnits(b)) <= heap_end
  <2>1. /\ IsFiniteSet(UsedUnits(b)) /\ Cardinality(UsedUnits(b)) \in Nat
        /\ Cardinality(UsedUnits(b)) <= Cardinality(0 .. (heap_end - 1))
    BY <1>4, <1>5, FS_Subset, FS_CardinalityType
  <2> QED
    BY <1>1, <1>4, <2>1
<1>9. Cardinality(U \cap V) = 0
  BY <1>2, FS_EmptySet
<1>10. Cardinality(U \cup V) = Cardinality(U) + Cardinality(V) - Cardinality(U \cap V)
  BY <1>6, <1>7, FS_Union
<1>11. Cardinality(UsedUnits(b)) = Cardinality(U) + (b[p].next - p)
  BY <1>1, <1>3, <1>6, <1>7, <1>9, <1>10
<1> QED
  BY <1>1, <1>7, <1>8, <1>11 DEF U

-----------------------------------------------------------------------------
(* The steps.                                                              *)

Counted(s) == s.used_mem = Cardinality(UsedUnits(s.block))

\* What each call leaves behind it: the heap without the callers.
Sound(s) == Good(s) /\ Apart(s.block) /\ Counted(s)

\* rt_malloc, once it has found a free block with room for size.
LEMMA AllocatedLemma ==
    ASSUME NEW s, Sound(s), NEW p \in FreeIn(s.block), NEW size \in Nat,
           size <= DataSize(s.block, p)
    PROVE  LET f == Allocated(s, p, size)
           IN  /\ Sound(f) /\ UsedIn(f.block) = UsedIn(s.block) \cup {p}
               /\ p \notin UsedIn(s.block)
               /\ \A q \in UsedIn(s.block) : f.block[q].next = s.block[q].next
               /\ p + Header + size <= f.block[p].next
<1> DEFINE b  == s.block
           p2 == p + Header + size
           Fits == DataSize(b, p) >= size + Header + MIN_SIZE
           c  == IF Fits THEN Split(b, p, size) ELSE b
           d  == [c EXCEPT ![p].used = TRUE]
           l  == IF p = s.lfree THEN NextFree(d, p) ELSE s.lfree
           f  == [block |-> d, lfree |-> l, used_mem |-> s.used_mem + (d[p].next - p)]
<1>1. f = Allocated(s, p, size)
  BY DEF Allocated
<1>2. /\ Chain(b) /\ Lowest(b, s.lfree) /\ p \in DOMAIN b \ {heap_end} /\ p \in Nat
      /\ b[p].next \in Nat /\ b[p].next \in DOMAIN b /\ ~b[p].used /\ DOMAIN b \subseteq Nat
      /\ \A q \in FreeIn(b) : b[q].next \notin FreeIn(b)
      /\ b[heap_end].used
  BY Bounds DEF Sound, Good, Chain, FreeIn, Apart
<1>3. p2 \in Nat /\ p2 <= b[p].next /\ (Fits => p2 < b[p].next)
  BY <1>2, Bounds DEF DataSize
<1> HIDE DEF Fits
<1>4. /\ Chain(c) /\ DOMAIN b \subseteq DOMAIN c /\ p \in DOMAIN c \ {heap_end}
      /\ FreeIn(b) \subseteq FreeIn(c)
      /\ \A q \in FreeIn(c) \ FreeIn(b) :
            q = p2 /\ q \notin DOMAIN b /\ p < q /\ c[q].next = b[p].next
      /\ \A q \in DOMAIN b : c[q].used = b[q].used
      /\ \A q \in DOMAIN b \ {p} : c[q].next = b[q].next
      /\ p2 <= c[p].next /\ UsedIn(c) = UsedIn(b)
  <2>1. CASE Fits
    <3>1. p + Header + size < b[p].next
      BY <1>3, <2>1
    <3>2. c = Split(b, p, size)
      BY <2>1
    <3> DEFINE e == Split(b, p, size)
    <3>3. Chain(e) /\ IsSplit(b, e, p, p2)
      <4> HIDE DEF b, c
      <4>1. Chain(b) /\ p \in DOMAIN b \ {heap_end}
        BY <1>2
      <4> QED
        BY <3>1, <4>1, SplitLemma
    <3> HIDE DEF b, c, e, p2
    <3>4. FreeIn(e) = FreeIn(b) \cup {p2} /\ UsedIn(e) = UsedIn(b)
      BY <1>2, <3>3 DEF IsSplit, FreeIn, UsedIn
    <3>5. c = e
      BY <3>2 DEF e
    <3> QED
      BY <1>2, <1>3, <3>3, <3>4, <3>5 DEF IsSplit
  <2>2. CASE ~Fits
    BY <1>2, <1>3, <2>2 DEF FreeIn, UsedIn
  <2> QED
    BY <2>1, <2>2
<1> HIDE DEF c
<1>5. /\ Chain(d) /\ DOMAIN d = DOMAIN c /\ d[p].used
      /\ \A q \in DOMAIN c : d[q].next = c[q].next
      /\ \A q \in DOMAIN c \ {p} : d[q].used = c[q].used
  BY <1>4, MarkLemma
<1> HIDE DEF d, p2
<1>6. FreeIn(d) = FreeIn(c) \ {p} /\ UsedIn(d) = UsedIn(b) \cup {p} /\ p \notin UsedIn(b)
  BY <1>2, <1>4, <1>5 DEF FreeIn, UsedIn
<1>7. \A q \in UsedIn(b) : d[q].next = b[q].next
  BY <1>4, <1>5, <1>6 DEF UsedIn
<1>8. \A q \in FreeIn(d) : p # s.lfree => s.lfree <= q
  BY <1>2, <1>3, <1>4, <1>6 DEF Lowest, FreeIn
<1>9. Lowest(d, l)
  <2>1. CASE p = s.lfree
    <3>1. \A q \in FreeIn(d) : p <= q
      BY <1>2, <1>3, <1>4, <1>6, <2>1 DEF Lowest, FreeIn
    <3> QED
      BY <1>4, <1>5, <2>1, <3>1, LowestLemma
  <2>2. CASE p # s.lfree
    <3>1. s.lfree # heap_end
      BY <1>2, Bounds DEF Lowest, Chain, FreeIn
    <3>2. s.lfree \in FreeIn(d) /\ s.lfree \in DOMAIN d
      BY <1>2, <1>4, <1>5, <1>6, <2>2, <3>1 DEF Lowest
    <3> QED
      BY <1>8, <2>2, <3>2 DEF Lowest
  <2> QED
    BY <2>1, <2>2
<1>10. Apart(d)
  <2> SUFFICES ASSUME NEW q \in FreeIn(d), d[q].next \in FreeIn(d) PROVE FALSE
    BY DEF Apart
  <2>1. q \in FreeIn(c) /\ q # p /\ q \in DOMAIN c /\ d[q].next = c[q].next /\ c[q].next \in FreeIn(c)
    BY <1>5, <1>6 DEF FreeIn
  <2>2. CASE q \in FreeIn(b)
    <3>1. c[q].next = b[q].next /\ b[q].next \in DOMAIN b /\ b[q].next \notin FreeIn(b)
      BY <1>2, <1>4, <2>1, <2>2 DEF FreeIn, Chain
    <3> QED
      BY <1>4, <2>1, <3>1
  <2>3. CASE q \notin FreeIn(b)
    <3>1. c[q].next = b[p].next
      BY <1>4, <2>1, <2>3
    <3>2. b[p].next \in DOMAIN b /\ b[p].next \notin FreeIn(b)
      BY <1>2
    <3> QED
      BY <1>4, <2>1, <3>1, <3>2
  <2> QED
    BY <2>2, <2>3
<1>11. s.used_mem + (d[p].next - p) = Cardinality(UsedUnits(d))
  <2>1. Others(d, p) = UsedUnits(b)
    <3> HIDE DEF b
    <3>1. UsedIn(d) \ {p} = UsedIn(b)
      BY <1>6
    <3> QED
      BY <1>7, <3>1, SameUnits
  <2>2. Cardinality(UsedUnits(d)) = Cardinality(Others(d, p)) + (d[p].next - p)
    BY <1>5, <1>6, UnitsLemma
  <2> QED
    BY <2>1, <2>2 DEF Sound, Counted
<1>12. Sound(f)
  BY <1>5, <1>9, <1>10, <1>11 DEF Sound, Good, Counted
<1>13. f.block = d
  OBVIOUS
<1> HIDE DEF f
<1> QED
  BY <1>1, <1>4, <1>5, <1>6, <1>7, <1>12, <1>13 DEF p2

\* rt_free of a block in use.
LEMMA FreedLemma ==
    ASSUME NEW s, Sound(s), NEW p \in UsedIn(s.block)
    PROVE  LET f == Freed(s, p)
           IN  /\ Sound(f) /\ UsedIn(f.block) = UsedIn(s.block) \ {p}
               /\ \A q \in UsedIn(s.block) \ {p} : f.block[q].next = s.block[q].next
<1> DEFINE b == s.block
           c == [b EXCEPT ![p].used = FALSE]
           l == IF p < s.lfree THEN p ELSE s.lfree
           u == s.used_mem - (b[p].next - p)
           r == [block |-> c, lfree |-> l, used_mem |-> u]
           f == plug_holes(r, p)
<1>1. f = Freed(s, p)
  BY DEF Freed
<1>2. /\ Chain(b) /\ Lowest(b, s.lfree) /\ p \in DOMAIN b \ {heap_end} /\ p \in Nat
      /\ b[p].used /\ DOMAIN b \subseteq Nat /\ b[p].next \in Nat
      /\ \A q \in FreeIn(b) : b[q].next \notin FreeIn(b)
      /\ \A q \in DOMAIN b : q <= heap_end
  BY Bounds DEF Sound, Good, Chain, UsedIn, Apart
<1>3. /\ Chain(c) /\ DOMAIN c = DOMAIN b /\ ~c[p].used
      /\ \A q \in DOMAIN b : c[q].next = b[q].next
      /\ \A q \in DOMAIN b \ {p} : c[q].used = b[q].used
  BY <1>2, MarkLemma
<1> HIDE DEF c
<1>4. FreeIn(c) = FreeIn(b) \cup {p} /\ UsedIn(c) = UsedIn(b) \ {p} /\ p \notin FreeIn(b)
  BY <1>2, <1>3 DEF FreeIn, UsedIn
<1>5. Lowest(c, l)
  BY <1>2, <1>3, <1>4 DEF Lowest, FreeIn
<1>6. Good(r)
  BY <1>3, <1>5 DEF Good
<1>7. CoalescedBut(c, p)
  BY <1>2, <1>3, <1>4 DEF CoalescedBut, FreeIn
<1>8. r.block = c /\ r.used_mem = u
  OBVIOUS
<1> HIDE DEF r
<1>9. Good(f) /\ SameUsed(c, f.block) /\ f.used_mem = u /\ Apart(f.block)
  <2>1. p \in FreeIn(r.block) /\ CoalescedBut(r.block, p)
    BY <1>4, <1>7, <1>8
  <2> QED
    BY <1>6, <1>8, <2>1, PlugLemma
<1> HIDE DEF f
<1>10. Counted(f)
  <2>1. Others(b, p) = UsedUnits(c)
    <3> HIDE DEF b
    <3>1. UsedIn(b) \ {p} = UsedIn(c) /\ \A q \in UsedIn(c) : b[q].next = c[q].next
      BY <1>3, <1>4 DEF UsedIn
    <3> QED
      BY <3>1, SameUnits
  <2>2. /\ Cardinality(UsedUnits(b)) = Cardinality(Others(b, p)) + (b[p].next - p)
        /\ Cardinality(Others(b, p)) \in Nat
    BY <1>2, UnitsLemma
  <2>3. UsedUnits(f.block) = UsedUnits(c)
    BY <1>9, SameUnits
  <2> QED
    BY <1>2, <1>9, <2>1, <2>2, <2>3 DEF Sound, Counted
<1>11. UsedIn(f.block) = UsedIn(b) \ {p} /\ \A q \in UsedIn(b) \ {p} : f.block[q].next = b[q].next
  BY <1>3, <1>4, <1>9 DEF SameUsed, UsedIn
<1> QED
  BY <1>1, <1>9, <1>10, <1>11 DEF Sound

\* rt_realloc of a block in use to a size that leaves room behind it.
LEMMA ShrunkLemma ==
    ASSUME NEW s, Sound(s), NEW p \in UsedIn(s.block), NEW size \in Nat,
           p + Header + size < s.block[p].next
    PROVE  LET f == Shrunk(s, p, size)
           IN  /\ Sound(f) /\ UsedIn(f.block) = UsedIn(s.block)
               /\ \A q \in UsedIn(s.block) \ {p} : f.block[q].next = s.block[q].next
               /\ f.block[p].next = p + Header + size
<1> DEFINE b  == s.block
           p2 == p + Header + size
           c  == Split(b, p, size)
           l  == IF p2 < s.lfree THEN p2 ELSE s.lfree
           u  == s.used_mem - (DataSize(b, p) - size)
           r  == [block |-> c, lfree |-> l, used_mem |-> u]
           f  == plug_holes(r, p2)
<1>1. f = Shrunk(s, p, size)
  BY DEF Shrunk
<1>2. /\ Chain(b) /\ Lowest(b, s.lfree) /\ p \in DOMAIN b \ {heap_end} /\ p \in Nat
      /\ b[p].used /\ DOMAIN b \subseteq Nat /\ b[p].next \in Nat
      /\ \A q \in FreeIn(b) : b[q].next \in DOMAIN b /\ b[q].next \notin FreeIn(b)
      /\ \A q \in DOMAIN b : q <= heap_end
      /\ b[heap_end].used
  BY Bounds DEF Sound, Good, Chain, UsedIn, Apart, FreeIn
<1>3. Chain(c) /\ IsSplit(b, c, p, p2)
  <2> HIDE DEF b
  <2>1. Chain(b) /\ p \in DOMAIN b \ {heap_end}
    BY <1>2
  <2>2. p + Header + size < b[p].next
    BY DEF b
  <2> QED
    BY <2>1, <2>2, SplitLemma
<1>4. p2 \in Nat
  BY <1>2, Bounds
<1>5. u = s.used_mem - (b[p].next - p2)
  BY <1>2, Bounds DEF DataSize
<1> HIDE DEF c, p2
<1>6. FreeIn(c) = FreeIn(b) \cup {p2} /\ UsedIn(c) = UsedIn(b) /\ p2 \notin FreeIn(b) /\ p2 # p
  BY <1>2, <1>3 DEF IsSplit, FreeIn, UsedIn
<1>7. Lowest(c, l)
  BY <1>2, <1>3, <1>4, <1>6 DEF Lowest, FreeIn, IsSplit
<1>8. Good(r)
  BY <1>3, <1>7 DEF Good
<1>9. CoalescedBut(c, p2)
  <2>1. \A q \in FreeIn(b) : c[q].next = b[q].next
    BY <1>2, <1>3 DEF IsSplit, FreeIn
  <2> QED
    BY <1>2, <1>6, <2>1 DEF CoalescedBut
<1>10. r.block = c /\ r.used_mem = u
  OBVIOUS
<1> HIDE DEF r, u
<1>11. Good(f) /\ SameUsed(c, f.block) /\ f.used_mem = u /\ Apart(f.block)
  <2>1. p2 \in FreeIn(r.block) /\ CoalescedBut(r.block, p2)
    BY <1>6, <1>9, <1>10
  <2> QED
    BY <1>8, <1>10, <2>1, PlugLemma
<1> HIDE DEF f
<1>12. Counted(f)
  <2>1. Others(c, p) = Others(b, p)
    <3> HIDE DEF b
    <3>1. UsedIn(c) \ {p} = UsedIn(b) \ {p} /\ \A q \in UsedIn(b) \ {p} : c[q].next = b[q].next
      BY <1>3, <1>6 DEF UsedIn, IsSplit
    <3> QED
      BY <3>1, SameUnits
  <2>2. /\ Cardinality(UsedUnits(b)) = Cardinality(Others(b, p)) + (b[p].next - p)
        /\ Cardinality(Others(b, p)) \in Nat
    BY <1>2, UnitsLemma
  <2>3. Cardinality(UsedUnits(c)) = Cardinality(Others(c, p)) + (p2 - p)
    <3>1. p \in UsedIn(c) /\ c[p].next = p2
      BY <1>3, <1>6 DEF IsSplit
    <3> QED
      BY <1>3, <3>1, UnitsLemma
  <2>4. UsedUnits(f.block) = UsedUnits(c)
    BY <1>11, SameUnits
  <2> QED
    BY <1>2, <1>4, <1>5, <1>11, <2>1, <2>2, <2>3, <2>4 DEF Sound, Counted
<1>13. /\ UsedIn(f.block) = UsedIn(b) /\ \A q \in UsedIn(b) \ {p} : f.block[q].next = b[q].next
       /\ f.block[p].next = p2
  BY <1>3, <1>6, <1>11 DEF SameUsed, UsedIn, IsSplit
<1> QED
  BY <1>1, <1>11, <1>12, <1>13 DEF Sound, p2

-----------------------------------------------------------------------------
(* The heap and what the callers have of it.                               *)

\* The blocks in use are the ones given out, each with room for what was asked.
Served(s, a) ==
    /\ Sound(s)
    /\ UsedIn(s.block) = DOMAIN a
    /\ a \in [DOMAIN a -> Sizes]
    /\ \A p \in DOMAIN a : p + Header + a[p] <= s.block[p].next

\* Blocks given out lie inside the heap, apart from one another.
LEMMA ApartLemma ==
    ASSUME NEW s, NEW a, Served(s, a)
    PROVE  /\ \A p \in DOMAIN a : p \in 0 .. heap_end - 1 /\ Header + a[p] \in {Header + n : n \in Sizes}
           /\ Promise!Apart([p \in DOMAIN a |-> Header + a[p]])
<1> DEFINE g == [p \in DOMAIN a |-> Header + a[p]]
<1>1. Chain(s.block) /\ heap_end \in Nat
  BY Bounds DEF Served, Sound, Good
<1>2. ASSUME NEW p \in DOMAIN a
      PROVE  /\ p \in DOMAIN s.block \ {heap_end} /\ p \in Nat /\ p < heap_end
             /\ a[p] \in Sizes /\ a[p] \in Nat /\ a[p] > 0
             /\ s.block[p].next \in Nat /\ s.block[p].next <= heap_end
             /\ p + g[p] <= s.block[p].next /\ g[p] = Header + a[p] /\ g[p] \in Nat /\ g[p] > 0
  <2>1. p \in UsedIn(s.block)
    BY DEF Served
  <2>2. p \in DOMAIN s.block \ {heap_end} /\ p \in Nat /\ p < heap_end
        /\ s.block[p].next \in Nat /\ s.block[p].next <= heap_end
    BY <1>1, <2>1 DEF UsedIn, Chain
  <2>3. a[p] \in Sizes /\ a[p] \in Nat /\ a[p] > 0
    BY HeapAssumption DEF Served
  <2>4. p + Header + a[p] <= s.block[p].next /\ g[p] = Header + a[p]
    BY DEF Served
  <2> HIDE DEF g
  <2> QED
    BY <2>2, <2>3, <2>4, Bounds
<1>3. DOMAIN g = DOMAIN a
  OBVIOUS
<1> HIDE DEF g
<1>4. ASSUME NEW p \in DOMAIN a, NEW q \in DOMAIN a
      PROVE  /\ g[p] > 0 /\ Promise!Cells(p, g[p]) \subseteq 0 .. heap_end - 1
             /\ p # q => Promise!Cells(p, g[p]) \cap Promise!Cells(q, g[q]) = {}
  <2>1. g[p] > 0 /\ Promise!Cells(p, g[p]) \subseteq 0 .. heap_end - 1
    BY <1>1, <1>2 DEF Promise!Cells
  <2>2. ASSUME p # q PROVE Promise!Cells(p, g[p]) \cap Promise!Cells(q, g[q]) = {}
    <3>1. s.block[p].next <= q \/ s.block[q].next <= p
      BY <1>1, <1>2, <2>2, DisjointLemma
    <3>2. p + g[p] <= q \/ q + g[q] <= p
      BY <1>2, <3>1
    <3> QED
      BY <1>2, <3>2 DEF Promise!Cells
  <2> QED
    BY <2>1, <2>2
<1>5. Promise!Apart(g)
  BY <1>3, <1>4 DEF Promise!Apart
<1> QED
  BY <1>1, <1>2, <1>5 DEF g

\* The greater of two sizes.
LEMMA NeedLemma ==
    ASSUME NEW size \in Nat
    PROVE  /\ Max({size, MIN_SIZE}) \in {size, MIN_SIZE}
           /\ size <= Max({size, MIN_SIZE}) /\ MIN_SIZE <= Max({size, MIN_SIZE})
           /\ Max({size, MIN_SIZE}) \in Nat
<1> DEFINE T == {size, MIN_SIZE}
<1>1. \E x \in T : \A y \in T : x >= y
  BY Bounds
<1>2. Max(T) \in T /\ \A y \in T : Max(T) >= y
  <2> HIDE DEF T
  <2> QED
    BY <1>1, Zenon DEF Max
<1> QED
  BY <1>2, Bounds

\* The walk of rt_malloc ends at a free block with room, and finds one if there
\* is one that does not end the heap.
LEMMA ChosenLemma ==
    ASSUME NEW size \in Nat, Good(h)
    PROVE  LET need == Max({size, MIN_SIZE})
           IN  /\ \A p \in Chosen(size) : p \in FreeIn(h.block) /\ need <= DataSize(h.block, p)
               /\ \A p \in Chosen(size) : Returned(size) = p + Header
               /\ Chosen(size) = {} => Returned(size) = NULL
               /\ Chosen(size) = {} /\ size <= mem_size =>
                     \A p \in FreeIn(h.block) :
                        DataSize(h.block, p) < need \/ p + Header + need = heap_end
<1> DEFINE need == Max({size, MIN_SIZE})
           F == Fitting(h, need)
<1>1. need \in Nat
  BY NeedLemma
<1>2. /\ Chain(h.block) /\ Lowest(h.block, h.lfree) /\ DOMAIN h.block \subseteq Nat
      /\ F \subseteq DOMAIN h.block
  BY Bounds DEF Good, Chain, Fitting
<1>3. \A p \in F : p \in FreeIn(h.block) /\ need <= DataSize(h.block, p)
  <2> SUFFICES ASSUME NEW p \in F PROVE p \in FreeIn(h.block) /\ need <= DataSize(h.block, p)
    OBVIOUS
  <2>1. p \in FreeIn(h.block) /\ DataSize(h.block, p) >= need
    BY DEF Fitting, FreeIn
  <2>2. h.block[p].next \in Nat /\ p \in Nat
    BY <1>2, <2>1, Bounds DEF Chain, FreeIn
  <2>3. DataSize(h.block, p) \in Int
    BY <2>2, Bounds DEF DataSize
  <2> HIDE DEF need
  <2> QED
    BY <1>1, <2>1, <2>3
<1>4. Chosen(size) = IF size > mem_size THEN {} ELSE {p \in F : \A q \in F : p <= q}
  BY DEF Chosen
<1> HIDE DEF F
<1>5. \A p \in Chosen(size) : p \in F
  BY <1>4
<1>6. ASSUME NEW p \in Chosen(size) PROVE Returned(size) = p + Header
  <2>1. p \in Nat /\ \A q \in Chosen(size) : q \in Nat /\ p <= q /\ q <= p
    BY <1>2, <1>4, <1>5
  <2>2. Chosen(size) = {p}
    <3>1. ASSUME NEW q \in Chosen(size) PROVE q = p
      BY <2>1
    <3> HIDE DEF Chosen
    <3> QED
      BY <3>1
  <2>3. Min({p}) = p
    <3>1. {p} \subseteq Nat /\ {p} # {}
      BY <2>1
    <3>2. Min({p}) \in {p}
      BY <3>1, MinLemma
    <3> QED
      BY <3>2
  <2> QED
    BY <2>2, <2>3 DEF Returned
<1>7. ASSUME Chosen(size) = {}, size <= mem_size, NEW p \in FreeIn(h.block)
      PROVE  DataSize(h.block, p) < need \/ p + Header + need = heap_end
  <2>1. F = {}
    <3> SUFFICES ASSUME F # {} PROVE FALSE
      OBVIOUS
    <3>1. \E x \in F : \A y \in F : x <= y
      <4>1. F \subseteq Nat
        BY <1>2
      <4> QED
        BY <4>1, LeastNat
    <3>2. ~(size > mem_size)
      BY <1>7, Bounds
    <3> QED
      BY <1>4, <1>7, <3>1, <3>2
  <2>2. /\ p \in DOMAIN h.block /\ h.lfree <= p /\ ~h.block[p].used
        /\ p \in Nat /\ h.block[p].next \in Nat /\ h.block[p].next <= heap_end
    BY <1>2, Bounds DEF FreeIn, Lowest, Chain
  <2>3. ~(p < mem_size - need /\ DataSize(h.block, p) >= need)
    BY <2>1, <2>2 DEF F, Fitting
  <2> HIDE DEF need
  <2> QED
    BY <1>1, <2>2, <2>3, Bounds DEF DataSize, heap_end
<1>8. Chosen(size) = {} => Returned(size) = NULL
  BY DEF Returned
<1> QED
  BY <1>3, <1>5, <1>6, <1>7, <1>8

\* rt_malloc: a new block, or nothing.
LEMMA MallocStep ==
    ASSUME NEW size \in Sizes, Served(h, asked), Malloc(size)
    PROVE  /\ Served(h', asked') /\ RefusedOnlyIfFull' /\ failed' \in Sizes \cup {0}
           /\ \/ Returned(size) = NULL /\ UNCHANGED <<h, asked>>
              \/ \E p \in DOMAIN asked' :
                    /\ p \notin DOMAIN asked /\ Returned(size) = p + Header
                    /\ DOMAIN asked' = DOMAIN asked \cup {p}
                    /\ asked' = [q \in DOMAIN asked \cup {p} |-> IF q = p THEN size ELSE asked[q]]
<1>1. size \in Nat /\ size > 0
  BY HeapAssumption
<1>2. Good(h) /\ Sound(h) /\ UsedIn(h.block) = DOMAIN asked
  BY DEF Served, Sound
<1> DEFINE need == Max({size, MIN_SIZE})
<1>3. /\ need \in Nat /\ size <= need
      /\ \A p \in Chosen(size) : p \in FreeIn(h.block) /\ need <= DataSize(h.block, p)
      /\ \A p \in Chosen(size) : Returned(size) = p + Header
      /\ Chosen(size) = {} => Returned(size) = NULL
      /\ Chosen(size) = {} /\ size <= mem_size =>
            \A p \in FreeIn(h.block) :
               DataSize(h.block, p) < need \/ p + Header + need = heap_end
  BY <1>1, <1>2, NeedLemma, ChosenLemma
<1>4. CASE Chosen(size) = {} /\ failed' = size /\ UNCHANGED <<h, asked>>
  <2>1. Served(h', asked')
    BY <1>4
  <2>2. RefusedOnlyIfFull'
    BY <1>3, <1>4 DEF RefusedOnlyIfFull, Headers, FreeIn, DataSize
  <2> QED
    BY <1>3, <1>4, <2>1, <2>2
<1>5. ASSUME NEW p \in Chosen(size), h' = Allocated(h, p, need),
             asked' = [q \in DOMAIN asked \cup {p} |-> IF q = p THEN size ELSE asked[q]],
             failed' = 0
      PROVE  /\ Served(h', asked') /\ RefusedOnlyIfFull'
             /\ p \in DOMAIN asked' /\ p \notin DOMAIN asked /\ Returned(size) = p + Header
             /\ DOMAIN asked' = DOMAIN asked \cup {p}
  <2>1. p \in FreeIn(h.block) /\ need <= DataSize(h.block, p)
    BY <1>3
  <2>2. /\ Sound(h') /\ UsedIn(h'.block) = UsedIn(h.block) \cup {p} /\ p \notin UsedIn(h.block)
        /\ \A q \in UsedIn(h.block) : h'.block[q].next = h.block[q].next
        /\ p + Header + need <= h'.block[p].next
    <3> HIDE DEF need
    <3> QED
      BY <1>2, <1>3, <1>5, <2>1, AllocatedLemma
  <2>3. /\ DOMAIN asked' = DOMAIN asked \cup {p} /\ asked'[p] = size
        /\ \A q \in DOMAIN asked : asked'[q] = asked[q]
    BY <1>2, <1>5, <2>2
  <2>4. asked' \in [DOMAIN asked' -> Sizes]
    BY <1>5, <2>3 DEF Served
  <2>5. p + Header + size <= h'.block[p].next
    <3>1. p \in Nat /\ h'.block[p].next \in Nat
      BY <2>2, Bounds DEF Sound, Good, Chain, UsedIn
    <3> HIDE DEF need
    <3> QED
      BY <1>1, <1>3, <2>2, <3>1, Bounds
  <2>6. \A q \in DOMAIN asked' : q + Header + asked'[q] <= h'.block[q].next
    BY <1>2, <2>2, <2>3, <2>5 DEF Served
  <2>7. Served(h', asked')
    BY <1>2, <2>2, <2>3, <2>4, <2>6 DEF Served
  <2>8. RefusedOnlyIfFull'
    BY <1>5 DEF RefusedOnlyIfFull
  <2> QED
    BY <1>2, <1>3, <2>2, <2>3, <2>7, <2>8
<1>6. \/ Chosen(size) = {} /\ failed' = size /\ UNCHANGED <<h, asked>>
      \/ \E p \in Chosen(size) :
           /\ h' = Allocated(h, p, need)
           /\ asked' = [q \in DOMAIN asked \cup {p} |-> IF q = p THEN size ELSE asked[q]]
           /\ failed' = 0
  BY DEF Malloc
<1> QED
  BY <1>4, <1>5, <1>6

\* rt_free of a block given out.
LEMMA FreeStep ==
    ASSUME NEW p \in DOMAIN asked, Served(h, asked), Free(p + Header)
    PROVE  /\ Served(h', asked') /\ RefusedOnlyIfFull' /\ failed' = 0
           /\ DOMAIN asked' = DOMAIN asked \ {p}
           /\ asked' = [q \in DOMAIN asked \ {p} |-> asked[q]]
<1>1. Sound(h) /\ UsedIn(h.block) = DOMAIN asked /\ p \in Nat
  BY Bounds DEF Served, Sound, Good, Chain, UsedIn
<1>2. (p + Header) - Header = p
  BY <1>1, Bounds
<1>3. h' = Freed(h, p) /\ asked' = [q \in DOMAIN asked \ {p} |-> asked[q]] /\ failed' = 0
  BY <1>2 DEF Free
<1>4. /\ Sound(h') /\ UsedIn(h'.block) = UsedIn(h.block) \ {p}
      /\ \A q \in UsedIn(h.block) \ {p} : h'.block[q].next = h.block[q].next
  BY <1>1, <1>3, FreedLemma
<1>5. Served(h', asked')
  BY <1>1, <1>3, <1>4 DEF Served
<1>6. RefusedOnlyIfFull'
  BY <1>3 DEF RefusedOnlyIfFull
<1> QED
  BY <1>3, <1>5, <1>6

\* rt_realloc in place.
LEMMA InPlaceStep ==
    ASSUME NEW p \in DOMAIN asked, NEW size \in Sizes, Served(h, asked),
           \/ DataSize(h.block, p) = size /\ UNCHANGED h
           \/ size + Header + MIN_SIZE < DataSize(h.block, p) /\ h' = Shrunk(h, p, size),
           asked' = [asked EXCEPT ![p] = size], failed' = 0
    PROVE  Served(h', asked') /\ RefusedOnlyIfFull' /\ DOMAIN asked' = DOMAIN asked
<1>1. /\ Sound(h) /\ UsedIn(h.block) = DOMAIN asked /\ p \in Nat /\ h.block[p].next \in Nat
      /\ size \in Nat
  BY Bounds, HeapAssumption DEF Served, Sound, Good, Chain, UsedIn
<1>2. /\ Sound(h') /\ UsedIn(h'.block) = DOMAIN asked
      /\ \A q \in DOMAIN asked \ {p} : h'.block[q].next = h.block[q].next
      /\ p + Header + size <= h'.block[p].next
  <2>1. CASE DataSize(h.block, p) = size /\ UNCHANGED h
    BY <1>1, <2>1, Bounds DEF DataSize
  <2>2. CASE size + Header + MIN_SIZE < DataSize(h.block, p) /\ h' = Shrunk(h, p, size)
    <3>1. p + Header + size < h.block[p].next
      BY <1>1, <2>2, Bounds DEF DataSize
    <3>2. p + Header + size \in Nat
      BY <1>1, Bounds
    <3>3. /\ Sound(h') /\ UsedIn(h'.block) = UsedIn(h.block)
          /\ \A q \in UsedIn(h.block) \ {p} : h'.block[q].next = h.block[q].next
          /\ h'.block[p].next = p + Header + size
      BY <1>1, <2>2, <3>1, ShrunkLemma
    <3> QED
      BY <1>1, <3>2, <3>3
  <2> QED
    BY <2>1, <2>2
<1>3. /\ DOMAIN asked' = DOMAIN asked /\ asked'[p] = size
      /\ \A q \in DOMAIN asked \ {p} : asked'[q] = asked[q]
      /\ asked' \in [DOMAIN asked -> Sizes]
  BY DEF Served
<1>4. \A q \in DOMAIN asked' : q + Header + asked'[q] <= h'.block[q].next
  BY <1>1, <1>2, <1>3 DEF Served
<1>5. Served(h', asked')
  BY <1>2, <1>3, <1>4 DEF Served
<1>6. RefusedOnlyIfFull'
  BY DEF RefusedOnlyIfFull
<1> QED
  BY <1>3, <1>5, <1>6

-----------------------------------------------------------------------------
(* The promise, call by call.                                              *)

Given(a) == [p \in DOMAIN a |-> Header + a[p]]

LEMMA GiveLemma ==
    ASSUME NEW p, NEW size \in Sizes, p \notin DOMAIN asked, Served(h', asked'),
           asked' = [q \in DOMAIN asked \cup {p} |-> IF q = p THEN size ELSE asked[q]]
    PROVE  Promise!Next
<1> DEFINE g == Given(asked)
           k == Given(asked')
<1>1. p \in 0 .. heap_end - 1 /\ Promise!Apart(k)
  <2>1. p \in DOMAIN asked'
    OBVIOUS
  <2> QED
    BY <2>1, ApartLemma DEF Given
<1>2. k = [b \in DOMAIN g \cup {p} |-> IF b = p THEN Header + size ELSE g[b]] /\ p \notin DOMAIN g
  BY DEF Given
<1>3. Promise!Give(p, Header + size)
  BY <1>1, <1>2 DEF Promise!Give, Given
<1>4. Header + size \in {Header + n : n \in Sizes}
  OBVIOUS
<1> QED
  BY <1>1, <1>3, <1>4 DEF Promise!Next

LEMMA TakeBackLemma ==
    ASSUME NEW p \in DOMAIN asked, Served(h, asked),
           asked' = [q \in DOMAIN asked \ {p} |-> asked[q]]
    PROVE  Promise!Next
<1>1. p \in 0 .. heap_end - 1
  BY ApartLemma
<1>2. Promise!TakeBack(p)
  BY DEF Promise!TakeBack
<1> QED
  BY <1>1, <1>2 DEF Promise!Next

LEMMA ResizeLemma ==
    ASSUME NEW p \in DOMAIN asked, NEW size \in Sizes, Served(h, asked), Served(h', asked'),
           asked' = [asked EXCEPT ![p] = size]
    PROVE  Promise!Next
<1> DEFINE g == Given(asked)
           k == Given(asked')
<1>1. p \in 0 .. heap_end - 1 /\ Promise!Apart(k)
  BY ApartLemma DEF Given
<1>2. asked \in [DOMAIN asked -> Sizes]
  BY DEF Served
<1>3. k = [g EXCEPT ![p] = Header + size] /\ p \in DOMAIN g
  BY <1>2 DEF Given
<1>4. Promise!Resize(p, Header + size)
  BY <1>1, <1>3 DEF Promise!Resize, Given
<1>5. Header + size \in {Header + n : n \in Sizes}
  OBVIOUS
<1> QED
  BY <1>1, <1>4, <1>5 DEF Promise!Next

-----------------------------------------------------------------------------
(* The invariant.                                                          *)

\* The pointers a call of rt_realloc works on.
Own(m) == {m.rmem, m.nmem} \ {NULL}

Move == [rmem : Nat, newsize : Sizes \cup {0}, nmem : Nat]

\* They are to blocks given out, and no other call works on them.
Moves ==
    /\ moving \in [Threads -> Move]
    /\ \A t \in Threads :
          /\ \A ptr \in Own(moving[t]) : \E p \in DOMAIN asked : ptr = p + Header
          /\ moving[t].rmem # NULL => moving[t].newsize \in Sizes
          /\ moving[t].nmem # NULL => moving[t].rmem # NULL /\ moving[t].rmem # moving[t].nmem
    /\ \A t, u \in Threads : t # u => Own(moving[t]) \cap Own(moving[u]) = {}

HInv ==
    /\ Served(h, asked)
    /\ Moves
    /\ failed \in Sizes \cup {0}
    /\ RefusedOnlyIfFull

\* A pointer of a caller.
LEMMA HeldLemma ==
    ASSUME Served(h, asked), Moves, NEW ptr \in Held
    PROVE  \E p \in DOMAIN asked :
              /\ ptr = p + Header /\ ptr - Header = p /\ ptr \in Nat /\ ptr # NULL
              /\ \A t \in Threads : ptr \notin Own(moving[t])
<1>1. PICK p \in DOMAIN asked : ptr = p + Header
  BY DEF Held
<1>2. p \in Nat
  BY Bounds DEF Served, Sound, Good, Chain, UsedIn
<1>3. \A t \in Threads : ptr \notin Own(moving[t])
  BY DEF Held, Own
<1> QED
  BY <1>1, <1>2, <1>3, Bounds DEF NULL

\* No call of rt_realloc is disturbed while its blocks stay.
LEMMA MovesKept ==
    ASSUME Moves, UNCHANGED moving,
           \A t \in Threads : \A ptr \in Own(moving[t]) : \E p \in DOMAIN asked' : ptr = p + Header
    PROVE  Moves'
  BY DEF Moves

\* One call changes what it works on.
LEMMA MovesChanged ==
    ASSUME Moves, NEW t \in Threads, NEW m \in Move, moving' = [moving EXCEPT ![t] = m],
           \A ptr \in Own(m) : \E p \in DOMAIN asked' : ptr = p + Header,
           m.rmem # NULL => m.newsize \in Sizes,
           m.nmem # NULL => m.rmem # NULL /\ m.rmem # m.nmem,
           \A u \in Threads \ {t} :
              /\ Own(m) \cap Own(moving[u]) = {}
              /\ \A ptr \in Own(moving[u]) : \E p \in DOMAIN asked' : ptr = p + Header
    PROVE  Moves'
<1>1. /\ moving' \in [Threads -> Move] /\ moving'[t] = m
      /\ \A u \in Threads \ {t} : moving'[u] = moving[u]
  BY DEF Moves
<1> QED
  BY <1>1 DEF Moves

\* The program starts in the invariant.
LEMMA HInvInit == Init => HInv
<1> SUFFICES ASSUME Init PROVE HInv
  OBVIOUS
<1> DEFINE b == h.block
<1>1. /\ DOMAIN b = {0, heap_end}
      /\ b[0] = [used |-> FALSE, next |-> heap_end, prev |-> 0]
      /\ b[heap_end] = [used |-> TRUE, next |-> heap_end, prev |-> heap_end]
      /\ b = [q \in {0, heap_end} |-> b[q]]
      /\ h = [block |-> b, lfree |-> 0, used_mem |-> 0]
  BY Bounds DEF Init
<1>2. h.lfree = 0 /\ h.used_mem = 0
  BY <1>1
<1> HIDE DEF b
<1>3. b \in [DOMAIN b -> Block]
  <2>1. b[0] \in Block
    BY <1>1, Bounds DEF Block
  <2>2. b[heap_end] \in Block
    BY <1>1, Bounds DEF Block
  <2> QED
    BY <1>1, <2>1, <2>2
<1>4. /\ b[0].used = FALSE /\ b[0].next = heap_end /\ b[0].prev = 0
      /\ b[heap_end].used = TRUE /\ b[heap_end].next = heap_end
  BY <1>1
<1>5. Chain(b)
  BY <1>1, <1>3, <1>4, Bounds DEF Chain
<1>6. FreeIn(b) = {0} /\ UsedIn(b) = {}
  BY <1>1, <1>4, Bounds DEF FreeIn, UsedIn
<1>7. Lowest(b, 0) /\ Apart(b)
  BY <1>1, <1>4, <1>6, Bounds DEF Lowest, Apart
<1>8. Cardinality(UsedUnits(b)) = 0
  <2>1. UsedUnits(b) = {}
    BY <1>6 DEF UsedUnits, UsedIn
  <2> QED
    BY <2>1, FS_EmptySet
<1>9. Sound(h)
  BY <1>1, <1>2, <1>5, <1>7, <1>8 DEF Sound, Good, Counted, b
<1>10. Served(h, asked)
  BY <1>6, <1>9 DEF Served, Init, b
<1>11. Moves
  <2>1. moving = [t \in Threads |-> NotMoving]
    BY DEF Init
  <2>2. NotMoving \in Move /\ Own(NotMoving) = {} /\ NotMoving.rmem = NULL /\ NotMoving.nmem = NULL
    BY DEF NotMoving, Move, Own, NULL
  <2> HIDE DEF NotMoving
  <2> QED
    BY <2>1, <2>2 DEF Moves
<1> QED
  BY <1>10, <1>11 DEF HInv, Init, RefusedOnlyIfFull

\* Every step keeps the invariant and is one of the promise, or changes no region.
LEMMA HInvNext == HInv /\ [Next]_vars => HInv' /\ (Promise!Next \/ Given(asked)' = Given(asked))
<1> SUFFICES ASSUME HInv, [Next]_vars
             PROVE  HInv' /\ (Promise!Next \/ Given(asked') = Given(asked))
  BY DEF Given
<1>0. Served(h, asked) /\ Moves
  BY DEF HInv
<1>a. \A t \in Threads : moving[t] \in Move
  BY <1>0 DEF Moves
<1>1. CASE rt_malloc
  <2>1. PICK size \in Sizes : Malloc(size) /\ UNCHANGED moving
    BY <1>1 DEF rt_malloc
  <2>2. /\ Served(h', asked') /\ RefusedOnlyIfFull' /\ failed' \in Sizes \cup {0}
        /\ \/ UNCHANGED asked
           \/ \E p \in DOMAIN asked' :
                 /\ p \notin DOMAIN asked
                 /\ DOMAIN asked' = DOMAIN asked \cup {p}
                 /\ asked' = [q \in DOMAIN asked \cup {p} |-> IF q = p THEN size ELSE asked[q]]
    BY <1>0, <2>1, MallocStep
  <2>3. DOMAIN asked \subseteq DOMAIN asked'
    BY <2>2
  <2>4. Moves'
    <3>1. \A t \in Threads : \A ptr \in Own(moving[t]) : \E p \in DOMAIN asked' : ptr = p + Header
      BY <1>0, <2>3 DEF Moves
    <3> QED
      BY <1>0, <2>1, <3>1, MovesKept
  <2>5. Promise!Next \/ Given(asked') = Given(asked)
    BY <2>2, GiveLemma
  <2> QED
    BY <2>2, <2>4, <2>5 DEF HInv
<1>2. CASE rt_free
  <2>1. PICK ptr \in Held : Free(ptr) /\ UNCHANGED moving
    BY <1>2 DEF rt_free
  <2>2. PICK p \in DOMAIN asked :
              /\ ptr = p + Header /\ ptr - Header = p
              /\ \A t \in Threads : ptr \notin Own(moving[t])
    BY <1>0, HeldLemma
  <2>3. Free(p + Header)
    BY <2>1, <2>2
  <2>4. /\ Served(h', asked') /\ RefusedOnlyIfFull' /\ failed' = 0
        /\ DOMAIN asked' = DOMAIN asked \ {p}
        /\ asked' = [q \in DOMAIN asked \ {p} |-> asked[q]]
    BY <1>0, <2>3, FreeStep
  <2>5. Moves'
    <3>1. \A t \in Threads : \A r \in Own(moving[t]) : \E q \in DOMAIN asked' : r = q + Header
      BY <1>0, <2>2, <2>4 DEF Moves
    <3> QED
      BY <1>0, <2>1, <3>1, MovesKept
  <2>6. Promise!Next
    BY <1>0, <2>4, TakeBackLemma
  <2> QED
    BY <2>4, <2>5, <2>6 DEF HInv
<1>3. CASE ReallocInPlace
  <2>1. PICK ptr \in Held, size \in Sizes :
           /\ \/ DataSize(h.block, ptr - Header) = size /\ UNCHANGED h
              \/ /\ size + Header + MIN_SIZE < DataSize(h.block, ptr - Header)
                 /\ h' = Shrunk(h, ptr - Header, size)
           /\ asked' = [asked EXCEPT ![ptr - Header] = size]
           /\ failed' = 0
           /\ UNCHANGED moving
    BY <1>3 DEF ReallocInPlace
  <2>2. PICK p \in DOMAIN asked : ptr - Header = p
    BY <1>0, HeldLemma
  <2>3. Served(h', asked') /\ RefusedOnlyIfFull' /\ DOMAIN asked' = DOMAIN asked
    BY <1>0, <2>1, <2>2, InPlaceStep
  <2>4. Moves'
    BY <1>0, <2>1, <2>3, MovesKept DEF Moves
  <2>5. Promise!Next
    BY <1>0, <2>1, <2>2, <2>3, ResizeLemma
  <2> QED
    BY <2>1, <2>3, <2>4, <2>5 DEF HInv
<1>4. ASSUME NEW t \in Threads, ReallocMove(t)
      PROVE  HInv' /\ (Promise!Next \/ Given(asked') = Given(asked))
  <2>1. PICK ptr \in Held, newsize \in Sizes :
           moving' = [moving EXCEPT ![t] = [rmem |-> ptr, newsize |-> newsize, nmem |-> NULL]]
    BY <1>4 DEF ReallocMove
  <2> DEFINE m == [rmem |-> ptr, newsize |-> newsize, nmem |-> NULL]
  <2>2. PICK p \in DOMAIN asked :
              /\ ptr = p + Header /\ ptr \in Nat /\ ptr # NULL
              /\ \A u \in Threads : ptr \notin Own(moving[u])
    BY <1>0, HeldLemma
  <2>3. failed' = 0 /\ UNCHANGED <<h, asked>>
    BY <1>4 DEF ReallocMove
  <2>4. m \in Move /\ Own(m) = {ptr} /\ m.newsize \in Sizes /\ m.nmem = NULL
    BY <2>2 DEF Move, Own, NULL
  <2> HIDE DEF m
  <2>5. Moves'
    <3>1. moving' = [moving EXCEPT ![t] = m]
      BY <2>1 DEF m
    <3>2. \A r \in Own(m) : \E q \in DOMAIN asked' : r = q + Header
      BY <2>2, <2>3, <2>4
    <3>3. \A u \in Threads \ {t} :
              /\ Own(m) \cap Own(moving[u]) = {}
              /\ \A r \in Own(moving[u]) : \E q \in DOMAIN asked' : r = q + Header
      BY <1>0, <2>2, <2>3, <2>4 DEF Moves
    <3> QED
      BY <1>0, <2>4, <3>1, <3>2, <3>3, MovesChanged
  <2>6. RefusedOnlyIfFull'
    BY <2>3 DEF RefusedOnlyIfFull
  <2> QED
    BY <1>0, <2>3, <2>5, <2>6 DEF HInv
<1>5. ASSUME NEW t \in Threads, ReallocMalloc(t)
      PROVE  HInv' /\ (Promise!Next \/ Given(asked') = Given(asked))
  <2> DEFINE size == moving[t].newsize
  <2>1. moving[t].rmem # NULL /\ moving[t].nmem = NULL /\ Malloc(size)
    BY <1>5 DEF ReallocMalloc
  <2>2. size \in Sizes
    BY <1>0, <2>1 DEF Moves
  <2>3. /\ Served(h', asked') /\ RefusedOnlyIfFull' /\ failed' \in Sizes \cup {0}
        /\ \/ Returned(size) = NULL /\ UNCHANGED <<h, asked>>
           \/ \E p \in DOMAIN asked' :
                 /\ p \notin DOMAIN asked /\ Returned(size) = p + Header
                 /\ DOMAIN asked' = DOMAIN asked \cup {p}
                 /\ asked' = [q \in DOMAIN asked \cup {p} |-> IF q = p THEN size ELSE asked[q]]
    <3> HIDE DEF size
    <3> QED
      BY <1>0, <2>1, <2>2, MallocStep
  <2> DEFINE ptr == Returned(size)
             m == IF ptr = NULL THEN NotMoving ELSE [moving[t] EXCEPT !.nmem = ptr]
  <2>4. moving' = [moving EXCEPT ![t] = m]
    <3>1. moving \in [Threads -> Move]
      BY <1>0 DEF Moves
    <3>2. moving' = [moving EXCEPT ![t] =
                       LET r == Returned(@.newsize)
                       IN  IF r = NULL THEN NotMoving ELSE [@ EXCEPT !.nmem = r]]
      BY <1>5 DEF ReallocMalloc
    <3> QED
      BY <3>1, <3>2
  <2>5. DOMAIN asked \subseteq DOMAIN asked'
    BY <2>3
  <2>6. /\ m \in Move
        /\ \A r \in Own(m) : r \in Own(moving[t]) \/ (ptr # NULL /\ r = ptr)
        /\ m.rmem # NULL => m.newsize \in Sizes
        /\ m.nmem # NULL => m.rmem # NULL /\ ptr # NULL /\ m.nmem = ptr /\ m.rmem \in Own(moving[t])
    <3>1. CASE ptr = NULL
      <4>1. m = NotMoving
        BY <3>1
      <4>2. NotMoving \in Move /\ Own(NotMoving) = {} /\ NotMoving.rmem = NULL /\ NotMoving.nmem = NULL
        BY DEF NotMoving, Move, Own, NULL
      <4> HIDE DEF m, ptr, NotMoving
      <4> QED
        BY <4>1, <4>2
    <3>2. CASE ptr # NULL
      <4>1. PICK p \in DOMAIN asked' : ptr = p + Header
        BY <2>3, <3>2
      <4>2. p \in Nat
        BY <2>3, Bounds DEF Served, Sound, Good, Chain, UsedIn
      <4>3. ptr \in Nat
        BY <4>1, <4>2, Bounds
      <4>4. m = [rmem |-> moving[t].rmem, newsize |-> moving[t].newsize, nmem |-> ptr]
        BY <1>a, <3>2 DEF Move
      <4>5. m.rmem = moving[t].rmem /\ m.newsize = moving[t].newsize /\ m.nmem = ptr
        BY <4>4
      <4>6. m \in Move
        BY <1>a, <4>3, <4>4 DEF Move
      <4> HIDE DEF m, ptr
      <4> QED
        BY <2>1, <2>2, <3>2, <4>5, <4>6 DEF Own
    <3> QED
      BY <3>1, <3>2
  <2> HIDE DEF m
  <2>7. ptr # NULL => \A u \in Threads : ptr \notin Own(moving[u])
    <3> SUFFICES ASSUME ptr # NULL, NEW u \in Threads, ptr \in Own(moving[u]) PROVE FALSE
      OBVIOUS
    <3>1. PICK p \in DOMAIN asked' : p \notin DOMAIN asked /\ ptr = p + Header
      BY <2>3
    <3>2. PICK q \in DOMAIN asked : ptr = q + Header
      BY <1>0 DEF Moves
    <3>3. p \in Nat /\ q \in Nat
      BY <1>0, <2>3, <2>5, Bounds DEF Served, Sound, Good, Chain, UsedIn
    <3> QED
      BY <3>1, <3>2, <3>3, Bounds
  <2>8. Moves'
    <3> HIDE DEF ptr
    <3>1. \A r \in Own(m) : \E q \in DOMAIN asked' : r = q + Header
      <4>1. ptr # NULL => \E q \in DOMAIN asked' : ptr = q + Header
        BY <2>3 DEF ptr
      <4> QED
        BY <1>0, <2>5, <2>6, <4>1 DEF Moves
    <3>2. \A u \in Threads \ {t} :
              /\ Own(m) \cap Own(moving[u]) = {}
              /\ \A r \in Own(moving[u]) : \E q \in DOMAIN asked' : r = q + Header
      BY <1>0, <2>5, <2>6, <2>7 DEF Moves
    <3>3. m.nmem # NULL => m.rmem # NULL /\ m.rmem # m.nmem
      BY <2>6, <2>7
    <3> QED
      BY <1>0, <2>4, <2>6, <3>1, <3>2, <3>3, MovesChanged
  <2>9. Promise!Next \/ Given(asked') = Given(asked)
    <3> HIDE DEF size
    <3> QED
      BY <2>2, <2>3, GiveLemma
  <2> QED
    BY <2>3, <2>8, <2>9 DEF HInv
<1>6. ASSUME NEW t \in Threads, ReallocFree(t)
      PROVE  HInv' /\ (Promise!Next \/ Given(asked') = Given(asked))
  <2>1. /\ moving[t].nmem # NULL /\ Free(moving[t].rmem)
        /\ moving' = [moving EXCEPT ![t] = NotMoving]
    BY <1>6 DEF ReallocFree
  <2>2. moving[t].rmem \in Own(moving[t])
    BY <1>0, <2>1 DEF Moves, Own
  <2>3. PICK p \in DOMAIN asked : moving[t].rmem = p + Header
    BY <1>0, <2>2 DEF Moves
  <2>4. /\ Served(h', asked') /\ RefusedOnlyIfFull' /\ failed' = 0
        /\ DOMAIN asked' = DOMAIN asked \ {p}
        /\ asked' = [q \in DOMAIN asked \ {p} |-> asked[q]]
    BY <1>0, <2>1, <2>3, FreeStep
  <2>5. NotMoving \in Move /\ Own(NotMoving) = {} /\ NotMoving.rmem = NULL /\ NotMoving.nmem = NULL
    BY DEF NotMoving, Move, Own, NULL
  <2>6. Moves'
    <3>1. \A u \in Threads \ {t} : \A r \in Own(moving[u]) : \E q \in DOMAIN asked' : r = q + Header
      BY <1>0, <2>2, <2>3, <2>4 DEF Moves
    <3> HIDE DEF NotMoving
    <3> QED
      BY <1>0, <2>1, <2>5, <3>1, MovesChanged
  <2>7. Promise!Next
    BY <1>0, <2>4, TakeBackLemma
  <2> QED
    BY <2>4, <2>6, <2>7 DEF HInv
<1>7. CASE UNCHANGED vars
  <2>1. UNCHANGED <<h, moving, asked, failed>>
    BY <1>7 DEF vars
  <2>2. Moves'
    BY <1>0, <2>1, MovesKept DEF Moves
  <2> QED
    BY <2>1, <2>2 DEF HInv, RefusedOnlyIfFull, Headers
<1> QED
  BY <1>1, <1>2, <1>3, <1>4, <1>5, <1>6, <1>7 DEF Next

-----------------------------------------------------------------------------
(* What follows from it.                                                   *)

LEMMA HInvType == HInv => TypeOK
<1> SUFFICES ASSUME HInv PROVE TypeOK
  OBVIOUS
<1> DEFINE b == h.block
<1>1. /\ Chain(b) /\ UsedIn(b) = DOMAIN asked /\ h.lfree \in DOMAIN b
      /\ h = [block |-> b, lfree |-> h.lfree, used_mem |-> h.used_mem]
      /\ asked \in [DOMAIN asked -> Sizes]
      /\ h.used_mem = Cardinality(UsedUnits(b))
  BY DEF HInv, Served, Sound, Good, Lowest, Counted
<1>2. DOMAIN b \subseteq 0 .. heap_end /\ {0, heap_end} \subseteq DOMAIN b /\ b \in [DOMAIN b -> Block]
  BY <1>1 DEF Chain
<1>3. h.used_mem \in 0 .. heap_end
  <2>1. CASE UsedIn(b) = {}
    <3>1. UsedUnits(b) = {}
      BY <2>1 DEF UsedUnits, UsedIn
    <3> QED
      BY <1>1, <3>1, FS_EmptySet, Bounds
  <2>2. CASE UsedIn(b) # {}
    <3>1. PICK p : p \in UsedIn(b)
      BY <2>2
    <3> QED
      BY <1>1, <3>1, UnitsLemma
  <2> QED
    BY <2>1, <2>2
<1>4. DOMAIN asked \subseteq DOMAIN b \ {heap_end}
  BY <1>1 DEF UsedIn
<1>5. moving \in [Threads -> [rmem : 0 .. heap_end, newsize : Sizes \cup {0}, nmem : 0 .. heap_end]]
  <2>1. Moves
    BY DEF HInv
  <2>2. ASSUME NEW t \in Threads, NEW ptr \in Own(moving[t]) PROVE ptr \in 0 .. heap_end
    <3>1. PICK p \in DOMAIN asked : ptr = p + Header
      BY <2>1 DEF Moves
    <3>2. p + Header + asked[p] <= b[p].next /\ asked[p] \in Nat /\ p \in Nat /\ b[p].next \in 0 .. heap_end
      BY <1>1, <1>4, HeapAssumption, Bounds DEF HInv, Served, Chain
    <3> QED
      BY <3>1, <3>2, Bounds
  <2>3. ASSUME NEW t \in Threads
        PROVE  moving[t] \in [rmem : 0 .. heap_end, newsize : Sizes \cup {0}, nmem : 0 .. heap_end]
    <3>1. moving[t] \in Move
      BY <2>1 DEF Moves
    <3>2. moving[t].rmem \in 0 .. heap_end /\ moving[t].nmem \in 0 .. heap_end
      BY <2>2, Bounds DEF Own, NULL
    <3> QED
      BY <3>1, <3>2 DEF Move
  <2> QED
    BY <2>1, <2>3 DEF Moves
<1>6. h \in [block : [DOMAIN b -> [used : BOOLEAN, next : 0 .. heap_end, prev : 0 .. heap_end]],
             lfree : DOMAIN b, used_mem : 0 .. heap_end]
  <2> HIDE DEF b
  <2> QED
    BY <1>1, <1>2, <1>3 DEF Block
<1> QED
  BY <1>1, <1>2, <1>4, <1>5, <1>6 DEF TypeOK, Headers, HInv

LEMMA HInvProperties == HInv => WellLinked /\ Coalesced /\ SummariesRight
<1> SUFFICES ASSUME HInv PROVE WellLinked /\ Coalesced /\ SummariesRight
  OBVIOUS
<1>1. /\ Chain(h.block) /\ UsedIn(h.block) = DOMAIN asked /\ Apart(h.block)
      /\ Lowest(h.block, h.lfree) /\ h.used_mem = Cardinality(UsedUnits(h.block))
  BY DEF HInv, Served, Sound, Good, Counted
<1>2. WellLinked
  <2>1. TypeOK
    BY HInvType
  <2> QED
    BY <1>1, <2>1 DEF WellLinked, Headers, Chain, UsedIn
<1>3. Coalesced
  <2> SUFFICES ASSUME NEW p \in DOMAIN h.block \ {heap_end}, ~h.block[p].used
               PROVE  h.block[p].next = heap_end \/ h.block[h.block[p].next].used
    BY DEF Coalesced, Headers
  <2>1. p \in FreeIn(h.block) /\ h.block[p].next \in DOMAIN h.block
    BY <1>1 DEF FreeIn, Chain
  <2> QED
    BY <1>1, <2>1 DEF Apart, FreeIn
<1>4. LowestFree
  <2>1. \A q \in FreeIn(h.block) : 0 <= q
    BY <1>1, Bounds DEF FreeIn, Chain
  <2>2. 0 \in DOMAIN h.block
    BY <1>1 DEF Chain
  <2>3. h.lfree = NextFree(h.block, 0)
    BY <1>1, <2>1, <2>2, LowestLemma
  <2> QED
    BY <2>3 DEF LowestFree
<1> QED
  BY <1>1, <1>2, <1>3, <1>4 DEF SummariesRight, UsedCounted

LEMMA HInvHolds == Spec => []HInv
<1>1. HInv /\ [Next]_vars => HInv'
  BY HInvNext
<1> QED
  BY <1>1, HInvInit, PTL DEF Spec

-----------------------------------------------------------------------------
(* The theorems.                                                           *)

\* The chain of blocks stays whole, with no gap and no loop, and a block is used
\* exactly while it is given out, whatever the threads ask for and give back
\* between the steps of a rt_realloc.
THEOREM ChainStaysWhole == Spec => []WellLinked
<1>1. HInv => WellLinked
  BY HInvProperties
<1> QED
  BY <1>1, HInvHolds, PTL

\* No two free blocks ever follow each other.
THEOREM FreeBlocksMerge == Spec => []Coalesced
<1>1. HInv => Coalesced
  BY HInvProperties
<1> QED
  BY <1>1, HInvHolds, PTL

\* lfree is the first free block and used_mem the units in use.
THEOREM SummariesStayRight == Spec => []SummariesRight
<1>1. HInv => SummariesRight
  BY HInvProperties
<1> QED
  BY <1>1, HInvHolds, PTL

\* rt_malloc refuses only what no free block has room for, but for the block that
\* ends the heap and fits exactly.
THEOREM RefusesOnlyIfFull == Spec => []RefusedOnlyIfFull
<1>1. HInv => RefusedOnlyIfFull
  BY DEF HInv
<1> QED
  BY <1>1, HInvHolds, PTL

\* The heap implements the promise of Regions: what a caller has is inside the
\* memory, as long as was asked for and apart from all else, until it is given back.
THEOREM HeapKeepsPromise == Spec => KeepsPromise
<1>1. Init => Promise!Init
  BY DEF Init, Promise!Init
<1>2. HInv /\ [Next]_vars => [Promise!Next]_[p \in DOMAIN asked |-> Header + asked[p]]
  BY HInvNext DEF Given
<1> QED
  BY <1>1, <1>2, HInvHolds, PTL DEF Spec, KeepsPromise, Promise!Spec

=============================================================================
