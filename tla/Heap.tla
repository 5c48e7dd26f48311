-------------------------------- MODULE Heap --------------------------------
(***************************************************************************)
(* The heap of the program: rt_malloc, rt_realloc and rt_free of           *)
(* RT-Thread/src/mem.c, which the kernel, the file system and the threads  *)
(* share.                                                                  *)
(*                                                                         *)
(* The memory is a chain of blocks, each a header and the caller's data;   *)
(* addresses and sizes are in units of RT_ALIGN_SIZE, from heap_ptr.  What *)
(* is done with heap_sem taken is one step; rt_realloc takes it up to three*)
(* times, and other threads allocate and free between.                     *)
(***************************************************************************)
EXTENDS Integers, FiniteSets, FiniteSetsExt

CONSTANTS
    Header,         \* SIZEOF_STRUCT_MEM
    MIN_SIZE,       \* the least room for data rt_malloc makes
    mem_size,       \* mem_size_aligned: the heap without two headers
    Sizes,          \* sizes asked for, aligned
    Threads         \* that may be in rt_realloc

ASSUME HeapAssumption ==
    /\ Header \in Nat \ {0} /\ MIN_SIZE \in Nat \ {0}
    /\ mem_size \in Nat /\ mem_size >= MIN_SIZE
    /\ Sizes \subseteq Nat \ {0}

NULL == 0

VARIABLES
    h,          \* the heap: see Init
    moving,     \* of each thread: the call of rt_realloc that moves its block,
                \* with rmem = NULL if there is none, nmem = NULL before rt_malloc
    asked,      \* history: of each block given out, by its header, the size asked
    failed      \* history: the size rt_malloc has just refused, or 0

vars == <<h, moving, asked, failed>>

heap_end == mem_size + Header
NotMoving == [rmem |-> NULL, newsize |-> 0, nmem |-> NULL]

\* rt_system_heap_init
Init ==
    /\ h = [block |-> [p \in {0, heap_end} |->
                         IF p = 0 THEN [used |-> FALSE, next |-> heap_end, prev |-> 0]
                         ELSE [used |-> TRUE, next |-> heap_end, prev |-> heap_end]],
            lfree |-> 0, used_mem |-> 0]
    /\ moving = [t \in Threads |-> NotMoving]
    /\ asked = [p \in {} |-> 0]
    /\ failed = 0

\* (Variant of DataSize: the header is counted as room.)
DataSizeWithHeader(b, p) == b[p].next - p

DataSize(b, p) == b[p].next - (p + Header)

-----------------------------------------------------------------------------
(* plug_holes                                                              *)

\* Block n becomes part of p, the one before it.
Merge(s, p, n) ==
    LET b == s.block
    IN  [s EXCEPT !.block = [q \in DOMAIN b \ {n} |->
                               IF q = p THEN [b[p] EXCEPT !.next = b[n].next]
                               ELSE IF q = b[n].next THEN [b[q] EXCEPT !.prev = p]
                               ELSE b[q]],
                  !.lfree = IF @ = n THEN p ELSE @]

\* (Variant of Forward: the next block is taken in though it is used.)
ForwardUsed(s, p) ==
    LET n == s.block[p].next
    IN  IF n # heap_end THEN Merge(s, p, n) ELSE s

Forward(s, p) ==
    LET n == s.block[p].next
    IN  IF ~s.block[n].used /\ n # heap_end THEN Merge(s, p, n) ELSE s

Backward(s, p) ==
    LET r == s.block[p].prev
    IN  IF r # p /\ ~s.block[r].used THEN Merge(s, r, p) ELSE s

\* (Variant of plug_holes: forward only.)
PlugForward(s, p) == Forward(s, p)

plug_holes(s, p) == Backward(Forward(s, p), p)

-----------------------------------------------------------------------------
(* What is done to the heap with heap_sem taken.                           *)

\* (Variant of Split: prev of the header behind is not set.)
SplitKeepingPrev(b, p, size) ==
    LET p2 == p + Header + size
    IN  [q \in DOMAIN b \cup {p2} |->
           IF q = p2 THEN [used |-> FALSE, next |-> b[p].next, prev |-> p]
           ELSE IF q = p THEN [b[p] EXCEPT !.next = p2]
           ELSE b[q]]

\* A block keeps the first size units of its data, and a free one follows.
Split(b, p, size) ==
    LET p2 == p + Header + size
    IN  [q \in DOMAIN b \cup {p2} |->
           IF q = p2 THEN [used |-> FALSE, next |-> b[p].next, prev |-> p]
           ELSE IF q = p THEN [b[p] EXCEPT !.next = p2]
           ELSE IF q = b[p].next /\ q # heap_end THEN [b[q] EXCEPT !.prev = p2]
           ELSE b[q]]

\* (Variant of Fitting: a fit must leave room to spare.)
FittingLoose(s, size) ==
    {p \in DOMAIN s.block : /\ s.lfree <= p /\ p < mem_size - size
                            /\ ~s.block[p].used /\ DataSize(s.block, p) > size}

\* Where the walk of rt_malloc from lfree may stop.  The walk follows next, so
\* it meets the headers in the order of their addresses.
Fitting(s, size) ==
    {p \in DOMAIN s.block : /\ s.lfree <= p /\ p < mem_size - size
                            /\ ~s.block[p].used /\ DataSize(s.block, p) >= size}

NextFree(b, p) == Min({q \in DOMAIN b : p <= q /\ (q = heap_end \/ ~b[q].used)})

Allocated(s, p, size) ==
    LET b == IF DataSize(s.block, p) >= size + Header + MIN_SIZE
             THEN Split(s.block, p, size) ELSE s.block
        taken == [b EXCEPT ![p].used = TRUE]
    IN  [block |-> taken,
         lfree |-> IF p = s.lfree THEN NextFree(taken, p) ELSE s.lfree,
         used_mem |-> s.used_mem + (taken[p].next - p)]

\* (Variant of Freed: lfree is not lowered.)
FreedAbove(s, p) ==
    plug_holes([block |-> [s.block EXCEPT ![p].used = FALSE],
                lfree |-> s.lfree,
                used_mem |-> s.used_mem - (s.block[p].next - p)], p)

Freed(s, p) ==
    plug_holes([block |-> [s.block EXCEPT ![p].used = FALSE],
                lfree |-> IF p < s.lfree THEN p ELSE s.lfree,
                used_mem |-> s.used_mem - (s.block[p].next - p)], p)

\* (Variant of Shrunk: the header of the new free block is counted as given back.)
ShrunkWithHeader(s, p, newsize) ==
    LET p2 == p + Header + newsize
    IN  plug_holes([block |-> Split(s.block, p, newsize),
                    lfree |-> IF p2 < s.lfree THEN p2 ELSE s.lfree,
                    used_mem |-> s.used_mem - (s.block[p].next - p2 + Header)], p2)

\* rt_realloc of a block that is split in place.
Shrunk(s, p, newsize) ==
    LET p2 == p + Header + newsize
    IN  plug_holes([block |-> Split(s.block, p, newsize),
                    lfree |-> IF p2 < s.lfree THEN p2 ELSE s.lfree,
                    used_mem |-> s.used_mem - (DataSize(s.block, p) - newsize)], p2)

-----------------------------------------------------------------------------
\* Where the block is that rt_malloc(size) takes: the first one, if any.
Chosen(size) ==
    IF size > mem_size THEN {}
    ELSE {p \in Fitting(h, Max({size, MIN_SIZE})) :
            \A q \in Fitting(h, Max({size, MIN_SIZE})) : p <= q}

\* What rt_malloc(size) returns.
Returned(size) == IF Chosen(size) = {} THEN NULL ELSE Min(Chosen(size)) + Header

\* rt_malloc
Malloc(size) ==
    \/ /\ Chosen(size) = {}
       /\ failed' = size
       /\ UNCHANGED <<h, asked>>
    \/ \E p \in Chosen(size) :
          /\ h' = Allocated(h, p, Max({size, MIN_SIZE}))
          /\ asked' = [q \in DOMAIN asked \cup {p} |-> IF q = p THEN size ELSE asked[q]]
          /\ failed' = 0

Free(ptr) ==
    /\ h' = Freed(h, ptr - Header)
    /\ asked' = [q \in DOMAIN asked \ {ptr - Header} |-> asked[q]]
    /\ failed' = 0

\* The pointers a caller has that no rt_realloc is at work on.
Held == {p + Header : p \in DOMAIN asked}
          \ UNION {{moving[t].rmem, moving[t].nmem} : t \in Threads}

rt_malloc == \E size \in Sizes : Malloc(size) /\ UNCHANGED moving

rt_free == \E ptr \in Held : Free(ptr) /\ UNCHANGED moving

\* rt_realloc to the size there is, or to one that leaves room for a block.
ReallocInPlace ==
    \E ptr \in Held, newsize \in Sizes :
        LET p == ptr - Header
        IN  /\ newsize <= mem_size
            /\ \/ DataSize(h.block, p) = newsize /\ UNCHANGED h
               \/ /\ newsize + Header + MIN_SIZE < DataSize(h.block, p)
                  /\ h' = Shrunk(h, p, newsize)
            /\ asked' = [asked EXCEPT ![p] = newsize]
            /\ failed' = 0
            /\ UNCHANGED moving

\* rt_realloc of any other block, to its first rt_sem_release.
ReallocMove(t) ==
    /\ moving[t] = NotMoving
    /\ \E ptr \in Held, newsize \in Sizes :
          LET size == DataSize(h.block, ptr - Header)
          IN  /\ newsize <= mem_size
              /\ size # newsize /\ newsize + Header + MIN_SIZE >= size
              /\ moving' = [moving EXCEPT ![t] = [rmem |-> ptr, newsize |-> newsize, nmem |-> NULL]]
    /\ failed' = 0
    /\ UNCHANGED <<h, asked>>

\* Its rt_malloc; if that fails the call returns NULL, and the block stays.
ReallocMalloc(t) ==
    /\ moving[t].rmem # NULL /\ moving[t].nmem = NULL
    /\ Malloc(moving[t].newsize)
    /\ moving' = [moving EXCEPT ![t] = LET ptr == Returned(@.newsize)
                                       IN  IF ptr = NULL THEN NotMoving ELSE [@ EXCEPT !.nmem = ptr]]

\* The copy, and its rt_free.
ReallocFree(t) ==
    /\ moving[t].nmem # NULL
    /\ Free(moving[t].rmem)
    /\ moving' = [moving EXCEPT ![t] = NotMoving]

Next ==
    \/ rt_malloc \/ rt_free \/ ReallocInPlace
    \/ \E t \in Threads : ReallocMove(t) \/ ReallocMalloc(t) \/ ReallocFree(t)

Spec == Init /\ [][Next]_vars

-----------------------------------------------------------------------------
(* Properties.                                                             *)

Headers == DOMAIN h.block

\* Types, and: lfree and the blocks given out are headers of the chain.
TypeOK ==
    /\ Headers \subseteq 0 .. heap_end /\ {0, heap_end} \subseteq Headers
    /\ h \in [block : [Headers -> [used : BOOLEAN, next : 0 .. heap_end, prev : 0 .. heap_end]],
              lfree : Headers, used_mem : 0 .. heap_end]
    /\ DOMAIN asked \subseteq Headers \ {heap_end} /\ asked \in [DOMAIN asked -> Sizes]
    /\ moving \in [Threads -> [rmem : 0 .. heap_end, newsize : Sizes \cup {0}, nmem : 0 .. heap_end]]
    /\ failed \in Sizes \cup {0}

\* Types, and the chain: next leads from each header to the next one there is, prev back
\* again, the first and the last header stay, and a block is used exactly while
\* it is given out.  Blocks split and merged in any order, also by a thread
\* between the three steps of another's rt_realloc, leave no gap and no loop.
WellLinked == TypeOK /\
    \A p \in Headers \ {heap_end} :
        LET n == h.block[p].next
        IN  /\ n \in Headers /\ p < n /\ \A q \in Headers : q <= p \/ n <= q
            /\ n # heap_end => h.block[n].prev = p
            /\ h.block[p].used <=> p \in DOMAIN asked
            /\ h.block[0].prev = 0 /\ h.block[heap_end].used

\* No two free blocks follow each other (a comment of rt_malloc relies on it),
\* so memory given back can be given out as one piece; when all is back the heap
\* is one block as it was at the start.
Coalesced ==
    \A p \in Headers \ {heap_end} :
        ~h.block[p].used => h.block[p].next = heap_end \/ h.block[h.block[p].next].used

\* lfree is the first free block, or heap_end.
LowestFree == h.lfree = NextFree(h.block, 0)

\* used_mem is the number of units in the blocks in use, their headers with them.
UsedUnits(b) ==
    {a \in 0 .. heap_end - 1 :
        \E p \in DOMAIN b \ {heap_end} : b[p].used /\ p <= a /\ a < b[p].next}

UsedCounted == h.used_mem = Cardinality(UsedUnits(h.block))

\* What is kept about the chain is what the chain says, through splits, near fits
\* and shrinking in place: lfree, or a search that began behind a free block would
\* never find it again, and used_mem, which list_mem prints.
SummariesRight == LowestFree /\ UsedCounted

\* rt_malloc refuses a size only if no free block has room for it; but a free
\* block at the end of the heap that fits exactly is passed over (mem.c:306
\* compares with <).
RefusedOnlyIfFull ==
    failed # 0 /\ failed <= mem_size =>
        \A p \in Headers : ~h.block[p].used =>
            LET need == Max({failed, MIN_SIZE})
            IN  DataSize(h.block, p) < need \/ p + Header + need = heap_end

\* Each pointer a caller has is to a region of at least the size asked for, with
\* its header in front, inside the heap and apart from every other, until it gives
\* it back; a call for one changes no other.
Promise == INSTANCE Regions WITH
    Memory <- 0 .. heap_end - 1,
    Lengths <- {Header + n : n \in Sizes},
    given <- [p \in DOMAIN asked |-> Header + asked[p]]

\* The heap keeps that promise.
KeepsPromise == Promise!Spec
=============================================================================
