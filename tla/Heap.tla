-------------------------------- MODULE Heap --------------------------------
(***************************************************************************)
(* The two heaps: FreeRTOS's heap_5.c, and tcm_heap.c for the core memory, *)
(* whose blocks come back through vPortFree when they were task stacks.    *)
(*                                                                         *)
(* Memory is counted in units of 8 bytes, the size of a BlockLink_t, of a  *)
(* MemChunk and of the alignment; requests in words of 4 bytes, the finest *)
(* that the roundings tell apart. A free list is a function from the units *)
(* where its chunks begin to their sizes: the code keeps it in the order   *)
(* of addresses. Both heaps change it with the scheduler suspended or in a *)
(* critical section: each call is one step.                                *)
(***************************************************************************)
EXTENDS Integers, Sequences, FiniteSets, FiniteSetsExt

CONSTANTS
    Regions,    \* xHeapRegions, after alignment: <<first unit, units>> by address
    Tcm,        \* the core memory, in the same way
    ExtLower,   \* the addresses that vPortFree gives to the TCM heap
    ExtUpper,
    MaxWords,   \* largest request
    Null

Start(r) == Regions[r][1]
Marker(r) == Regions[r][1] + Regions[r][2] - 1
ASSUME HeapAssumption ==
    /\ Regions \in Seq(Nat \X (Nat \ {0, 1})) /\ Len(Regions) > 0
    /\ \A r, s \in 1 .. Len(Regions) : r < s => Marker(r) < Start(s)
    /\ Tcm \in Nat \X (Nat \ {0})
    /\ ExtLower \in Nat /\ ExtUpper \in Nat
    /\ ExtLower <= Tcm[1] /\ Tcm[1] + Tcm[2] <= ExtUpper
    /\ Marker(Len(Regions)) < ExtLower
    /\ MaxWords \in Nat
    /\ Null \notin Int \cup ({"heap", "tcm"} \X (0 .. MaxWords) \X (Nat \cup {Null}))

VARIABLES
    free,       \* the list from xStart, without pxEnd: unit |-> xBlockSize
    end,        \* pxEnd
    remaining,  \* xFreeBytesRemaining
    used,       \* unit |-> xBlockSize of the blocks with xBlockAllocatedBit
    tcmFree,    \* g_tcm_heap.FreeList
    tcmInited,  \* g_heap_inited
    tcmUsed,    \* unit |-> size that is kept before the block
    answer      \* the request just answered: the heap, the words, the block

heapVars == <<free, end, remaining, used>>
tcmVars  == <<tcmFree, tcmInited, tcmUsed>>
vars     == <<heapVars, tcmVars, answer>>

Ask == 0 .. MaxWords
NoBlock == [a \in {} |-> 0]
With(f, a, n) == [x \in DOMAIN f \cup {a} |-> IF x = a THEN n ELSE f[x]]
Without(f, S) == [x \in DOMAIN f \ S |-> f[x]]
Sizes(f) == MapThenSumSet(LAMBDA a : f[a], DOMAIN f)

Init ==
    /\ free = NoBlock /\ used = NoBlock
    /\ end = Null /\ remaining = 0
    /\ tcmFree = NoBlock /\ tcmUsed = NoBlock /\ tcmInited = FALSE
    /\ answer = Null

-----------------------------------------------------------------------------
(* The free lists.                                                         *)

InsertUnmerged(list, last, a, n) == With(list, a, n)                  \* mutant
(* prvInsertBlockIntoFreeList: the block is merged with the chunk it is    *)
(* inserted after and with the one before which it is inserted, unless     *)
(* that is pxEnd. The mark of an earlier region's end, a chunk of size 0,  *)
(* is swallowed like any other. In tcm_heap_freemem no mark ends the list. *)
Insert(list, last, a, n) ==
    LET lower == {x \in DOMAIN list : x < a}
        upper == {x \in DOMAIN list : x > a} \cup ({last} \ {Null})
        joins == lower # {} /\ Max(lower) + list[Max(lower)] = a
        first == IF joins THEN Max(lower) ELSE a
        size  == IF joins THEN list[first] + n ELSE n
        meets == upper # {} /\ first + size = Min(upper) /\ Min(upper) # last
    IN  IF meets
        THEN With(Without(list, {Min(upper)}), first, size + list[Min(upper)])
        ELSE With(list, first, size)

(* The chunks that a request of n units can be cut from.                   *)
Enough(list, n) == {a \in DOMAIN list : list[a] >= n}

-----------------------------------------------------------------------------
(* heap_5.c                                                                *)

(* vPortDefineHeapRegions, which the first pvPortMalloc calls: one chunk   *)
(* and a mark for each region; the last mark is pxEnd.                     *)
LastRegion == Len(Regions)
Marks == {Marker(r) : r \in 1 .. LastRegion}
DefinedList ==
    [a \in {Start(r) : r \in 1 .. LastRegion} \cup (Marks \ {Marker(LastRegion)}) |->
        Min({m \in Marks : m >= a}) - a]

List == IF end = Null THEN DefinedList ELSE free
End == IF end = Null THEN Marker(LastRegion) ELSE end
Remaining == IF end = Null THEN Sizes(DefinedList) ELSE remaining

(* The request, with a BlockLink_t, rounded up. None for an empty one.     *)
Units(w) == IF w = 0 THEN 0 ELSE (w + 1) \div 2 + 1

MinimumBlock == 2
SplitsNever(size, n) == FALSE                                         \* mutant
Splits(size, n) == size - n > MinimumBlock
TakenAsAsked(size, n) == n                                            \* mutant
(* What the block returned is counted for.                                 *)
Taken(size, n) == IF Splits(size, n) THEN n ELSE size

(* pvPortMalloc: the first chunk that is large enough, whole or split.     *)
Malloc(w) ==
    LET n == Units(w)
        found == n > 0 /\ n <= Remaining /\ Enough(List, n) # {}
        a == Min(Enough(List, n))
        size == List[a]
        rest == Without(List, {a})
    IN  /\ end' = End
        /\ IF found
           THEN /\ free' = IF Splits(size, n) THEN Insert(rest, End, a + n, size - n) ELSE rest
                /\ used' = With(used, a, IF Splits(size, n) THEN n ELSE size)
                /\ remaining' = Remaining - Taken(size, n)
                /\ answer' = <<"heap", w, a>>
           ELSE /\ free' = List
                /\ remaining' = Remaining
                /\ answer' = <<"heap", w, Null>>
                /\ used' = used
        /\ UNCHANGED tcmVars

(* __vPortFree *)
PortFree(a) ==
    /\ a \in DOMAIN used
    /\ remaining' = remaining + used[a]
    /\ free' = Insert(free, end, a, used[a])
    /\ used' = Without(used, {a})
    /\ answer' = Null
    /\ UNCHANGED <<end, tcmVars>>

-----------------------------------------------------------------------------
(* tcm_heap.c                                                              *)

(* tcm_heap_init *)
TcmList == IF tcmInited THEN tcmFree ELSE With(NoBlock, Tcm[1], Tcm[2])

(* A word for the size, rounded up to chunks.                              *)
TcmUnits(w) == (w + 2) \div 2

TcmCutFromStart(a, size, n) == a                                      \* mutant
(* A block is cut from the end of its chunk.                               *)
TcmCut(a, size, n) == a + size - n

(* tcm_heap_malloc, tcm_heap_allocmem                                      *)
TcmMalloc(w) ==
    LET n == TcmUnits(w)
        a == Min(Enough(TcmList, n))
        size == TcmList[a]
    IN  /\ tcmInited' = TRUE
        /\ IF Enough(TcmList, n) # {}
           THEN /\ tcmFree' = IF size = n THEN Without(TcmList, {a}) ELSE With(TcmList, a, size - n)
                /\ tcmUsed' = With(tcmUsed, TcmCut(a, size, n), n)
                /\ answer' = <<"tcm", w, TcmCut(a, size, n)>>
           ELSE /\ tcmFree' = TcmList
                /\ answer' = <<"tcm", w, Null>>
                /\ tcmUsed' = tcmUsed
        /\ UNCHANGED heapVars

(* tcm_heap_free, tcm_heap_freemem                                         *)
TcmHeapFree(a) ==
    /\ a \in DOMAIN tcmUsed
    /\ tcmFree' = Insert(tcmFree, Null, a, tcmUsed[a])
    /\ tcmUsed' = Without(tcmUsed, {a})
    /\ answer' = Null
    /\ UNCHANGED <<tcmInited, heapVars>>

-----------------------------------------------------------------------------
(* vPortFree: by the address. _rtw_vmfree dispatches in the same way.      *)
Ext(a) == ExtLower <= a /\ a < ExtUpper
Free(a) == IF Ext(a) THEN TcmHeapFree(a) ELSE PortFree(a)

Next ==
    \/ \E w \in Ask : Malloc(w) \/ TcmMalloc(w)
    \/ \E a \in DOMAIN used \cup DOMAIN tcmUsed : Free(a)

Spec == Init /\ [][Next]_vars

-----------------------------------------------------------------------------
(* Properties.                                                             *)

Area == {<<Start(r), Marker(r)>> : r \in 1 .. LastRegion}
TcmArea == {<<Tcm[1], Tcm[1] + Tcm[2]>>}
InAreas(S) == UNION {x[1] .. x[2] - 1 : x \in S}
Covered(f) == UNION {a .. a + f[a] - 1 : a \in DOMAIN f}

TypeOK ==
    /\ DOMAIN free \subseteq InAreas(Area) \cup Marks
    /\ \A a \in DOMAIN free : free[a] \in Nat
    /\ end \in {Null, Marker(LastRegion)}
    /\ remaining \in 0 .. Cardinality(InAreas(Area))
    /\ DOMAIN used \subseteq InAreas(Area) /\ \A a \in DOMAIN used : used[a] \in Nat \ {0}
    /\ DOMAIN tcmFree \subseteq InAreas(TcmArea) /\ \A a \in DOMAIN tcmFree : tcmFree[a] \in Nat \ {0}
    /\ tcmInited \in BOOLEAN
    /\ DOMAIN tcmUsed \subseteq InAreas(TcmArea) /\ \A a \in DOMAIN tcmUsed : tcmUsed[a] \in Nat \ {0}
    /\ answer = Null \/ answer \in {"heap", "tcm"} \X Ask \X (Nat \cup {Null})

(* The chunks of a list are exactly the stretches between the blocks held, *)
(* as long as they can be.                                                 *)
Gaps(held, areas) ==
    LET open == InAreas(areas) \ Covered(held)
    IN  {g \in open \X (1 .. Cardinality(open)) :
            /\ g[1] .. g[1] + g[2] - 1 \subseteq open
            /\ g[1] - 1 \notin open /\ g[1] + g[2] \notin open}
Chunks(list) == {<<a, list[a]>> : a \in {x \in DOMAIN list : list[x] > 0}}

(* Nothing is lost from either free list, nothing in it is in use, and     *)
(* free neighbours are always merged: after any calls memory is as little  *)
(* fragmented as its holders allow.                                        *)
FreeListIsGaps ==
    /\ end # Null => Chunks(free) = Gaps(used, Area)
    /\ tcmInited => Chunks(tcmFree) = Gaps(tcmUsed, TcmArea)

(* xFreeBytesRemaining, which decides whether a request is tried at all,   *)
(* is what the free list holds.                                            *)
FreeBytesExact == remaining = Sizes(free)

(* Both heaps are allocators: a task never gets memory that another holds, *)
(* and is refused only when no free stretch is long enough.                *)
AnswerOf(heap) ==
    IF answer # Null /\ answer[1] = heap THEN Tail(answer) ELSE Null
HeapAllocator == INSTANCE BlockAllocator WITH
    Slack <- MinimumBlock, Nowhere <- Null, held <- used, answer <- AnswerOf("heap")
ImplementsHeap == HeapAllocator!Spec
TcmAllocator == INSTANCE BlockAllocator WITH
    Area <- TcmArea, Units <- TcmUnits, Slack <- 0, Nowhere <- Null,
    held <- tcmUsed, answer <- AnswerOf("tcm")
ImplementsTcm == TcmAllocator!Spec
=============================================================================
