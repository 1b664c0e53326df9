-------------------------------- MODULE Heap --------------------------------
(***************************************************************************)
(* The kernel heap, kernel/mm/heap.c: a first-fit free list, sorted by     *)
(* address, over runs of pages taken from the physical memory manager.     *)
(*                                                                         *)
(* Addresses are byte addresses.  A block is a header of Header bytes and  *)
(* a payload.  Sizes stay far below the width of size_t.  The magic        *)
(* numbers and the poison have no counterpart: every block is known to be  *)
(* in the free list or allocated.  Callers free what they were given, once,*)
(* and pass alignments that are powers of two from 16 on (heap.h); then    *)
(* the lower bound of 16 on need never applies.                            *)
(***************************************************************************)
EXTENDS Integers, Sequences, FiniteSetsExt

CONSTANTS Header,        \* sizeof(heap_block_t)
          HeapAlign,     \* HEAP_ALIGN
          MinBlock,      \* HEAP_MIN_BLOCK
          PtrSize,       \* sizeof(void *)
          PageSize,      \* PAGE_SIZE
          ExpandPages,   \* HEAP_EXPAND_PAGES
          Sizes, Aligns, \* the arguments callers use
          MaxAddr,       \* end of the physical memory
          MaxLive        \* bound on the number of allocated blocks

ASSUME HeapAssumption ==
    /\ {Header, HeapAlign, MinBlock, PtrSize, PageSize, ExpandPages, MaxAddr, MaxLive} \subseteq Nat \ {0}
    /\ Sizes \subseteq Nat \ {0} /\ Aligns \subseteq Nat \ {0}

VARIABLES free_list,     \* the blocks of the list: records addr, size
          live,          \* allocated blocks: addr, size, and what the caller got
          heap_total, heap_used, heap_ready,
          arenas         \* the runs of pages the heap has taken: addr, size

vars == <<free_list, live, heap_total, heap_used, heap_ready, arenas>>

Block(addr, size) == [addr |-> addr, size |-> size]

\* The first byte after a block.
End(b) == b.addr + Header + b.size

Init == /\ free_list = << >> /\ live = {} /\ arenas = {}
        /\ heap_total = 0 /\ heap_used = 0 /\ heap_ready = FALSE

align_up(v, a) == ((v + a - 1) \div a) * a

-----------------------------------------------------------------------------
(* insert_free *)

\* Where the walk stops: the first block of the list that is not before addr.
Position(list, addr) ==
    CHOOSE k \in 1 .. Len(list) + 1 :
        /\ \A i \in 1 .. k - 1 : list[i].addr < addr
        /\ k <= Len(list) => list[k].addr >= addr

Merged_NoHeader(a, b) == Block(a.addr, a.size + b.size)

\* The header of the second block becomes payload.
Merged(a, b) == Block(a.addr, a.size + Header + b.size)

\* The list with b linked in as its k-th block.
Linked(list, k, b) == SubSeq(list, 1, k - 1) \o <<b>> \o SubSeq(list, k, Len(list))

\* A block that is merged with the one after it is not merged with the one
\* before it.
insert_free(list, b) ==
    LET k == Position(list, b.addr) IN
    IF k <= Len(list) /\ End(b) = list[k].addr
    THEN [list EXCEPT ![k] = Merged(b, @)]
    ELSE IF k > 1 /\ End(list[k - 1]) = b.addr
         THEN [list EXCEPT ![k - 1] = Merged(@, b)]
         ELSE Linked(list, k, b)

-----------------------------------------------------------------------------
(* expand_heap *)

ExpandedBytes(need) ==
    LET pages == (Header + need + MinBlock + PageSize - 1) \div PageSize
    IN  (IF pages < ExpandPages THEN ExpandPages ELSE pages) * PageSize

\* What pmm_alloc_pages may return: pages that are not in the heap, after the
\* kernel, and other users of the memory manager may have taken the ones
\* directly behind the heap.
NewArenas(bytes) ==
    {[addr |-> a, size |-> bytes] :
        a \in {PageSize * i : i \in 1 .. (MaxAddr - bytes) \div PageSize}}

Unused(ar) == \A o \in arenas : o.addr + o.size <= ar.addr \/ ar.addr + ar.size <= o.addr

expand_heap(ar) ==
    insert_free(free_list, Block(ar.addr, ar.size - Header))

heap_init ==
    /\ ~heap_ready
    /\ \E ar \in NewArenas(ExpandedBytes(PageSize)) :
          /\ free_list' = expand_heap(ar)
          /\ arenas' = {ar}
          /\ heap_total' = ar.size
    /\ heap_ready' = TRUE
    /\ heap_used' = 0 /\ UNCHANGED live

-----------------------------------------------------------------------------
(* kmalloc_aligned; kmalloc is kmalloc_aligned with HeapAlign *)

Need_NoPointer(size, align) == IF align > HeapAlign THEN size + align ELSE align_up(size, HeapAlign)

\* Over-aligned: room for the padding and for a pointer to the block.
Need(size, align) == IF align > HeapAlign THEN size + align + PtrSize
                                          ELSE align_up(size, HeapAlign)

Pointer(b, align) == IF align > HeapAlign THEN align_up(b.addr + Header + PtrSize, align)
                                          ELSE b.addr + Header

Splits_Always(b, need) == b.size - need >= 0

Splits(b, need) == b.size - need >= Header + MinBlock

Fitting(list, need) == {i \in 1 .. Len(list) : list[i].size >= need}

\* The list without its i-th block.
Unlinked(list, i) == SubSeq(list, 1, i - 1) \o SubSeq(list, i + 1, Len(list))

\* Unlink the first block that fits, split it if the rest is worth a block, and
\* put the rest back.
Allocate(list, size, align) ==
    LET need == Need(size, align)
        i    == CHOOSE j \in Fitting(list, need) : \A k \in Fitting(list, need) : j <= k
        b    == list[i]
        kept == IF Splits(b, need) THEN need ELSE b.size
    IN  /\ free_list' = IF Splits(b, need)
                        THEN insert_free(Unlinked(list, i),
                                         Block(b.addr + Header + need, b.size - need - Header))
                        ELSE Unlinked(list, i)
        /\ live' = live \cup {[addr |-> b.addr, size |-> kept, ptr |-> Pointer(b, align),
                               bytes |-> size, align |-> align]}
        /\ heap_used' = heap_used + kept + Header

\* When no block fits, the heap grows once, by enough for the next round of the
\* loop to find one; when it cannot grow, the call returns NULL and nothing has
\* changed.
kmalloc_aligned(size, align) ==
    /\ heap_ready /\ Cardinality(live) < MaxLive
    /\ IF Fitting(free_list, Need(size, align)) # {}
       THEN /\ Allocate(free_list, size, align)
            /\ UNCHANGED <<heap_total, arenas>>
       ELSE \E ar \in NewArenas(ExpandedBytes(Need(size, align))) :
               /\ Unused(ar)
               /\ Allocate(expand_heap(ar), size, align)
               /\ heap_total' = heap_total + ar.size
               /\ arenas' = arenas \cup {ar}
    /\ UNCHANGED heap_ready

-----------------------------------------------------------------------------
(* kfree *)

\* What kfree takes off heap_used.
Credit(b) == b.size + Header

\* The block is the one in front of the pointer or, for an over-aligned
\* pointer, the one stored there.  (The word before an over-aligned pointer is
\* that stored address, and is taken not to be ~HEAP_MAGIC_ALLOC.)
kfree(b) ==
    /\ heap_used' = IF heap_used >= Credit(b) THEN heap_used - Credit(b) ELSE 0
    /\ free_list' = insert_free(free_list, Block(b.addr, b.size))
    /\ live' = live \ {b}
    /\ UNCHANGED <<heap_total, heap_ready, arenas>>

-----------------------------------------------------------------------------

Next == \/ heap_init
        \/ \E size \in Sizes, align \in Aligns : kmalloc_aligned(size, align)
        \/ \E b \in live : kfree(b)

Spec == Init /\ [][Next]_vars

-----------------------------------------------------------------------------
(* Properties *)

FreeBlocks == {free_list[i] : i \in 1 .. Len(free_list)}

SumOf(S, f(_)) == FoldSet(LAMBDA x, acc : f(x) + acc, 0, S)

Bytes(b) == b.addr .. End(b) - 1

\* No byte is in two blocks, free or allocated, and every block lies in pages
\* the heap owns: splitting, merging and growing never make blocks overlap.
NoOverlap ==
    /\ \A a \in live, b \in live \cup FreeBlocks :
          (a # b) => End(a) <= b.addr \/ End(b) <= a.addr
    /\ \A i, j \in 1 .. Len(free_list) : i < j => End(free_list[i]) <= free_list[j].addr
    /\ \A b \in live \cup FreeBlocks :
          Bytes(b) \subseteq UNION {ar.addr .. ar.addr + ar.size - 1 : ar \in arenas}

\* No byte is lost: what heap_used_bytes and heap_free_bytes report adds up to
\* heap_total_bytes, and heap_used is exactly what callers hold.
NoLeak ==
    /\ heap_used = SumOf(live, LAMBDA b : b.size + Header)
    /\ heap_used + SumOf(FreeBlocks, LAMBDA b : b.size + Header) = heap_total

\* What the caller asked for lies inside the payload, behind the stored block
\* pointer when there is one, and an over-aligned pointer is aligned.
PayloadFits ==
    \A b \in live :
        /\ b.ptr >= b.addr + Header + (IF b.align > HeapAlign THEN PtrSize ELSE 0)
        /\ b.ptr + b.bytes <= End(b)
        /\ b.align > HeapAlign => b.ptr % b.align = 0

\* heap.c names among its features "Coalescing of adjacent free blocks": no two
\* blocks of the free list are adjacent.
Coalesced == \A a, b \in FreeBlocks : End(a) # b.addr

=============================================================================
