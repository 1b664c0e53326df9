--------------------------------- MODULE Pmm --------------------------------
(***************************************************************************)
(* The physical memory manager, kernel/mm/pmm.c: a bitmap of pages, filled *)
(* from the UEFI memory map and searched from page 0 on every allocation.  *)
(* The two search loops are modelled one page per step.                    *)
(***************************************************************************)
EXTENDS Integers, Sequences, FiniteSets, Functions, FiniteSetsExt

CONSTANTS PageSize,     \* PAGE_SIZE
          MaxPages,     \* PMM_MAX_PAGES
          BootInfos,    \* the boot_info records the loader may pass
          LowMem,       \* the first megabyte
          KernelSpan,   \* bytes marked from kernel_physical_base
          StackBase, StackSize,   \* the early stack
          MaxCount      \* bound on the count of an allocation

ASSUME PageSizeAssumption == PageSize \in Nat \ {0}
ASSUME MaxPagesAssumption == MaxPages \in Nat \ {0}
ASSUME LowMemAssumption == LowMem \in Nat \ {0}
ASSUME MaxCountAssumption == MaxCount \in Nat \ {0}
ASSUME SpansAssumption == KernelSpan \in Nat /\ StackBase \in Nat /\ StackSize \in Nat
\* A boot_info record: the memory map as a sequence of descriptors, and where
\* the kernel, the record itself and the map lie.
ASSUME BootInfosAssumption ==
    \A bi \in BootInfos :
        /\ bi.kernel_physical_base \in Nat /\ bi.self \in Nat
        /\ bi.memory_map \in Nat /\ bi.memory_map_size \in Nat
        /\ bi.map \in Seq([Type : Nat, PhysicalStart : Nat, NumberOfPages : Nat])

VARIABLES used,              \* pmm_bitmap: the pages whose bit is 1
          pmm_used, pmm_highest_page, pmm_ready,
          pc,                \* "idle", "page", "pages": in which search loop
          count, p, run, start,   \* its variables
          ret,               \* what the last allocation returned
          held,              \* pages handed out and not freed since
          boot               \* the boot_info pmm_init read, {} before

bitmapVars == <<used, pmm_used>>
bootVars == <<pmm_highest_page, pmm_ready, boot>>
loopVars == <<pc, count, p, run, start>>
vars == <<bitmapVars, bootVars, loopVars, ret, held>>

Pages == 0 .. MaxPages - 1
Managed == 0 .. pmm_highest_page - 1

Init == /\ used = {} /\ pmm_used = 0 /\ pmm_highest_page = 0 /\ pmm_ready = FALSE
        /\ pc = "idle" /\ count = 0 /\ p = 0 /\ run = 0 /\ start = 0
        /\ ret = 0 /\ held = {} /\ boot = {}

-----------------------------------------------------------------------------
(* pmm_init *)

PagesOf_RoundedDown(phys, size) ==
    IF size = 0 THEN {} ELSE (phys \div PageSize .. (phys + size) \div PageSize - 1) \cap Pages

\* The pages mark_range_used goes through.
PagesOf(phys, size) ==
    IF size = 0 THEN {}
    ELSE (phys \div PageSize .. (phys + size + PageSize - 1) \div PageSize - 1) \cap Pages

\* EfiLoaderCode, EfiLoaderData, EfiBootServicesCode, EfiBootServicesData and
\* EfiConventionalMemory.
UsableTypes == {1, 2, 3, 4, 7}

LastPage(d) == d.PhysicalStart \div PageSize + d.NumberOfPages

Usable(bi) ==
    UNION {(d.PhysicalStart \div PageSize .. LastPage(d) - 1) \cap Pages :
             d \in {e \in Range(bi.map) : e.Type \in UsableTypes}}

HighestPage(bi) == Min({MaxPages, Max({0} \cup {LastPage(d) : d \in Range(bi.map)})})

Protected(bi) ==
    PagesOf(0, LowMem)
    \cup (IF bi.kernel_physical_base = 0 THEN {}
          ELSE PagesOf(bi.kernel_physical_base, KernelSpan))
    \cup PagesOf(StackBase, StackSize)
    \cup PagesOf(bi.self, PageSize)
    \cup (IF bi.memory_map = 0 THEN {} ELSE PagesOf(bi.memory_map, bi.memory_map_size))

NewlyUsed_Untested(set, region) == Cardinality(region)

\* mark_range_used counts the pages whose bit it finds clear.
NewlyUsed(set, region) == Cardinality(region \ set)

\* Everything used, then the usable regions freed and the used pages below
\* pmm_highest_page counted, then the critical regions marked.  Without a
\* memory map it returns -1 and the kernel halts.
pmm_init ==
    /\ ~pmm_ready
    /\ \E bi \in BootInfos :
         LET initial == Pages \ Usable(bi) IN
         /\ bi.memory_map # 0
         /\ pmm_highest_page' = HighestPage(bi)
         /\ used' = initial \cup Protected(bi)
         /\ pmm_used' = Cardinality(initial \cap 0 .. HighestPage(bi) - 1)
                        + NewlyUsed(initial, Protected(bi))
         /\ boot' = {bi}
    /\ pmm_ready' = TRUE
    /\ UNCHANGED <<loopVars, ret, held>>

-----------------------------------------------------------------------------
(* Allocation *)

\* pmm_alloc_pages(n) hands over to pmm_alloc_page for one page.
pmm_alloc_pages(n) ==
    /\ pmm_ready /\ pc = "idle"
    /\ pc' = IF n = 1 THEN "page" ELSE "pages"
    /\ count' = n /\ p' = 0 /\ run' = 0 /\ start' = 0
    /\ UNCHANGED <<bitmapVars, bootVars, ret, held>>

Take(s, n) == /\ used' = used \cup (s .. s + n - 1)
              /\ pmm_used' = pmm_used + n
              /\ held' = held \cup (s .. s + n - 1)
              /\ ret' = s * PageSize
              /\ pc' = "idle"
              /\ UNCHANGED <<bootVars, count, p, run, start>>

ScanDone_Early == p + 1 >= pmm_highest_page

ScanDone == p >= pmm_highest_page

\* The loop ended without success: 0 is returned.
OutOfMemory == /\ pc # "idle" /\ ScanDone
               /\ ret' = 0
               /\ pc' = "idle"
               /\ UNCHANGED <<bitmapVars, bootVars, count, p, run, start, held>>

Advance == /\ p' = p + 1
           /\ UNCHANGED <<bitmapVars, bootVars, pc, count, ret, held>>

\* One iteration of pmm_alloc_page.
ScanPage ==
    /\ pc = "page" /\ p < pmm_highest_page
    /\ \/ p \notin used /\ Take(p, 1)
       \/ p \in used /\ Advance /\ UNCHANGED <<run, start>>

RunStart_Kept == start

RunStart == IF run = 0 THEN p ELSE start

\* A used page ends the run.
RunAtUsed == 0

\* One iteration of pmm_alloc_pages.
ScanPages ==
    /\ pc = "pages" /\ p < pmm_highest_page
    /\ \/ /\ p \notin used /\ run + 1 = count
          /\ Take(RunStart, count)
       \/ /\ p \notin used /\ run + 1 # count
          /\ start' = RunStart
          /\ run' = run + 1
          /\ Advance
       \/ /\ p \in used
          /\ run' = RunAtUsed /\ UNCHANGED start
          /\ Advance

-----------------------------------------------------------------------------
(* Freeing.  A caller frees pages it holds, or, by mistake, pages that are
   free already. *)

\* Not when the bit is clear already: a double free, reported and ignored.
ClearsBit(q) == q < pmm_highest_page /\ q \in used

pmm_free_page(q) ==
    /\ pmm_ready /\ pc = "idle" /\ (q \in held \/ q \notin used)
    /\ IF ClearsBit(q)
       THEN /\ used' = used \ {q}
            /\ pmm_used' = IF pmm_used = 0 THEN 0 ELSE pmm_used - 1
       ELSE UNCHANGED bitmapVars
    /\ held' = held \ {q}
    /\ UNCHANGED <<bootVars, loopVars, ret>>

-----------------------------------------------------------------------------

Next == \/ pmm_init
        \/ \E n \in 1 .. MaxCount : pmm_alloc_pages(n)
        \/ ScanPage \/ ScanPages \/ OutOfMemory
        \/ \E q \in Pages : pmm_free_page(q)

Spec == Init /\ [][Next]_vars

-----------------------------------------------------------------------------
(* Properties *)

\* The counter behind pmm_get_used_pages is the number of used pages below
\* pmm_highest_page, through initialisation over overlapping regions, failed
\* allocations and double frees; pmm_get_free_pages never clamps.
CounterExact == pmm_used = Cardinality(used \cap Managed)

\* The pages with a byte in one of the regions that pmm_init is to protect.
CriticalRegions(bi) == {<<0, LowMem>>, <<StackBase, StackSize>>, <<bi.self, PageSize>>,
                        <<bi.memory_map, bi.memory_map_size>>}
                       \cup (IF bi.kernel_physical_base = 0 THEN {}
                             ELSE {<<bi.kernel_physical_base, KernelSpan>>})

Critical(q) == \E bi \in boot : \E r \in CriticalRegions(bi) :
                   /\ r[1] + r[2] > q * PageSize
                   /\ r[1] < (q + 1) * PageSize
                   /\ r[2] > 0

\* A page somebody holds is marked and has no byte of the first megabyte, the
\* kernel, the early stack, boot_info or the memory map, which "must never be
\* given out" (pmm.c).
HeldSafe == held \subseteq used \cap Managed /\ \A q \in held : ~Critical(q)

Window(s, n) == s .. s + n - 1

Returning == pc # "idle" /\ pc' = "idle"

\* An allocation returns 0 only when there is no run of count free pages.
FailsOnlyWhenFull ==
    [][(Returning /\ ret' = 0) =>
          \A s \in Managed : s + count <= pmm_highest_page => Window(s, count) \cap used # {}]_vars

PA == INSTANCE PageAllocator WITH ready <- pmm_ready, managed <- pmm_highest_page,
                                  free <- Managed \ used

\* The bitmap and its loops implement first fit over the free pages.
ImplementsPageAllocator == PA!Spec

=============================================================================
