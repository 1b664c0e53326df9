------------------------------ MODULE PmmProofs -----------------------------
(***************************************************************************)
(* Proofs about Pmm, for every size of a page, of the memory and of an     *)
(* allocation, and for every memory map.                                   *)
(***************************************************************************)
EXTENDS Pmm, FiniteSetTheorems, TLAPS

TypeInv == /\ used \in SUBSET Pages /\ held \in SUBSET Pages /\ boot \in SUBSET BootInfos
           /\ pmm_used \in Nat /\ pmm_highest_page \in 0 .. MaxPages
           /\ pmm_ready \in BOOLEAN
           /\ pc \in {"idle", "page", "pages"}
           /\ count \in Nat /\ run \in Nat /\ p \in Nat /\ start \in Nat /\ ret \in Nat

\* The critical pages stay marked, and nobody holds one.
CriticalInv == /\ \A q \in Managed : Critical(q) => q \in used /\ q \notin held
               /\ pmm_ready => boot # {}
               /\ ~pmm_ready => held = {} /\ pc = "idle"

NoWindow(n, to) == \A s \in 0 .. to : s + n <= to => Window(s, n) \cap used # {}

\* What a search has found out: no run of count free pages ends before p, and
\* start .. p - 1 is the longest run of free pages that ends there.
ScanInv == pc # "idle" =>
              /\ pmm_ready /\ count > 0 /\ p <= pmm_highest_page
              /\ NoWindow(count, p)
              /\ pc = "page" => count = 1
              /\ pc = "pages" =>
                    /\ run < count
                    /\ run = 0 => p = 0 \/ p - 1 \in used
                    /\ run > 0 => /\ start + run = p
                                  /\ Window(start, run) \cap used = {}
                                  /\ start = 0 \/ start - 1 \in used

IInv == TypeInv /\ CounterExact /\ HeldSafe /\ CriticalInv /\ ScanInv

-----------------------------------------------------------------------------
(* The pages of pmm_init *)

\* An address below a page boundary is on an earlier page.
LEMMA DivideBelow ==
    ASSUME NEW a \in Nat, NEW b \in Nat, a < b * PageSize
    PROVE  a \div PageSize \in Nat /\ a \div PageSize < b
BY PageSizeAssumption

\* An address at or above a page boundary is on that page or a later one.
LEMMA DivideAbove ==
    ASSUME NEW a \in Nat, NEW b \in Nat, a >= b * PageSize
    PROVE  a \div PageSize \in Nat /\ a \div PageSize >= b
BY PageSizeAssumption

\* mark_range_used marks every page that has a byte of the range.
LEMMA PagesOfCovers ==
    ASSUME NEW phys \in Nat, NEW size \in Nat, size > 0, NEW q \in Pages,
           phys + size > q * PageSize, phys < (q + 1) * PageSize
    PROVE  q \in PagesOf(phys, size)
<1>1. q \in Nat /\ PageSize \in Nat /\ PageSize > 0
  BY PageSizeAssumption, MaxPagesAssumption DEF Pages
<1>2. phys \div PageSize \in Nat /\ phys \div PageSize < q + 1
  BY <1>1, DivideBelow
<1> DEFINE last == phys + size + PageSize - 1
<1>3. last \in Nat /\ last >= (q + 1) * PageSize
  <2>1. (q + 1) * PageSize = q * PageSize + PageSize /\ q * PageSize \in Nat
    BY <1>1
  <2> QED
    BY <1>1, <2>1
<1> HIDE DEF last
<1>4. last \div PageSize \in Nat /\ last \div PageSize >= q + 1
  BY <1>1, <1>3, DivideAbove
<1>5. q \in phys \div PageSize .. last \div PageSize - 1
  BY <1>1, <1>2, <1>4
<1> QED
  BY <1>5 DEF PagesOf, last

\* Every critical page is among the pages pmm_init protects.
LEMMA CriticalProtected ==
    ASSUME NEW bi \in BootInfos, bi.memory_map # 0, NEW q \in Pages,
           \E r \in CriticalRegions(bi) : /\ r[1] + r[2] > q * PageSize
                                          /\ r[1] < (q + 1) * PageSize
                                          /\ r[2] > 0
    PROVE  q \in Protected(bi)
<1>1. PICK r \in CriticalRegions(bi) : /\ r[1] + r[2] > q * PageSize
                                       /\ r[1] < (q + 1) * PageSize
                                       /\ r[2] > 0
  OBVIOUS
<1>2. r[1] \in Nat /\ r[2] \in Nat
  BY <1>1, BootInfosAssumption, SpansAssumption, LowMemAssumption, PageSizeAssumption
     DEF CriticalRegions
<1>3. q \in PagesOf(r[1], r[2])
  BY <1>1, <1>2, PagesOfCovers
<1> QED
  BY <1>1, <1>3 DEF CriticalRegions, Protected

\* A set of natural numbers has a smallest element: the form of induction used
\* below.
LEMMA Smallest ==
    ASSUME NEW S, S \subseteq Nat, S # {}
    PROVE  \E x \in S : \A y \in S : x <= y
<1>1. OpToRel(<, Nat) = {ss \in Nat \X Nat : ss[1] < ss[2]}
  BY DEF OpToRel
<1>2. PICK x \in S : \A y \in S : ~(<<y, x>> \in OpToRel(<, Nat))
  BY NatLessThanWellFounded, WFMin
<1>3. ASSUME NEW y \in S PROVE x <= y
  <2>1. ~(<<y, x>> \in {ss \in Nat \X Nat : ss[1] < ss[2]})
    BY <1>1, <1>2
  <2> QED
    BY <2>1
<1> QED
  BY <1>3

\* The largest of finitely many page numbers, as the loop over the memory map
\* finds it.
LEMMA LargestExists ==
    ASSUME NEW n \in Nat, NEW f \in [1 .. n -> Nat]
    PROVE  \E m \in {0} \cup {f[i] : i \in 1 .. n} : \A i \in 1 .. n : f[i] <= m
<1> DEFINE Has(k) == \E m \in {0} \cup {f[i] : i \in 1 .. k} : \A i \in 1 .. k : f[i] <= m
           Bad == {k \in 0 .. n : ~Has(k)}
<1>1. SUFFICES ASSUME ~Has(n) PROVE FALSE
  OBVIOUS
<1>2. PICK k \in Bad : \A j \in Bad : k <= j
  <2>1. n \in Bad /\ Bad \subseteq Nat
    BY <1>1
  <2> HIDE DEF Bad
  <2> QED
    BY <2>1, Smallest, Zenon
<1>3. k # 0
  BY <1>2
<1>4. Has(k - 1)
  <2>1. k - 1 \in 0 .. n /\ k \in 0 .. n /\ ~(k <= k - 1)
    BY <1>2, <1>3
  <2> HIDE DEF Has
  <2>2. k - 1 \notin Bad
    <3> HIDE DEF Bad
    <3> QED
      BY <1>2, <2>1
  <2> QED
    BY <2>1, <2>2
<1>5. PICK m \in {0} \cup {f[i] : i \in 1 .. k - 1} : \A i \in 1 .. k - 1 : f[i] <= m
  BY <1>4
<1>6. CASE f[k] <= m
  BY <1>2, <1>3, <1>5, <1>6, SMTT(20)
<1>7. CASE m < f[k]
  BY <1>2, <1>3, <1>5, <1>7, SMTT(20)
<1> QED
  BY <1>2, <1>3, <1>5, <1>6, <1>7

\* Every usable page is below pmm_highest_page.
LEMMA UsableBelowHighest ==
    ASSUME NEW bi \in BootInfos
    PROVE  /\ HighestPage(bi) \in 0 .. MaxPages
           /\ Usable(bi) \subseteq 0 .. HighestPage(bi) - 1
<1> DEFINE D == [Type : Nat, PhysicalStart : Nat, NumberOfPages : Nat]
           n == Len(bi.map)
           f == [i \in 1 .. n |-> LastPage(bi.map[i])]
           L == {0} \cup {LastPage(d) : d \in Range(bi.map)}
<1>1. bi.map \in Seq(D)
  BY BootInfosAssumption
<1>2. n \in Nat /\ DOMAIN bi.map = 1 .. n /\ \A i \in 1 .. n : bi.map[i] \in D
  <2> HIDE DEF D
  <2> QED
    BY <1>1
<1>3. \A d \in D : LastPage(d) \in Nat /\ d.PhysicalStart \div PageSize \in Nat
  BY PageSizeAssumption DEF LastPage
<1>4. f \in [1 .. n -> Nat]
  BY <1>2, <1>3
<1>5. PICK m \in {0} \cup {f[i] : i \in 1 .. n} : \A i \in 1 .. n : f[i] <= m
  <2> HIDE DEF f, n
  <2> QED
    BY <1>2, <1>4, LargestExists, Zenon
<1>6. m \in L /\ L \subseteq Nat /\ \A l \in L : m >= l
  <2>1. \A i \in 1 .. n : f[i] = LastPage(bi.map[i]) /\ f[i] \in Nat
    BY <1>4
  <2>2. Range(bi.map) = {bi.map[i] : i \in 1 .. n}
    BY <1>2 DEF Range
  <2>3. L = {0} \cup {f[i] : i \in 1 .. n}
    <3> HIDE DEF f, n
    <3>1. ASSUME NEW d \in Range(bi.map) PROVE LastPage(d) \in {f[i] : i \in 1 .. n}
      <4>1. PICK i \in 1 .. n : d = bi.map[i]
        BY <2>2, <3>1, Zenon
      <4> QED
        BY <2>1, <4>1, Zenon
    <3>2. ASSUME NEW i \in 1 .. n PROVE \E d \in Range(bi.map) : f[i] = LastPage(d)
      BY <2>1, <2>2, Zenon
    <3> QED
      BY <3>1, <3>2, Zenon
  <2> HIDE DEF L, f, n
  <2> QED
    BY <1>5, <2>1, <2>3
<1>7. Max(L) \in L /\ \A l \in L : Max(L) >= l
  <2> HIDE DEF L
  <2> QED
    BY <1>6, Zenon DEF Max
<1>8. HighestPage(bi) = IF MaxPages <= Max(L) THEN MaxPages ELSE Max(L)
  <2>1. MaxPages \in Nat /\ Max(L) \in Nat
    BY <1>6, <1>7, MaxPagesAssumption
  <2>2. HighestPage(bi) = Min({MaxPages, Max(L)})
    BY DEF HighestPage
  <2> HIDE DEF L
  <2> QED
    BY <2>1, <2>2 DEF Min
<1>9. HighestPage(bi) \in 0 .. MaxPages
  BY <1>6, <1>7, <1>8, MaxPagesAssumption
<1>10. ASSUME NEW q \in Usable(bi) PROVE q \in 0 .. HighestPage(bi) - 1
  <2>1. PICK d \in Range(bi.map) : q \in (d.PhysicalStart \div PageSize .. LastPage(d) - 1) \cap Pages
    BY DEF Usable
  <2>2. d \in D /\ LastPage(d) \in L
    BY <1>2, <2>1 DEF Range
  <2>3. LastPage(d) <= Max(L) /\ Max(L) \in Nat /\ LastPage(d) \in Nat
    BY <1>3, <1>6, <1>7, <2>2
  <2>4. q \in Nat /\ q < LastPage(d) /\ q < MaxPages
    BY <1>3, <2>1, <2>2, MaxPagesAssumption DEF Pages
  <2> HIDE DEF L
  <2> QED
    BY <1>8, <1>9, <2>3, <2>4, MaxPagesAssumption
<1> QED
  BY <1>9, <1>10

-----------------------------------------------------------------------------
(* The invariant *)

\* There are finitely many managed pages, all within the bitmap.
LEMMA ManagedFinite ==
    TypeInv => /\ IsFiniteSet(Managed) /\ Managed \subseteq Pages
               /\ \A S : IsFiniteSet(S \cap Managed)
<1> SUFFICES ASSUME TypeInv
             PROVE  /\ IsFiniteSet(Managed) /\ Managed \subseteq Pages
                    /\ \A S : IsFiniteSet(S \cap Managed)
  OBVIOUS
<1>1. IsFiniteSet(Managed)
  BY FS_Interval DEF TypeInv, Managed
<1>2. Managed \subseteq Pages
  BY MaxPagesAssumption DEF TypeInv, Managed, Pages
<1> QED
  BY <1>1, <1>2, FS_Subset

\* Before pmm_init no page is managed and none is handed out.
THEOREM InitIInv == Init => IInv
<1> SUFFICES ASSUME Init PROVE IInv
  OBVIOUS
<1>1. TypeInv
  <2>1. pmm_ready \in BOOLEAN
    BY Zenon DEF Init
  <2>2. pmm_highest_page \in 0 .. MaxPages
    BY MaxPagesAssumption DEF Init
  <2> QED
    BY <2>1, <2>2 DEF Init, TypeInv
<1>2. CounterExact
  BY FS_EmptySet DEF Init, CounterExact
<1> QED
  BY <1>1, <1>2 DEF Init, IInv, HeldSafe, CriticalInv, ScanInv, Managed

\* pmm_init counts every used page once, though the regions overlap.
LEMMA InitCounts ==
    ASSUME IInv, pmm_init
    PROVE  IInv'
<1>1. PICK bi \in BootInfos :
          /\ bi.memory_map # 0
          /\ pmm_highest_page' = HighestPage(bi)
          /\ used' = (Pages \ Usable(bi)) \cup Protected(bi)
          /\ pmm_used' = Cardinality((Pages \ Usable(bi)) \cap 0 .. HighestPage(bi) - 1)
                         + NewlyUsed(Pages \ Usable(bi), Protected(bi))
          /\ boot' = {bi}
  BY Zenon DEF pmm_init
<1> DEFINE M == 0 .. HighestPage(bi) - 1
           A == (Pages \ Usable(bi)) \cap M
           B == Protected(bi) \ (Pages \ Usable(bi))
<1>2. /\ HighestPage(bi) \in 0 .. MaxPages
      /\ Usable(bi) \subseteq M
  BY UsableBelowHighest
<1>3. Protected(bi) \subseteq Pages
  BY DEF Protected, PagesOf
<1>4. /\ ~pmm_ready /\ pmm_ready' /\ held = {} /\ pc = "idle" /\ held' = held
      /\ pc' = pc /\ count' = count /\ run' = run /\ p' = p /\ start' = start /\ ret' = ret
  BY DEF pmm_init, IInv, CriticalInv, loopVars
<1>5. IsFiniteSet(A) /\ IsFiniteSet(B) /\ A \cap B = {} /\ used' \cap M = A \cup B
  <2>1. IsFiniteSet(M)
    BY <1>2, MaxPagesAssumption, FS_Interval
  <2>2. A \subseteq M /\ B \subseteq M
    BY <1>2, <1>3
  <2>3. A \cap B = {} /\ used' \cap M = A \cup B
    BY <1>1, <1>2, <1>3
  <2> QED
    BY <2>1, <2>2, <2>3, FS_Subset, Zenon
<1>6. Cardinality(A) \in Nat /\ Cardinality(B) \in Nat
  BY <1>5, FS_CardinalityType
<1>7. Cardinality(A \cup B) = Cardinality(A) + Cardinality(B)
  <2> HIDE DEF A, B
  <2>1. Cardinality(A \cup B) = Cardinality(A) + Cardinality(B) - Cardinality(A \cap B)
    BY <1>5, FS_Union
  <2>2. Cardinality(A \cap B) = 0
    BY <1>5, FS_EmptySet
  <2> QED
    BY <1>6, <2>1, <2>2
<1>8. pmm_used' = Cardinality(A) + Cardinality(B)
  BY <1>1 DEF NewlyUsed
<1>9. TypeInv'
  BY <1>1, <1>2, <1>3, <1>4, <1>6, <1>8 DEF IInv, TypeInv
<1>10. CounterExact'
  BY <1>1, <1>5, <1>7, <1>8, Zenon DEF CounterExact, Managed
<1>11. ASSUME NEW q \in Managed', Critical(q)' PROVE q \in used'
  <2>1. q \in Pages
    BY <1>1, <1>2, MaxPagesAssumption DEF Managed, Pages
  <2>2. q \in Protected(bi)
    <3>1. \E r \in CriticalRegions(bi) : /\ r[1] + r[2] > q * PageSize
                                         /\ r[1] < (q + 1) * PageSize
                                         /\ r[2] > 0
      BY <1>1, <1>11 DEF Critical
    <3> QED
      BY <1>1, <2>1, <3>1, CriticalProtected
  <2> QED
    BY <1>1, <2>2
<1>12. HeldSafe' /\ CriticalInv' /\ ScanInv'
  BY <1>1, <1>4, <1>11 DEF HeldSafe, CriticalInv, ScanInv
<1> QED
  BY <1>9, <1>10, <1>12 DEF IInv

\* Marking a run of free pages and handing it out.
LEMMA TakeKeeps ==
    ASSUME IInv, pmm_ready, NEW s \in Nat, NEW n \in Nat \ {0},
           s + n <= pmm_highest_page, Window(s, n) \cap used = {}, Take(s, n)
    PROVE  IInv'
<1> DEFINE W == s .. s + n - 1
           U == used \cap Managed
<1>1. /\ used' = used \cup W /\ pmm_used' = pmm_used + n /\ held' = held \cup W
      /\ ret' = s * PageSize /\ pc' = "idle"
      /\ pmm_highest_page' = pmm_highest_page /\ pmm_ready' = pmm_ready /\ boot' = boot
      /\ count' = count /\ p' = p /\ run' = run /\ start' = start
  BY DEF Take, bootVars
<1>2. W \subseteq Managed /\ W \cap used = {} /\ Managed' = Managed
  BY <1>1 DEF IInv, TypeInv, Managed, Window
<1>3. IsFiniteSet(U) /\ Managed \subseteq Pages
  BY ManagedFinite DEF IInv
<1>4. IsFiniteSet(W) /\ Cardinality(W) = n
  <2>1. Cardinality(W) = IF s > s + n - 1 THEN 0 ELSE (s + n - 1) - s + 1
    BY FS_Interval
  <2> QED
    BY <2>1, FS_Interval
<1>5. TypeInv'
  <2>1. s * PageSize \in Nat
    BY PageSizeAssumption
  <2>2. used' \in SUBSET Pages /\ held' \in SUBSET Pages
    BY <1>1, <1>2, <1>3 DEF IInv, TypeInv
  <2> QED
    BY <1>1, <2>1, <2>2 DEF IInv, TypeInv
<1>6. CounterExact'
  <2>1. used' \cap Managed' = U \cup W /\ U \cap W = {}
    BY <1>1, <1>2
  <2> HIDE DEF U, W
  <2>2. Cardinality(U \cup W) = Cardinality(U) + Cardinality(W) - Cardinality(U \cap W)
    BY <1>3, <1>4, FS_Union
  <2>3. Cardinality(U \cap W) = 0 /\ Cardinality(U) \in Nat
    BY <1>3, <2>1, FS_EmptySet, FS_CardinalityType
  <2>4. pmm_used = Cardinality(U)
    BY DEF IInv, CounterExact, U
  <2>5. pmm_used' = Cardinality(U \cup W)
    <3>1. pmm_used' = Cardinality(U) + Cardinality(W)
      BY <1>1, <1>4, <2>4
    <3> QED
      BY <1>4, <2>2, <2>3, <3>1
  <2> QED
    BY <2>1, <2>5 DEF CounterExact
<1>7. \A q \in Managed : Critical(q)' = Critical(q)
  BY <1>1 DEF Critical
<1>8. HeldSafe' /\ CriticalInv'
  BY <1>1, <1>2, <1>7 DEF IInv, HeldSafe, CriticalInv
<1>9. ScanInv'
  BY <1>1 DEF ScanInv
<1> QED
  BY <1>5, <1>6, <1>8, <1>9 DEF IInv

\* Freeing a page takes one off the counter exactly when it clears a bit.
LEMMA FreeKeeps ==
    ASSUME IInv, NEW q \in Pages, pmm_free_page(q)
    PROVE  IInv'
<1>1. /\ pmm_ready /\ pc = "idle" /\ (q \in held \/ q \notin used)
      /\ held' = held \ {q}
      /\ pmm_highest_page' = pmm_highest_page /\ pmm_ready' = pmm_ready /\ boot' = boot
      /\ pc' = pc /\ count' = count /\ p' = p /\ run' = run /\ start' = start /\ ret' = ret
  BY DEF pmm_free_page, bootVars, loopVars
<1>2. Managed' = Managed /\ ScanInv' /\ \A r \in Managed : Critical(r)' = Critical(r)
  BY <1>1 DEF Managed, ScanInv, Critical
<1>3. CASE ClearsBit(q)
  <2> DEFINE U == used \cap Managed
  <2>1. /\ used' = used \ {q} /\ q \in used /\ q \in held /\ q \in Managed
        /\ pmm_used' = IF pmm_used = 0 THEN 0 ELSE pmm_used - 1
    BY <1>1, <1>3, MaxPagesAssumption DEF pmm_free_page, ClearsBit, Managed, Pages, IInv, TypeInv
  <2>2. IsFiniteSet(U) /\ q \in U /\ U \ {q} = used' \cap Managed'
    BY <1>2, <2>1, ManagedFinite DEF IInv
  <2>3. Cardinality(U \ {q}) = Cardinality(U) - 1 /\ Cardinality(U) \in Nat
        /\ Cardinality(U \ {q}) \in Nat
    <3> HIDE DEF U
    <3> QED
      BY <2>2, FS_RemoveElement, FS_CardinalityType
  <2>4. CounterExact'
    BY <2>1, <2>2, <2>3 DEF IInv, CounterExact
  <2>5. TypeInv'
    BY <1>1, <2>1 DEF IInv, TypeInv
  <2>6. HeldSafe' /\ CriticalInv'
    BY <1>1, <1>2, <2>1 DEF IInv, HeldSafe, CriticalInv
  <2> QED
    BY <1>2, <2>4, <2>5, <2>6 DEF IInv
<1>4. CASE ~ClearsBit(q)
  <2>1. used' = used /\ pmm_used' = pmm_used
    BY <1>4 DEF pmm_free_page, bitmapVars
  <2>2. TypeInv' /\ CounterExact'
    BY <1>1, <1>2, <2>1 DEF IInv, TypeInv, CounterExact
  <2>3. HeldSafe' /\ CriticalInv'
    BY <1>1, <1>2, <2>1 DEF IInv, HeldSafe, CriticalInv
  <2> QED
    BY <1>2, <2>2, <2>3 DEF IInv
<1> QED
  BY <1>3, <1>4

\* What the two loops find when they succeed: count free pages from s, and no
\* run of count pages before.
Found(s) == /\ pc # "idle" /\ s \in Nat /\ s + count <= pmm_highest_page
            /\ Window(s, count) \cap used = {}
            /\ s + count <= p + 1
            /\ Take(s, count)

\* A step of the search for one page finds it or goes on.
LEMMA PageCases ==
    ASSUME IInv, ScanPage
    PROVE  \/ Found(p)
           \/ p \in used /\ Advance /\ UNCHANGED <<run, start>>
<1>1. pc = "page" /\ p < pmm_highest_page /\ count = 1 /\ p \in Nat
  BY DEF ScanPage, IInv, ScanInv, TypeInv
<1>2. CASE p \notin used /\ Take(p, 1)
  BY <1>1, <1>2 DEF Found, Window, IInv, TypeInv
<1> QED
  BY <1>2 DEF ScanPage

\* A step of the search for several pages finds them, lengthens the run or restarts it.
LEMMA PagesCases ==
    ASSUME IInv, ScanPages
    PROVE  \/ Found(RunStart)
           \/ p \notin used /\ run + 1 < count /\ start' = RunStart /\ run' = run + 1 /\ Advance
           \/ p \in used /\ run' = 0 /\ start' = start /\ Advance
<1>1. /\ pc = "pages" /\ p < pmm_highest_page /\ p \in Nat /\ run \in Nat /\ start \in Nat
      /\ count \in Nat /\ run < count /\ pmm_highest_page \in Nat
      /\ run > 0 => start + run = p /\ Window(start, run) \cap used = {}
  BY DEF ScanPages, IInv, ScanInv, TypeInv
<1>2. CASE p \notin used /\ run + 1 = count /\ Take(RunStart, count)
  <2>1. RunStart \in Nat /\ RunStart + count = p + 1
    BY <1>1, <1>2 DEF RunStart
  <2>2. Window(RunStart, count) \cap used = {}
    BY <1>1, <1>2 DEF RunStart, Window
  <2> QED
    BY <1>1, <1>2, <2>1, <2>2 DEF Found
<1> QED
  BY <1>1, <1>2 DEF ScanPages, RunAtUsed

\* Going on to the next page keeps the invariant.
LEMMA AdvanceKeeps ==
    ASSUME IInv, pc # "idle", p < pmm_highest_page, Advance, run' \in Nat, start' \in Nat,
           ScanInv'
    PROVE  IInv'
<1>1. /\ used' = used /\ pmm_used' = pmm_used /\ held' = held /\ p' = p + 1
      /\ pmm_highest_page' = pmm_highest_page /\ pmm_ready' = pmm_ready /\ boot' = boot
      /\ pc' = pc /\ count' = count /\ ret' = ret
  BY DEF Advance, bitmapVars, bootVars
<1>2. TypeInv'
  BY <1>1 DEF IInv, TypeInv
<1>3. Managed' = Managed /\ \A q \in Managed : Critical(q)' = Critical(q)
  BY <1>1 DEF Managed, Critical
<1>4. CounterExact' /\ HeldSafe' /\ CriticalInv'
  BY <1>1, <1>3 DEF IInv, CounterExact, HeldSafe, CriticalInv
<1> QED
  BY <1>2, <1>4 DEF IInv

\* Handing out the pages that were found keeps the invariant.
LEMMA FoundKeeps ==
    ASSUME IInv, NEW s, Found(s)
    PROVE  IInv'
<1>1. pmm_ready /\ count \in Nat \ {0}
  BY DEF Found, IInv, ScanInv, TypeInv
<1> QED
  BY <1>1, TakeKeeps DEF Found

\* No run of n pages ends before page to + 1 either when page to is used.
LEMMA PastUsed ==
    ASSUME NEW n \in Nat \ {0}, NEW to \in Nat, NoWindow(n, to), to \in used
    PROVE  NoWindow(n, to + 1)
<1> SUFFICES ASSUME NEW s \in 0 .. to + 1, s + n <= to + 1
             PROVE  Window(s, n) \cap used # {}
  BY DEF NoWindow
<1>1. CASE s + n <= to
  BY <1>1 DEF NoWindow
<1>2. CASE s + n = to + 1
  BY <1>2 DEF Window
<1> QED
  BY <1>1, <1>2

\* A step of pmm_alloc_page keeps the invariant.
LEMMA ScanPageKeeps ==
    ASSUME IInv, ScanPage
    PROVE  IInv'
<1>1. CASE Found(p)
  BY <1>1, FoundKeeps
<1>2. CASE p \in used /\ Advance /\ UNCHANGED <<run, start>>
  <2>1. /\ pc = "page" /\ p < pmm_highest_page /\ p \in Nat /\ pmm_highest_page \in Nat
        /\ count = 1 /\ NoWindow(count, p) /\ pmm_ready /\ run \in Nat /\ start \in Nat
    BY DEF ScanPage, IInv, ScanInv, TypeInv
  <2>2. NoWindow(1, p + 1)
    BY <1>2, <2>1, PastUsed
  <2>3. ScanInv'
    BY <1>2, <2>1, <2>2 DEF ScanInv, Advance, bootVars, bitmapVars, NoWindow
  <2> QED
    BY <1>2, <2>1, <2>3, AdvanceKeeps
<1> QED
  BY <1>1, <1>2, PageCases

\* A step of pmm_alloc_pages keeps the invariant.
LEMMA ScanPagesKeeps ==
    ASSUME IInv, ScanPages
    PROVE  IInv'
<1>1. CASE Found(RunStart)
  BY <1>1, FoundKeeps
<1>2. /\ pc = "pages" /\ p < pmm_highest_page /\ p \in Nat /\ pmm_highest_page \in Nat
      /\ count \in Nat \ {0} /\ NoWindow(count, p) /\ pmm_ready
      /\ run \in Nat /\ start \in Nat /\ run < count
      /\ run = 0 => p = 0 \/ p - 1 \in used
      /\ run > 0 => /\ start + run = p
                    /\ Window(start, run) \cap used = {}
                    /\ start = 0 \/ start - 1 \in used
  BY DEF ScanPages, IInv, ScanInv, TypeInv
<1>3. CASE p \notin used /\ run + 1 < count /\ start' = RunStart /\ run' = run + 1 /\ Advance
  <2>1. NoWindow(count, p + 1)
    <3> SUFFICES ASSUME NEW s \in 0 .. p + 1, s + count <= p + 1
                 PROVE  Window(s, count) \cap used # {}
      BY DEF NoWindow
    <3>1. CASE s + count <= p
      BY <1>2, <3>1 DEF NoWindow
    <3>2. CASE s + count = p + 1 /\ run = 0
      <4>1. p - 1 \in Window(s, count) /\ p # 0
        BY <1>2, <1>3, <3>2 DEF Window
      <4> QED
        BY <1>2, <3>2, <4>1
    <3>3. CASE s + count = p + 1 /\ run > 0
      <4>1. start - 1 \in Window(s, count) /\ start # 0
        BY <1>2, <1>3, <3>3 DEF Window
      <4> QED
        BY <1>2, <3>3, <4>1
    <3> QED
      BY <1>2, <3>1, <3>2, <3>3
  <2>2. /\ RunStart \in Nat /\ RunStart + (run + 1) = p + 1
        /\ Window(RunStart, run + 1) \cap used = {}
        /\ RunStart = 0 \/ RunStart - 1 \in used
    BY <1>2, <1>3 DEF RunStart, Window
  <2>3. ScanInv'
    BY <1>2, <1>3, <2>1, <2>2 DEF ScanInv, Advance, bootVars, bitmapVars, NoWindow
  <2> QED
    BY <1>2, <1>3, <2>2, <2>3, AdvanceKeeps
<1>4. CASE p \in used /\ run' = 0 /\ start' = start /\ Advance
  <2>1. NoWindow(count, p + 1)
    BY <1>2, <1>4, PastUsed
  <2>2. ScanInv'
    BY <1>2, <1>4, <2>1 DEF ScanInv, Advance, bootVars, bitmapVars, NoWindow
  <2> QED
    BY <1>2, <1>4, <2>2, AdvanceKeeps
<1> QED
  BY <1>1, <1>3, <1>4, PagesCases

\* Every step of pmm.c preserves the invariant.
THEOREM NextIInv == IInv /\ [Next]_vars => IInv'
<1> SUFFICES ASSUME IInv, [Next]_vars PROVE IInv'
  OBVIOUS
<1>1. CASE pmm_init
  BY <1>1, InitCounts
<1>2. ASSUME NEW n \in 1 .. MaxCount, pmm_alloc_pages(n) PROVE IInv'
  <2>1. /\ pmm_ready /\ pc' \in {"page", "pages"} /\ (pc' = "page" => n = 1)
        /\ count' = n /\ p' = 0 /\ run' = 0 /\ start' = 0 /\ ret' = ret
        /\ used' = used /\ pmm_used' = pmm_used /\ held' = held
        /\ pmm_highest_page' = pmm_highest_page /\ pmm_ready' = pmm_ready /\ boot' = boot
        /\ n \in Nat \ {0}
    BY <1>2, MaxCountAssumption DEF pmm_alloc_pages, bitmapVars, bootVars
  <2>2. TypeInv'
    BY <2>1 DEF IInv, TypeInv
  <2>3. Managed' = Managed /\ \A q \in Managed : Critical(q)' = Critical(q)
    BY <2>1 DEF Managed, Critical
  <2>4. CounterExact' /\ HeldSafe' /\ CriticalInv'
    BY <2>1, <2>3 DEF IInv, CounterExact, HeldSafe, CriticalInv
  <2>5. ScanInv'
    BY <2>1 DEF ScanInv, NoWindow, IInv, TypeInv
  <2> QED
    BY <2>2, <2>4, <2>5 DEF IInv
<1>3. CASE ScanPage
  BY <1>3, ScanPageKeeps
<1>4. CASE ScanPages
  BY <1>4, ScanPagesKeeps
<1>5. CASE OutOfMemory
  <2>1. /\ pmm_ready /\ pc' = "idle" /\ ret' = 0
        /\ count' = count /\ p' = p /\ run' = run /\ start' = start
        /\ used' = used /\ pmm_used' = pmm_used /\ held' = held
        /\ pmm_highest_page' = pmm_highest_page /\ pmm_ready' = pmm_ready /\ boot' = boot
    BY <1>5 DEF OutOfMemory, bitmapVars, bootVars, IInv, ScanInv
  <2>2. Managed' = Managed /\ \A q \in Managed : Critical(q)' = Critical(q)
    BY <2>1 DEF Managed, Critical
  <2> QED
    BY <2>1, <2>2 DEF IInv, TypeInv, CounterExact, HeldSafe, CriticalInv, ScanInv
<1>6. ASSUME NEW q \in Pages, pmm_free_page(q) PROVE IInv'
  BY <1>6, FreeKeeps
<1>7. CASE UNCHANGED vars
  BY <1>7 DEF vars, bitmapVars, bootVars, loopVars, IInv, TypeInv, CounterExact, HeldSafe,
              CriticalInv, ScanInv, NoWindow, Managed, Critical
<1> QED
  BY <1>1, <1>2, <1>3, <1>4, <1>5, <1>6, <1>7 DEF Next

\* The bitmap, the counter, the search and the pages handed out agree, always.
THEOREM Invariance == Spec => []IInv
BY InitIInv, NextIInv, PTL DEF Spec

\* pmm_used is the number of used pages below pmm_highest_page, whatever
\* regions pmm_init was given and whatever was allocated and freed since.
THEOREM CounterCorrect == Spec => []CounterExact
BY Invariance, PTL DEF IInv

\* No page of the first megabyte, the kernel, the early stack, boot_info or the
\* memory map is ever given out, and a page given out stays marked until freed.
THEOREM HeldPagesSafe == Spec => []HeldSafe
BY Invariance, PTL DEF IInv

\* Page 0 is never free, so no allocation that succeeds returns 0.
LEMMA FoundNotZero ==
    ASSUME IInv, NEW s, Found(s)
    PROVE  s \in 1 .. pmm_highest_page - 1 /\ ret' # 0
<1>1. /\ pmm_ready /\ s \in Nat /\ count \in Nat \ {0} /\ s + count <= pmm_highest_page
      /\ Window(s, count) \cap used = {} /\ ret' = s * PageSize /\ pmm_highest_page \in Nat
  BY DEF Found, Take, IInv, ScanInv, TypeInv
<1>2. s # 0
  <2> SUFFICES ASSUME s = 0 PROVE FALSE
    OBVIOUS
  <2>1. 0 \in Managed /\ 0 \in Window(s, count)
    BY <1>1 DEF Managed, Window
  <2>2. PICK bi \in boot : TRUE
    BY <1>1 DEF IInv, CriticalInv
  <2>3. Critical(0)
    <3>1. <<0, LowMem>> \in CriticalRegions(bi)
      BY DEF CriticalRegions
    <3>2. 0 + LowMem > 0 * PageSize /\ 0 < (0 + 1) * PageSize /\ LowMem > 0
      BY PageSizeAssumption, LowMemAssumption
    <3>3. <<0, LowMem>>[1] = 0 /\ <<0, LowMem>>[2] = LowMem
      OBVIOUS
    <3> QED
      BY <2>2, <3>1, <3>2, <3>3 DEF Critical
  <2> QED
    BY <1>1, <2>1, <2>3 DEF IInv, CriticalInv
<1>3. s * PageSize # 0
  BY <1>1, <1>2, PageSizeAssumption
<1> QED
  BY <1>1, <1>2, <1>3

\* The step that ends a search: it found its pages, or looked at all of them.
LEMMA ReturnCases ==
    ASSUME IInv, [Next]_vars, Returning
    PROVE  (\E s : Found(s)) \/ OutOfMemory
<1>1. pc # "idle" /\ pc' = "idle"
  BY DEF Returning
<1>2. CASE ScanPage
  BY <1>1, <1>2, PageCases DEF Advance
<1>3. CASE ScanPages
  BY <1>1, <1>3, PagesCases DEF Advance
<1>4. ~pmm_init
  BY <1>1 DEF pmm_init, loopVars
<1>5. \A n \in 1 .. MaxCount : ~pmm_alloc_pages(n)
  BY <1>1 DEF pmm_alloc_pages
<1>6. \A q \in Pages : ~pmm_free_page(q)
  BY <1>1 DEF pmm_free_page
<1>7. ~UNCHANGED vars
  BY <1>1 DEF vars, loopVars
<1> QED
  BY <1>2, <1>3, <1>4, <1>5, <1>6, <1>7 DEF Next

\* An allocation answers 0 only when no run of count free pages exists.
THEOREM NoFalseFailure == Spec => FailsOnlyWhenFull
<1>1. ASSUME IInv, [Next]_vars, Returning, ret' = 0,
             NEW s \in Managed, s + count <= pmm_highest_page
      PROVE  Window(s, count) \cap used # {}
  <2>1. OutOfMemory
    BY <1>1, ReturnCases, FoundNotZero
  <2>2. /\ p = pmm_highest_page /\ NoWindow(count, p) /\ count \in Nat
        /\ pmm_highest_page \in Nat
    BY <1>1, <2>1 DEF OutOfMemory, ScanDone, IInv, ScanInv, TypeInv
  <2> QED
    BY <1>1, <2>2 DEF NoWindow, Managed
<1>2. IInv /\ [Next]_vars =>
        [(Returning /\ ret' = 0) =>
            \A s \in Managed : s + count <= pmm_highest_page => Window(s, count) \cap used # {}]_vars
  BY <1>1
<1> QED
  BY <1>2, Invariance, PTL DEF Spec, FailsOnlyWhenFull

-----------------------------------------------------------------------------
(* First fit *)

\* The allocator starts as the abstract one.
LEMMA InitRefines == Init => PA!Init
BY DEF Init, PA!Init, Managed

\* A successful search is one first-fit allocation.
LEMMA FoundRefines ==
    ASSUME IInv, NEW s, Found(s)
    PROVE  PA!Next
<1>1. /\ pmm_ready /\ s \in Nat /\ count \in Nat \ {0} /\ s + count <= pmm_highest_page
      /\ Window(s, count) \cap used = {} /\ s + count <= p + 1 /\ NoWindow(count, p)
      /\ pmm_highest_page \in 0 .. MaxPages /\ p \in Nat /\ p <= pmm_highest_page
      /\ used' = used \cup (s .. s + count - 1)
      /\ pmm_highest_page' = pmm_highest_page /\ pmm_ready' = pmm_ready
  BY DEF Found, Take, bootVars, IInv, ScanInv, TypeInv
<1>2. s \in 1 .. pmm_highest_page - 1
  BY FoundNotZero
<1>3. PA!Fits(s, count)
  BY <1>1 DEF PA!Fits, PA!Window, Window, Managed
<1>4. ASSUME NEW r \in 0 .. s - 1 PROVE ~PA!Fits(r, count)
  <2>1. r + count <= p /\ r \in 0 .. p
    BY <1>1, <1>2
  <2>2. Window(r, count) \cap used # {}
    BY <1>1, <2>1 DEF NoWindow
  <2> QED
    BY <2>2 DEF PA!Fits, PA!Window, Window
<1>5. Managed' \ used' = (Managed \ used) \ (s .. s + count - 1)
  BY <1>1 DEF Managed
<1>6. PA!Alloc(count)
  BY <1>1, <1>2, <1>3, <1>4, <1>5 DEF PA!Alloc, PA!FirstFit, PA!Window
<1>7. count \in 1 .. MaxPages
  BY <1>1, MaxPagesAssumption
<1> QED
  BY <1>6, <1>7 DEF PA!Next

\* Every step is a step of the abstract allocator or leaves its state alone.
LEMMA StepRefines ==
    IInv /\ IInv' /\ [Next]_vars =>
        PA!Next \/ UNCHANGED <<pmm_ready, pmm_highest_page, Managed \ used>>
<1> DEFINE Same == UNCHANGED <<pmm_ready, pmm_highest_page, Managed \ used>>
<1> SUFFICES ASSUME IInv, IInv', [Next]_vars PROVE PA!Next \/ Same
  OBVIOUS
<1>1. UNCHANGED <<used, pmm_ready, pmm_highest_page>> => Same
  BY DEF Managed
<1>2. CASE pmm_init
  <2>1. /\ ~pmm_ready /\ pmm_ready' = TRUE /\ pmm_highest_page' \in 0 .. MaxPages
        /\ Managed' \ used' \subseteq 0 .. pmm_highest_page' - 1
    BY <1>2 DEF pmm_init, Managed, IInv, TypeInv
  <2> QED
    BY <2>1, Zenon DEF PA!Next, PA!Start
<1>3. ASSUME NEW n \in 1 .. MaxCount, pmm_alloc_pages(n) PROVE Same
  BY <1>1, <1>3 DEF pmm_alloc_pages, bitmapVars, bootVars
<1>4. CASE ScanPage
  <2>1. CASE Advance
    BY <1>1, <2>1 DEF Advance, bitmapVars, bootVars
  <2> QED
    BY <1>4, <2>1, PageCases, FoundRefines
<1>5. CASE ScanPages
  <2>1. CASE Advance
    BY <1>1, <2>1 DEF Advance, bitmapVars, bootVars
  <2> QED
    BY <1>5, <2>1, PagesCases, FoundRefines
<1>6. CASE OutOfMemory
  BY <1>1, <1>6 DEF OutOfMemory, bitmapVars, bootVars
<1>7. ASSUME NEW q \in Pages, pmm_free_page(q) PROVE PA!Next \/ Same
  <2>1. pmm_highest_page' = pmm_highest_page /\ pmm_ready' = pmm_ready /\ pmm_ready
    BY <1>7 DEF pmm_free_page, bootVars
  <2>2. CASE ClearsBit(q)
    <3>1. Managed' \ used' = (Managed \ used) \cup {q} /\ q < pmm_highest_page
      BY <1>7, <2>1, <2>2, MaxPagesAssumption
         DEF pmm_free_page, ClearsBit, Managed, Pages, IInv, TypeInv
    <3> QED
      BY <1>7, <2>1, <3>1 DEF PA!Next, PA!Free, Pages
  <2>3. CASE ~ClearsBit(q)
    BY <1>1, <1>7, <2>1, <2>3 DEF pmm_free_page, bitmapVars
  <2> QED
    BY <2>2, <2>3
<1>8. CASE UNCHANGED vars
  BY <1>1, <1>8 DEF vars, bitmapVars, bootVars
<1> QED
  BY <1>2, <1>3, <1>4, <1>5, <1>6, <1>7, <1>8 DEF Next

\* The bitmap searched from page 0, one page per step, is a first-fit allocator:
\* every call takes effect at once, on the lowest run that is long enough.
THEOREM Refinement == Spec => ImplementsPageAllocator
BY InitRefines, StepRefines, Invariance, PTL DEF Spec, ImplementsPageAllocator, PA!Spec

=============================================================================
