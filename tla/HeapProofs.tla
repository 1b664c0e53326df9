----------------------------- MODULE HeapProofs -----------------------------
(***************************************************************************)
(* Proofs about Heap, for every size of the header, the pages and the      *)
(* smallest block, for all sizes and alignments callers use, and any       *)
(* memory.                                                                 *)
(***************************************************************************)
EXTENDS Heap, WellFoundedInduction, TLAPS

Blocks == [addr : Nat, size : Nat]
Lives == [addr : Nat, size : Nat, ptr : Nat, bytes : Nat, align : Nat]

TypeInv == /\ free_list \in Seq(Blocks) /\ live \in SUBSET Lives /\ arenas \in SUBSET Blocks
           /\ heap_ready \in BOOLEAN

\* Blocks with no byte in common.
Apart(a, b) == End(a) <= b.addr \/ End(b) <= a.addr

\* The list is sorted by address, and its blocks are apart.
Sorted(list) == \A i, j \in 1 .. Len(list) : i < j => End(list[i]) <= list[j].addr

BlocksOf(list) == {list[i] : i \in 1 .. Len(list)}

ApartFromAll(list, b) == \A x \in BlocksOf(list) : Apart(x, b)

Owned(A) == UNION {ar.addr .. ar.addr + ar.size - 1 : ar \in A}

ListOwned(list, A) == \A x \in BlocksOf(list) : Bytes(x) \subseteq Owned(A)

\* What the list, the allocated blocks and the pages of the heap are to each other.
Disjoint(list, L, A) ==
    /\ Sorted(list)
    /\ \A a \in L : ApartFromAll(list, a)
    /\ \A a, b \in L : a # b => Apart(a, b)
    /\ ListOwned(list, A)
    /\ \A a \in L : Bytes(a) \subseteq Owned(A)

IInv == /\ TypeInv
        /\ Disjoint(free_list, live, arenas)
        /\ PayloadFits
        /\ ~heap_ready => live = {} /\ free_list = << >> /\ arenas = {}

-----------------------------------------------------------------------------
(* Numbers *)

\* A non-empty set of naturals has a smallest element.
LEMMA Smallest ==
    ASSUME NEW S, S \subseteq Nat, S # {}
    PROVE  \E x \in S : \A y \in S : x <= y
<1>1. OpToRel(<, Nat) = {ss \in Nat \X Nat : ss[1] < ss[2]}
  BY DEF OpToRel
<1>2. PICK x \in S : \A y \in S : ~(<<y, x>> \in OpToRel(<, Nat))
  BY NatLessThanWellFounded, WFMin
<1>3. ASSUME NEW y \in S PROVE x <= y
  <2>1. ~(<<y, x>> \in {ss \in Nat \X Nat : ss[1] < ss[2]})
    BY <1>1, <1>2
  <2> QED
    BY <2>1
<1> QED
  BY <1>3

\* align_up returns the first multiple of the alignment that is not below v.
LEMMA AlignUp ==
    ASSUME NEW v \in Nat, NEW a \in Nat \ {0}
    PROVE  /\ align_up(v, a) \in Nat /\ v <= align_up(v, a) /\ align_up(v, a) < v + a
           /\ align_up(v, a) % a = 0
<1> DEFINE n == v + a - 1
           q == n \div a
<1>1. n \in Nat /\ q \in Nat /\ n % a \in 0 .. a - 1 /\ n = a * q + (n % a)
  OBVIOUS
<1>2. align_up(v, a) = q * a /\ q * a = a * q /\ q * a \in Nat
  BY <1>1 DEF align_up
<1>3. (q * a) % a = 0
  BY <1>1
<1>4. q * a = n - (n % a)
  BY <1>1, <1>2
<1>5. v <= q * a /\ q * a < v + a
  BY <1>1, <1>4
<1> QED
  BY <1>2, <1>3, <1>5

-----------------------------------------------------------------------------
(* Sums over sets of blocks *)

\* The bytes of a block, with its header, and what heap_free_bytes and heap_used
\* add up: the sum as the model's SumOf computes it.
Weight(b) == b.size + Header

Pick(s) == CHOOSE x \in s : TRUE

SumOfSet(g, s) == IF s = {} THEN 0 ELSE Weight(Pick(s)) + g[s \ {Pick(s)}]

Sums(g, S) == g = [s \in SUBSET S |-> SumOfSet(g, s)]

Total(S) == (CHOOSE g : Sums(g, S))[S]

Weighed(S) == \A x \in S : Weight(x) \in Nat

\* A set of at most n elements.
Small(T, n) == \E f : T \subseteq {f[i] : i \in 1 .. n}

\* Pick chooses a member.
LEMMA PickIn ==
    ASSUME NEW s, s # {}
    PROVE  Pick(s) \in s
BY DEF Pick

\* A subset of a set with at most n members has at most n.
LEMMA SmallSubset ==
    ASSUME NEW T, NEW U \in SUBSET T, NEW n, Small(T, n)
    PROVE  Small(U, n)
BY Zenon DEF Small

\* Without one of its members a set of at most n has at most n - 1.
LEMMA SmallLess ==
    ASSUME NEW T, NEW n \in Nat, Small(T, n), NEW x \in T
    PROVE  n - 1 \in Nat /\ Small(T \ {x}, n - 1)
<1>1. PICK f : T \subseteq {f[i] : i \in 1 .. n}
  BY DEF Small
<1>2. PICK k \in 1 .. n : x = f[k]
  BY <1>1
<1> DEFINE g == [i \in 1 .. n - 1 |-> IF i < k THEN f[i] ELSE f[i + 1]]
<1>3. ASSUME NEW y \in T \ {x} PROVE y \in {g[i] : i \in 1 .. n - 1}
  <2>1. PICK j \in 1 .. n : y = f[j] /\ j # k
    BY <1>1, <1>2
  <2>2. CASE j < k
    <3>1. j \in 1 .. n - 1 /\ g[j] = y
      BY <1>2, <2>1, <2>2
    <3> QED
      BY <3>1
  <2>3. CASE j > k
    <3>1. j - 1 \in 1 .. n - 1 /\ (j - 1) + 1 = j /\ ~(j - 1 < k)
      BY <1>2, <2>1, <2>3
    <3>2. g[j - 1] = y
      BY <2>1, <3>1
    <3> QED
      BY <3>1, <3>2
  <2> QED
    BY <1>2, <2>1, <2>2, <2>3
<1>4. Small(T \ {x}, n - 1)
  BY <1>3, Zenon DEF Small
<1>5. n - 1 \in Nat
  BY <1>2
<1> QED
  BY <1>4, <1>5

\* With one more member a set of at most n has at most n + 1.
LEMMA SmallMore ==
    ASSUME NEW T, NEW n \in Nat, Small(T, n), NEW x
    PROVE  Small(T \cup {x}, n + 1)
<1>1. PICK f : T \subseteq {f[i] : i \in 1 .. n}
  BY DEF Small
<1> DEFINE g == [i \in 1 .. n + 1 |-> IF i <= n THEN f[i] ELSE x]
<1>2. ASSUME NEW y \in T PROVE y \in {g[i] : i \in 1 .. n + 1}
  <2>1. PICK j \in 1 .. n : y = f[j]
    BY <1>1
  <2>2. j \in 1 .. n + 1 /\ g[j] = y
    BY <2>1
  <2> QED
    BY <2>2
<1>3. n + 1 \in 1 .. n + 1 /\ g[n + 1] = x
  OBVIOUS
<1>4. T \cup {x} \subseteq {g[i] : i \in 1 .. n + 1}
  BY <1>2, <1>3
<1> QED
  BY <1>4, Zenon DEF Small

\* The function FoldSet computes with exists, for sets of few elements first.
SumsUpTo(g, S, n) == \A s \in SUBSET S : Small(s, n) => g[s] = SumOfSet(g, s)

\* A function that sums sets of up to n members extends to n + 1.
LEMMA SumStep ==
    ASSUME NEW S, Weighed(S), NEW n \in Nat, NEW g \in [SUBSET S -> Nat], SumsUpTo(g, S, n)
    PROVE  \E h \in [SUBSET S -> Nat] : SumsUpTo(h, S, n + 1)
<1> DEFINE h == [s \in SUBSET S |-> SumOfSet(g, s)]
<1>1. ASSUME NEW s \in SUBSET S, s # {}
      PROVE  s \ {Pick(s)} \in SUBSET S /\ Weight(Pick(s)) \in Nat /\ g[s \ {Pick(s)}] \in Nat
  BY <1>1, PickIn DEF Weighed
<1>2. h \in [SUBSET S -> Nat]
  <2>1. ASSUME NEW s \in SUBSET S PROVE SumOfSet(g, s) \in Nat
    BY <1>1 DEF SumOfSet
  <2> QED
    BY <2>1
<1>3. ASSUME NEW s \in SUBSET S, Small(s, n + 1) PROVE h[s] = SumOfSet(h, s)
  <2>1. CASE s = {}
    BY <2>1 DEF SumOfSet
  <2>2. CASE s # {}
    <3> DEFINE t == s \ {Pick(s)}
    <3>1. (n + 1) - 1 = n /\ n + 1 \in Nat
      OBVIOUS
    <3>2. t \in SUBSET S /\ Small(t, n)
      BY <1>1, <1>3, <2>2, <3>1, PickIn, SmallLess
    <3>3. g[t] = h[t]
      BY <3>2 DEF SumsUpTo
    <3>4. h[s] = Weight(Pick(s)) + g[t]
      BY <2>2 DEF SumOfSet
    <3> QED
      BY <2>2, <3>3, <3>4 DEF SumOfSet
  <2> QED
    BY <2>1, <2>2
<1>4. SumsUpTo(h, S, n + 1)
  BY <1>3, Zenon DEF SumsUpTo
<1> HIDE DEF h
<1> QED
  BY <1>2, <1>4

\* For every n there is a function that sums sets of up to n members.
LEMMA SumExists ==
    ASSUME NEW S, Weighed(S), NEW n \in Nat
    PROVE  \E g \in [SUBSET S -> Nat] : SumsUpTo(g, S, n)
<1> DEFINE Has(m) == \E g \in [SUBSET S -> Nat] : SumsUpTo(g, S, m)
           Bad == {m \in Nat : ~Has(m)}
<1>1. SUFFICES ASSUME Bad # {} PROVE FALSE
  BY Zenon
<1>2. PICK m \in Bad : \A k \in Bad : m <= k
  <2>1. Bad \subseteq Nat
    OBVIOUS
  <2> HIDE DEF Bad
  <2> QED
    BY <1>1, <2>1, Smallest, Zenon
<1>3. m # 0
  <2>1. [s \in SUBSET S |-> 0] \in [SUBSET S -> Nat]
    OBVIOUS
  <2>2. ASSUME NEW s \in SUBSET S, Small(s, 0) PROVE s = {}
    BY <2>2 DEF Small
  <2>3. SumsUpTo([s \in SUBSET S |-> 0], S, 0)
    BY <2>2 DEF SumsUpTo, SumOfSet
  <2>4. Has(0)
    BY <2>1, <2>3, Zenon
  <2> HIDE DEF Has
  <2> QED
    BY <2>4
<1>4. m - 1 \in Nat /\ (m - 1) + 1 = m /\ ~(m <= m - 1)
  BY <1>2, <1>3
<1>5. Has(m - 1)
  <2> HIDE DEF Has
  <2> QED
    BY <1>2, <1>4
<1>6. Has((m - 1) + 1)
  BY <1>4, <1>5, SumStep, Zenon
<1> HIDE DEF Has
<1> QED
  BY <1>2, <1>4, <1>6

\* Two such functions agree.
LEMMA SumAgree ==
    ASSUME NEW S, NEW T, NEW g, NEW h, Sums(g, S), Sums(h, T),
           NEW n \in Nat, NEW s \in SUBSET S, s \in SUBSET T, Small(s, n)
    PROVE  g[s] = h[s]
<1> DEFINE Differ(m) == \E u \in SUBSET S : u \in SUBSET T /\ Small(u, m) /\ g[u] # h[u]
           Bad == {m \in Nat : Differ(m)}
<1>1. SUFFICES ASSUME Bad # {} PROVE FALSE
  OBVIOUS
<1>2. PICK m \in Bad : \A k \in Bad : m <= k
  <2>1. Bad \subseteq Nat
    OBVIOUS
  <2> HIDE DEF Bad
  <2> QED
    BY <1>1, <2>1, Smallest, Zenon
<1>3. PICK u \in SUBSET S : u \in SUBSET T /\ Small(u, m) /\ g[u] # h[u]
  BY <1>2
<1>4. g[u] = SumOfSet(g, u) /\ h[u] = SumOfSet(h, u)
  BY <1>3, Zenon DEF Sums
<1>5. CASE u = {}
  BY <1>3, <1>4, <1>5 DEF SumOfSet
<1>6. CASE u # {}
  <2> DEFINE t == u \ {Pick(u)}
  <2>1. m - 1 \in Nat /\ Small(t, m - 1) /\ t \in SUBSET S /\ t \in SUBSET T /\ m \in Nat
    BY <1>2, <1>3, <1>6, PickIn, SmallLess
  <2>2. ~(m <= m - 1)
    BY <2>1
  <2>3. m - 1 \notin Bad
    <3> HIDE DEF Bad
    <3> QED
      BY <1>2, <2>2
  <2>4. g[t] = h[t]
    BY <2>1, <2>3
  <2> QED
    BY <1>3, <1>4, <1>6, <2>4 DEF SumOfSet
<1> QED
  BY <1>5, <1>6

\* Total of a small set is what a summing function gives.
LEMMA TotalIs ==
    ASSUME NEW S, Weighed(S), NEW n \in Nat, Small(S, n)
    PROVE  \E g \in [SUBSET S -> Nat] : Sums(g, S) /\ Total(S) = g[S]
<1>1. PICK g \in [SUBSET S -> Nat] : SumsUpTo(g, S, n)
  BY SumExists, Zenon
<1>2. ASSUME NEW s \in SUBSET S PROVE g[s] = SumOfSet(g, s)
  BY <1>1, SmallSubset DEF SumsUpTo
<1>3. Sums(g, S)
  BY <1>2 DEF Sums
<1> DEFINE h == CHOOSE f : Sums(f, S)
<1>4. Sums(h, S) /\ Total(S) = h[S]
  BY <1>3, Zenon DEF Total
<1> HIDE DEF h
<1>5. h[S] = g[S]
  <2>1. S \in SUBSET S
    OBVIOUS
  <2> QED
    BY <1>3, <1>4, <2>1, SumAgree
<1> QED
  BY <1>3, <1>4, <1>5

\* Elements may be added in any order.
LEMMA SumRemove ==
    ASSUME NEW S, Weighed(S), NEW g \in [SUBSET S -> Nat], Sums(g, S),
           NEW n \in Nat, NEW s \in SUBSET S, Small(s, n), NEW x \in s
    PROVE  g[s] = Weight(x) + g[s \ {x}]
<1> DEFINE Wrong(m) == \E u \in SUBSET S : Small(u, m) /\ \E y \in u : g[u] # Weight(y) + g[u \ {y}]
           Bad == {m \in Nat : Wrong(m)}
<1>1. SUFFICES ASSUME Bad # {} PROVE FALSE
  BY Zenon
<1>2. PICK m \in Bad : \A k \in Bad : m <= k
  <2>1. Bad \subseteq Nat
    OBVIOUS
  <2> HIDE DEF Bad
  <2> QED
    BY <1>1, <2>1, Smallest, Zenon
<1>25. PICK u \in SUBSET S : Small(u, m) /\ \E y \in u : g[u] # Weight(y) + g[u \ {y}]
  BY <1>2
<1>3. PICK y \in u : Small(u, m) /\ g[u] # Weight(y) + g[u \ {y}]
  BY <1>25, Zenon
<1> DEFINE p == Pick(u)
<1>4. p \in u /\ g[u] = Weight(p) + g[u \ {p}]
  <2>1. g[u] = SumOfSet(g, u)
    BY <1>3, Zenon DEF Sums
  <2> QED
    BY <1>3, <2>1, PickIn DEF SumOfSet
<1> HIDE DEF p
<1>5. p # y
  BY <1>3, <1>4, Zenon
<1>6. m - 1 \in Nat /\ m \in Nat /\ Small(u \ {p}, m - 1) /\ Small(u \ {y}, m - 1)
  BY <1>2, <1>3, <1>4, SmallLess
<1>7. ~Wrong(m - 1)
  <2>1. ~(m <= m - 1)
    BY <1>6
  <2>2. m - 1 \notin Bad
    <3> HIDE DEF Bad
    <3> QED
      BY <1>2, <2>1
  <2> QED
    BY <1>6, <2>2
<1>8. g[u \ {p}] = Weight(y) + g[(u \ {p}) \ {y}]
  <2>1. u \ {p} \in SUBSET S /\ y \in u \ {p}
    BY <1>5
  <2> QED
    BY <1>6, <1>7, <2>1, Zenon
<1>9. g[u \ {y}] = Weight(p) + g[(u \ {y}) \ {p}]
  <2>1. u \ {y} \in SUBSET S /\ p \in u \ {y}
    BY <1>4, <1>5
  <2> QED
    BY <1>6, <1>7, <2>1, Zenon
<1>10. (u \ {p}) \ {y} = (u \ {y}) \ {p}
  OBVIOUS
<1>11. /\ Weight(p) \in Nat /\ Weight(y) \in Nat /\ g[(u \ {p}) \ {y}] \in Nat
  <2>1. (u \ {p}) \ {y} \in SUBSET S /\ p \in S /\ y \in S
    BY <1>4
  <2> QED
    BY <2>1 DEF Weighed
<1> DEFINE a == g[(u \ {p}) \ {y}]
<1>12. /\ g[u] = Weight(p) + (Weight(y) + a) /\ Weight(y) + g[u \ {y}] = Weight(y) + (Weight(p) + a)
       /\ a \in Nat
  BY <1>4, <1>8, <1>9, <1>10, <1>11, Zenon
<1> HIDE DEF a
<1>13. Weight(p) + (Weight(y) + a) = Weight(y) + (Weight(p) + a)
  BY <1>11, <1>12
<1> QED
  BY <1>3, <1>12, <1>13

\* A new member adds its weight to the total.
LEMMA TotalAdd ==
    ASSUME NEW S, NEW x, x \notin S, Weighed(S \cup {x}), NEW n \in Nat, Small(S, n)
    PROVE  Total(S \cup {x}) = Weight(x) + Total(S) /\ Total(S) \in Nat
<1> DEFINE U == S \cup {x}
<1>1. n + 1 \in Nat /\ Small(U, n + 1) /\ Weighed(U) /\ Weighed(S)
  BY SmallMore DEF Weighed
<1>2. U \ {x} = S /\ x \in U /\ S \in SUBSET U /\ U \in SUBSET U /\ S \in SUBSET S
  OBVIOUS
<1> HIDE DEF U
<1>3. PICK g \in [SUBSET U -> Nat] : Sums(g, U) /\ Total(U) = g[U]
  BY <1>1, TotalIs, Zenon
<1>4. PICK h \in [SUBSET S -> Nat] : Sums(h, S) /\ Total(S) = h[S]
  BY <1>1, TotalIs, Zenon
<1>5. g[S] = h[S]
  BY <1>2, <1>3, <1>4, SumAgree
<1>6. g[U] = Weight(x) + g[S]
  <2>1. \A k \in Nat, s \in SUBSET U :
            Small(s, k) => \A y \in s : g[s] = Weight(y) + g[s \ {y}]
    BY <1>1, <1>3, SumRemove
  <2>2. g[U] = Weight(x) + g[U \ {x}]
    BY <1>1, <1>2, <2>1, Zenon
  <2> QED
    BY <1>2, <2>2, Zenon
<1>7. h[S] \in Nat
  BY <1>2, <1>4
<1> QED
  BY <1>3, <1>4, <1>5, <1>6, <1>7 DEF U

\* The total of nothing is 0.
LEMMA TotalEmpty == Total({}) = 0
<1>1. Small({}, 0) /\ Weighed({}) /\ 0 \in Nat
  BY DEF Small, Weighed
<1>2. PICK g \in [SUBSET {} -> Nat] : Sums(g, {}) /\ Total({}) = g[{}]
  BY <1>1, TotalIs, Zenon
<1>3. g[{}] = SumOfSet(g, {})
  BY <1>2, Zenon DEF Sums
<1> QED
  BY <1>2, <1>3 DEF SumOfSet

-----------------------------------------------------------------------------
(* Blocks *)

\* The sizes heap.c is compiled with are positive.
LEMMA Sized == Header \in Nat \ {0} /\ MinBlock \in Nat \ {0} /\ PageSize \in Nat \ {0}
            /\ PtrSize \in Nat \ {0} /\ HeapAlign \in Nat \ {0}
BY HeapAssumption

\* A block ends behind its address, because of its header.
LEMMA EndType ==
    ASSUME NEW b, b.addr \in Nat, b.size \in Nat
    PROVE  End(b) \in Nat /\ b.addr < End(b)
BY Sized DEF End

\* Blocks are apart when no byte is in both.
LEMMA ApartBytes ==
    ASSUME NEW a, NEW b, a.addr \in Nat, a.size \in Nat, b.addr \in Nat, b.size \in Nat
    PROVE  Apart(a, b) <=> Bytes(a) \cap Bytes(b) = {}
<1>1. End(a) \in Nat /\ a.addr < End(a) /\ End(b) \in Nat /\ b.addr < End(b)
  BY EndType
<1>2. ASSUME Apart(a, b) PROVE Bytes(a) \cap Bytes(b) = {}
  BY <1>1, <1>2 DEF Apart, Bytes
<1>3. ASSUME ~Apart(a, b) PROVE Bytes(a) \cap Bytes(b) # {}
  <2>1. b.addr < End(a) /\ a.addr < End(b)
    BY <1>1, <1>3 DEF Apart
  <2>2. CASE a.addr <= b.addr
    <3>1. b.addr \in Bytes(a) \cap Bytes(b)
      BY <1>1, <2>1, <2>2 DEF Bytes
    <3> QED
      BY <3>1
  <2>3. CASE b.addr <= a.addr
    <3>1. a.addr \in Bytes(a) \cap Bytes(b)
      BY <1>1, <2>1, <2>3 DEF Bytes
    <3> QED
      BY <3>1
  <2> QED
    BY <2>2, <2>3
<1> QED
  BY <1>2, <1>3

\* A merged block has the bytes of the two it is made of.
LEMMA MergedBytes ==
    ASSUME NEW a \in Blocks, NEW b \in Blocks, End(a) = b.addr
    PROVE  /\ Merged(a, b) \in Blocks /\ Merged(a, b).addr = a.addr
           /\ End(Merged(a, b)) = End(b)
           /\ Merged(a, b).size >= a.size /\ Merged(a, b).size >= b.size
           /\ Bytes(Merged(a, b)) = Bytes(a) \cup Bytes(b)
<1>1. /\ a.addr \in Nat /\ a.size \in Nat /\ b.addr \in Nat /\ b.size \in Nat
      /\ Header \in Nat
  BY Sized DEF Blocks
<1>2. Merged(a, b).addr = a.addr /\ Merged(a, b).size = a.size + Header + b.size
  BY DEF Merged, Block
<1>3. Merged(a, b) \in Blocks
  BY <1>1 DEF Merged, Block, Blocks
<1>4. End(Merged(a, b)) = End(b)
  BY <1>1, <1>2 DEF End
<1>5. End(a) \in Nat /\ End(b) \in Nat /\ a.addr < End(a) /\ b.addr < End(b)
  BY <1>1, EndType
<1>6. Bytes(Merged(a, b)) = Bytes(a) \cup Bytes(b)
  BY <1>1, <1>2, <1>4, <1>5 DEF Bytes
<1> QED
  BY <1>1, <1>2, <1>3, <1>4, <1>6

-----------------------------------------------------------------------------
(* Sequences with an element more or less *)

Follow(r, s, t) == /\ Len(r) = Len(s) + Len(t)
                   /\ \A j \in 1 .. Len(s) : r[j] = s[j]
                   /\ \A j \in 1 .. Len(t) : r[Len(s) + j] = t[j]

\* What the concatenation of two sequences is.
LEMMA Joined ==
    ASSUME NEW S, NEW s \in Seq(S), NEW t \in Seq(S)
    PROVE  s \o t \in Seq(S) /\ Follow(s \o t, s, t)
<1>1. s \o t \in Seq(S) /\ Len(s \o t) = Len(s) + Len(t)
  OBVIOUS
<1>2. /\ \A j \in 1 .. Len(s) : (s \o t)[j] = s[j]
      /\ \A j \in 1 .. Len(t) : (s \o t)[Len(s) + j] = t[j]
  OBVIOUS
<1> QED
  BY <1>1, <1>2 DEF Follow

OneMore(r, s, k, e) == /\ Len(r) = Len(s) + 1
                       /\ \A j \in 1 .. k - 1 : r[j] = s[j]
                       /\ r[k] = e
                       /\ \A j \in k + 1 .. Len(s) + 1 : r[j] = s[j - 1]

\* What linking an element into a list before position k gives.
LEMMA Inserting ==
    ASSUME NEW S, NEW s \in Seq(S), NEW k \in 1 .. Len(s) + 1, NEW e \in S
    PROVE  Linked(s, k, e) \in Seq(S) /\ OneMore(Linked(s, k, e), s, k, e)
<1> DEFINE a == SubSeq(s, 1, k - 1)
           c == SubSeq(s, k, Len(s))
           m == a \o <<e>>
           r == m \o c
<1>1. /\ a \in Seq(S) /\ Len(a) = k - 1 /\ \A j \in 1 .. k - 1 : a[j] = s[j]
  OBVIOUS
<1>2. /\ c \in Seq(S) /\ Len(c) = Len(s) - k + 1
      /\ \A j \in 1 .. Len(s) - k + 1 : c[j] = s[j + k - 1]
  OBVIOUS
<1> HIDE DEF a, c
<1>3. /\ m \in Seq(S) /\ Len(m) = k /\ m[k] = e /\ \A j \in 1 .. k - 1 : m[j] = s[j]
  BY <1>1, SMTT(20)
<1> HIDE DEF m
<1>4. Linked(s, k, e) = r
  BY DEF Linked, m, a, c
<1>5. /\ r \in Seq(S) /\ Len(r) = k + Len(c)
      /\ \A j \in 1 .. k : r[j] = m[j]
      /\ \A j \in 1 .. Len(c) : r[k + j] = c[j]
  <2>0. m \in Seq(S) /\ c \in Seq(S)
    BY <1>2, <1>3
  <2>1. r \in Seq(S) /\ Follow(r, m, c)
    BY <2>0, Joined
  <2> HIDE DEF r
  <2> QED
    BY <1>3, <2>1 DEF Follow
<1> HIDE DEF r
<1>6. k \in Nat /\ Len(s) \in Nat /\ Len(r) = Len(s) + 1
  BY <1>2, <1>5
<1>7. ASSUME NEW j \in k + 1 .. Len(s) + 1 PROVE r[j] = s[j - 1]
  <2>1. j - k \in 1 .. Len(c) /\ k + (j - k) = j /\ (j - k) + k - 1 = j - 1
    BY <1>2, <1>6
  <2>2. r[j] = c[j - k]
    BY <1>5, <2>1
  <2> QED
    BY <1>2, <2>1, <2>2
<1>8. r[k] = e /\ \A j \in 1 .. k - 1 : r[j] = s[j]
  BY <1>3, <1>5, <1>6
<1> QED
  BY <1>4, <1>5, <1>6, <1>7, <1>8 DEF OneMore

OneLess(r, s, k) == /\ Len(r) = Len(s) - 1
                    /\ \A j \in 1 .. k - 1 : r[j] = s[j]
                    /\ \A j \in k .. Len(s) - 1 : r[j] = s[j + 1]

\* What unlinking the element at position k gives.
LEMMA Removing ==
    ASSUME NEW S, NEW s \in Seq(S), NEW k \in 1 .. Len(s)
    PROVE  Unlinked(s, k) \in Seq(S) /\ OneLess(Unlinked(s, k), s, k)
<1> DEFINE a == SubSeq(s, 1, k - 1)
           c == SubSeq(s, k + 1, Len(s))
           r == a \o c
<1>1. /\ a \in Seq(S) /\ Len(a) = k - 1 /\ \A j \in 1 .. k - 1 : a[j] = s[j]
  OBVIOUS
<1>2. /\ c \in Seq(S) /\ Len(c) = Len(s) - k
      /\ \A j \in 1 .. Len(s) - k : c[j] = s[j + k]
  OBVIOUS
<1> HIDE DEF a, c
<1>3. Unlinked(s, k) = r
  BY DEF Unlinked, a, c
<1>4. /\ r \in Seq(S) /\ Len(r) = (k - 1) + Len(c)
      /\ \A j \in 1 .. k - 1 : r[j] = a[j]
      /\ \A j \in 1 .. Len(c) : r[(k - 1) + j] = c[j]
  <2>0. a \in Seq(S) /\ c \in Seq(S)
    BY <1>1, <1>2
  <2>1. r \in Seq(S) /\ Follow(r, a, c)
    BY <2>0, Joined
  <2> HIDE DEF r
  <2> QED
    BY <1>1, <2>1 DEF Follow
<1> HIDE DEF r
<1>5. k \in Nat /\ Len(s) \in Nat /\ Len(r) = Len(s) - 1
  BY <1>2, <1>4
<1>6. ASSUME NEW j \in k .. Len(s) - 1 PROVE r[j] = s[j + 1]
  <2>0. j \in Nat /\ k <= j /\ j <= Len(s) - 1 /\ k \in Nat /\ Len(s) \in Nat
    BY <1>5
  <2>1. /\ j - (k - 1) \in 1 .. Len(c) /\ (k - 1) + (j - (k - 1)) = j
        /\ (j - (k - 1)) + k = j + 1
    BY <1>2, <2>0
  <2>2. r[j] = c[j - (k - 1)]
    BY <1>4, <2>1
  <2> QED
    BY <1>2, <2>1, <2>2
<1>7. \A j \in 1 .. k - 1 : r[j] = s[j]
  BY <1>1, <1>4
<1> QED
  BY <1>3, <1>4, <1>5, <1>6, <1>7, Zenon DEF OneLess

-----------------------------------------------------------------------------
(* insert_free *)

\* The walk ends between the blocks before b and those behind it.
LEMMA PositionSplits ==
    ASSUME NEW list \in Seq(Blocks), NEW b \in Blocks, Sorted(list), ApartFromAll(list, b)
    PROVE  LET k == Position(list, b.addr)
           IN  /\ k \in 1 .. Len(list) + 1
               /\ \A i \in 1 .. Len(list) : i < k => End(list[i]) <= b.addr
               /\ \A i \in 1 .. Len(list) : i >= k => End(b) <= list[i].addr
<1> DEFINE Stops(k) == /\ \A i \in 1 .. k - 1 : list[i].addr < b.addr
                       /\ k <= Len(list) => list[k].addr >= b.addr
           S == {k \in 1 .. Len(list) + 1 : k <= Len(list) => list[k].addr >= b.addr}
           p == Position(list, b.addr)
<1>1. /\ Len(list) \in Nat /\ b.addr \in Nat /\ b.size \in Nat
      /\ \A i \in 1 .. Len(list) : list[i] \in Blocks
  <2>1. \A i \in 1 .. Len(list) : list[i] \in Blocks
    OBVIOUS
  <2>2. b.addr \in Nat /\ b.size \in Nat
    BY DEF Blocks
  <2> QED
    BY <2>1, <2>2
<1>2. \A i \in 1 .. Len(list) :
          /\ list[i].addr \in Nat /\ list[i].size \in Nat
          /\ End(list[i]) \in Nat /\ list[i].addr < End(list[i])
  BY <1>1, EndType DEF Blocks
<1>3. End(b) \in Nat /\ b.addr < End(b)
  BY <1>1, EndType
<1>4. PICK m \in S : \A y \in S : m <= y
  <2>1. Len(list) + 1 \in S /\ S \subseteq Nat
    BY <1>1
  <2> HIDE DEF S
  <2> QED
    BY <2>1, Smallest, Zenon
<1>5. Stops(m) /\ m \in 1 .. Len(list) + 1
  <2>1. ASSUME NEW i \in 1 .. m - 1 PROVE list[i].addr < b.addr
    <3>1. i \in 1 .. Len(list) /\ ~(m <= i)
      BY <1>1, <1>4
    <3>2. i \notin S
      <4> HIDE DEF S
      <4> QED
        BY <1>4, <3>1
    <3> QED
      BY <1>1, <1>2, <3>1, <3>2
  <2> QED
    BY <1>4, <2>1
<1>6. p \in 1 .. Len(list) + 1 /\ Stops(p)
  <2>1. p = CHOOSE k \in 1 .. Len(list) + 1 : Stops(k)
    BY DEF Position
  <2> HIDE DEF Stops, p
  <2> QED
    BY <1>5, <2>1
<1> HIDE DEF p
<1>7. ASSUME NEW i \in 1 .. Len(list), i < p PROVE End(list[i]) <= b.addr
  <2>1. list[i].addr < b.addr
    BY <1>1, <1>6, <1>7
  <2>2. Apart(list[i], b)
    BY DEF ApartFromAll, BlocksOf
  <2> QED
    BY <1>1, <1>2, <1>3, <2>1, <2>2 DEF Apart
<1>8. ASSUME NEW i \in 1 .. Len(list), i >= p PROVE End(b) <= list[i].addr
  <2>1. p \in 1 .. Len(list) /\ list[p].addr >= b.addr
    BY <1>1, <1>6, <1>8
  <2>2. list[i].addr >= list[p].addr
    <3>1. CASE i = p
      BY <1>2, <3>1
    <3>2. CASE i > p
      <4>1. End(list[p]) <= list[i].addr
        BY <2>1, <3>2 DEF Sorted
      <4> QED
        BY <1>2, <2>1, <4>1
    <3> QED
      BY <1>6, <1>8, <3>1, <3>2
  <2>3. Apart(list[i], b)
    BY DEF ApartFromAll, BlocksOf
  <2> QED
    BY <1>1, <1>2, <1>3, <2>1, <2>2, <2>3, SMTT(20) DEF Apart
<1> QED
  BY <1>6, <1>7, <1>8 DEF p

\* What insert_free makes of a list: b is one more block of it, or is merged with
\* the block behind it or with the one before it.
Inserted(r, list, b) ==
    \/ BlocksOf(r) = BlocksOf(list) \cup {b}
    \/ \E x \in BlocksOf(list) :
          End(b) = x.addr /\ BlocksOf(r) = (BlocksOf(list) \ {x}) \cup {Merged(b, x)}
    \/ \E x \in BlocksOf(list) :
          End(x) = b.addr /\ BlocksOf(r) = (BlocksOf(list) \ {x}) \cup {Merged(x, b)}

\* The blocks of a list are different.
LEMMA SortedDistinct ==
    ASSUME NEW list \in Seq(Blocks), Sorted(list),
           NEW i \in 1 .. Len(list), NEW j \in 1 .. Len(list), list[i] = list[j]
    PROVE  i = j
<1>1. /\ list[i].addr \in Nat /\ list[i].size \in Nat
      /\ list[j].addr \in Nat /\ list[j].size \in Nat
  <2>1. list[i] \in Blocks /\ list[j] \in Blocks
    OBVIOUS
  <2> QED
    BY <2>1 DEF Blocks
<1>2. /\ End(list[i]) \in Nat /\ list[i].addr < End(list[i])
      /\ End(list[j]) \in Nat /\ list[j].addr < End(list[j])
  BY <1>1, EndType
<1>3. ~(i < j)
  BY <1>1, <1>2 DEF Sorted
<1>4. ~(j < i)
  BY <1>1, <1>2 DEF Sorted
<1> QED
  BY <1>3, <1>4

\* One element of a list is replaced.
Swapped(r, list, k, e) == /\ Len(r) = Len(list)
                          /\ \A i \in 1 .. Len(list) : r[i] = IF i = k THEN e ELSE list[i]
                          /\ BlocksOf(r) = (BlocksOf(list) \ {list[k]}) \cup {e}

\* What replacing an element of a sorted list gives.
LEMMA Replaced ==
    ASSUME NEW list \in Seq(Blocks), Sorted(list), NEW k \in 1 .. Len(list), NEW e \in Blocks
    PROVE  /\ [list EXCEPT ![k] = e] \in Seq(Blocks)
           /\ Swapped([list EXCEPT ![k] = e], list, k, e)
<1> DEFINE r == [list EXCEPT ![k] = e]
<1>1. r \in Seq(Blocks) /\ Len(r) = Len(list)
  OBVIOUS
<1>2. \A i \in 1 .. Len(list) : r[i] = IF i = k THEN e ELSE list[i]
  OBVIOUS
<1> HIDE DEF r
<1>3. ASSUME NEW i \in 1 .. Len(list), i # k PROVE list[i] # list[k]
  BY <1>3, SortedDistinct
<1>4. ASSUME NEW x \in BlocksOf(r) PROVE x \in (BlocksOf(list) \ {list[k]}) \cup {e}
  <2>1. PICK i \in 1 .. Len(list) : x = r[i]
    BY <1>1 DEF BlocksOf
  <2> QED
    BY <1>2, <1>3, <2>1 DEF BlocksOf
<1>5. ASSUME NEW x \in (BlocksOf(list) \ {list[k]}) \cup {e} PROVE x \in BlocksOf(r)
  <2>1. CASE x = e
    BY <1>1, <1>2, <2>1 DEF BlocksOf
  <2>2. CASE x \in BlocksOf(list) \ {list[k]}
    <3>1. PICK i \in 1 .. Len(list) : x = list[i] /\ i # k
      BY <2>2 DEF BlocksOf
    <3> QED
      BY <1>1, <1>2, <3>1 DEF BlocksOf
  <2> QED
    BY <2>1, <2>2
<1> QED
  BY <1>1, <1>2, <1>4, <1>5, Zenon DEF r, Swapped

\* insert_free yields a sorted list with the block inserted, or merged into a neighbour.
LEMMA Inserts ==
    ASSUME NEW list \in Seq(Blocks), NEW b \in Blocks, Sorted(list), ApartFromAll(list, b)
    PROVE  LET r == insert_free(list, b)
           IN  r \in Seq(Blocks) /\ Sorted(r) /\ Inserted(r, list, b)
<1> DEFINE k == Position(list, b.addr)
           r == insert_free(list, b)
<1>1. /\ k \in 1 .. Len(list) + 1
      /\ \A i \in 1 .. Len(list) : i < k => End(list[i]) <= b.addr
      /\ \A i \in 1 .. Len(list) : i >= k => End(b) <= list[i].addr
  BY PositionSplits
<1>2. \A i \in 1 .. Len(list) :
          /\ list[i] \in Blocks /\ list[i].addr \in Nat
          /\ End(list[i]) \in Nat /\ list[i].addr < End(list[i])
  <2> TAKE i \in 1 .. Len(list)
  <2>1. list[i] \in Blocks
    OBVIOUS
  <2> QED
    BY <2>1, EndType DEF Blocks
<1>3. b.addr \in Nat /\ End(b) \in Nat /\ b.addr < End(b)
  BY EndType DEF Blocks
<1>4. r = IF k <= Len(list) /\ End(b) = list[k].addr
          THEN [list EXCEPT ![k] = Merged(b, list[k])]
          ELSE IF k > 1 /\ End(list[k - 1]) = b.addr
               THEN [list EXCEPT ![k - 1] = Merged(list[k - 1], b)]
               ELSE Linked(list, k, b)
  BY DEF insert_free
<1> HIDE DEF k, r
<1>5. CASE k <= Len(list) /\ End(b) = list[k].addr
  <2> DEFINE e == Merged(b, list[k])
  <2>1. k \in 1 .. Len(list) /\ list[k] \in BlocksOf(list)
    BY <1>1, <1>5 DEF BlocksOf
  <2>2. e \in Blocks /\ e.addr = b.addr /\ End(e) = End(list[k])
    BY <1>2, <1>5, <2>1, MergedBytes
  <2>3. r = [list EXCEPT ![k] = e]
    BY <1>4, <1>5
  <2> HIDE DEF e
  <2>35. r \in Seq(Blocks) /\ Swapped(r, list, k, e)
    BY <2>1, <2>2, <2>3, Replaced, Zenon
  <2>4. /\ r \in Seq(Blocks) /\ Len(r) = Len(list)
        /\ \A i \in 1 .. Len(list) : r[i] = IF i = k THEN e ELSE list[i]
        /\ BlocksOf(r) = (BlocksOf(list) \ {list[k]}) \cup {e}
    BY <2>35 DEF Swapped
  <2>5. ASSUME NEW i \in 1 .. Len(list), NEW j \in 1 .. Len(list), i < j
        PROVE  End(r[i]) <= r[j].addr
    <3>1. End(list[i]) <= list[j].addr
      BY <2>5 DEF Sorted
    <3>2. CASE i = k
      BY <2>2, <2>4, <2>5, <3>1, <3>2
    <3>3. CASE j = k
      BY <1>1, <2>2, <2>4, <2>5, <3>3
    <3>4. CASE i # k /\ j # k
      BY <2>4, <3>1, <3>4
    <3> QED
      BY <3>2, <3>3, <3>4
  <2>6. Sorted(r)
    BY <2>4, <2>5 DEF Sorted
  <2>7. Inserted(r, list, b)
    BY <1>5, <2>1, <2>4 DEF Inserted, e
  <2> QED
    BY <2>4, <2>6, <2>7 DEF r
<1>6. CASE ~(k <= Len(list) /\ End(b) = list[k].addr) /\ k > 1 /\ End(list[k - 1]) = b.addr
  <2> DEFINE h == k - 1
             e == Merged(list[h], b)
  <2>1. h \in 1 .. Len(list) /\ list[h] \in BlocksOf(list) /\ End(list[h]) = b.addr
    BY <1>1, <1>6 DEF BlocksOf
  <2>2. e \in Blocks /\ e.addr = list[h].addr /\ End(e) = End(b)
    BY <1>2, <1>6, <2>1, MergedBytes
  <2>3. r = [list EXCEPT ![h] = e]
    BY <1>4, <1>6
  <2>31. \A j \in 1 .. Len(list) : h < j => j >= k
    BY <1>1
  <2> HIDE DEF e, h
  <2>35. r \in Seq(Blocks) /\ Swapped(r, list, h, e)
    BY <2>1, <2>2, <2>3, Replaced, Zenon
  <2>4. /\ r \in Seq(Blocks) /\ Len(r) = Len(list)
        /\ \A i \in 1 .. Len(list) : r[i] = IF i = h THEN e ELSE list[i]
        /\ BlocksOf(r) = (BlocksOf(list) \ {list[h]}) \cup {e}
    BY <2>35 DEF Swapped
  <2>5. ASSUME NEW i \in 1 .. Len(list), NEW j \in 1 .. Len(list), i < j
        PROVE  End(r[i]) <= r[j].addr
    <3>1. End(list[i]) <= list[j].addr
      BY <2>5 DEF Sorted
    <3>2. CASE i = h
      BY <1>1, <2>2, <2>31, <2>4, <2>5, <3>2
    <3>3. CASE j = h
      BY <2>2, <2>4, <2>5, <3>1, <3>3
    <3>4. CASE i # h /\ j # h
      BY <2>4, <3>1, <3>4
    <3> QED
      BY <3>2, <3>3, <3>4
  <2>6. Sorted(r)
    BY <2>4, <2>5 DEF Sorted
  <2>7. Inserted(r, list, b)
    BY <2>1, <2>4 DEF Inserted, e
  <2> QED
    BY <2>4, <2>6, <2>7 DEF r
<1>7. CASE ~(k <= Len(list) /\ End(b) = list[k].addr) /\ ~(k > 1 /\ End(list[k - 1]) = b.addr)
  <2>1. r = Linked(list, k, b)
    BY <1>4, <1>7, Zenon
  <2>2. /\ r \in Seq(Blocks) /\ Len(r) = Len(list) + 1
        /\ \A j \in 1 .. k - 1 : r[j] = list[j]
        /\ r[k] = b
        /\ \A j \in k + 1 .. Len(list) + 1 : r[j] = list[j - 1]
    <3>1. r \in Seq(Blocks) /\ OneMore(r, list, k, b)
      BY <1>1, <2>1, Inserting
    <3> QED
      BY <3>1 DEF OneMore
  <2>3. ASSUME NEW i \in 1 .. Len(list) + 1, NEW j \in 1 .. Len(list) + 1, i < j
        PROVE  End(r[i]) <= r[j].addr
    <3>1. CASE j < k
      <4>1. i \in 1 .. k - 1 /\ j \in 1 .. k - 1 /\ i \in 1 .. Len(list) /\ j \in 1 .. Len(list)
        BY <1>1, <2>3, <3>1
      <4> QED
        BY <2>2, <2>3, <4>1 DEF Sorted
    <3>2. CASE j = k
      <4>1. i \in 1 .. k - 1 /\ i \in 1 .. Len(list) /\ i < k
        BY <1>1, <2>3, <3>2
      <4> QED
        BY <1>1, <2>2, <3>2, <4>1
    <3>3. CASE j > k
      <4>1. j \in k + 1 .. Len(list) + 1 /\ j - 1 \in 1 .. Len(list) /\ j - 1 >= k
        BY <1>1, <3>3
      <4>2. r[j] = list[j - 1]
        BY <2>2, <4>1
      <4>3. CASE i < k
        <5>1. i \in 1 .. k - 1 /\ i \in 1 .. Len(list) /\ i < j - 1
          BY <1>1, <4>1, <4>3
        <5> QED
          BY <2>2, <4>1, <4>2, <5>1 DEF Sorted
      <4>4. CASE i = k
        BY <1>1, <2>2, <4>1, <4>2, <4>4
      <4>5. CASE i > k
        <5>1. i \in k + 1 .. Len(list) + 1 /\ i - 1 \in 1 .. Len(list) /\ i - 1 < j - 1
          BY <1>1, <2>3, <4>5
        <5> QED
          BY <2>2, <4>1, <4>2, <5>1, SMTT(20) DEF Sorted
      <4> QED
        BY <1>1, <4>3, <4>4, <4>5
    <3> QED
      BY <1>1, <3>1, <3>2, <3>3
  <2>4. Sorted(r)
    BY <2>2, <2>3 DEF Sorted
  <2>5. ASSUME NEW x \in BlocksOf(r) PROVE x \in BlocksOf(list) \cup {b}
    <3>1. PICK j \in 1 .. Len(list) + 1 : x = r[j]
      BY <2>2 DEF BlocksOf
    <3>2. CASE j < k
      <4>1. j \in 1 .. k - 1 /\ j \in 1 .. Len(list)
        BY <1>1, <3>2
      <4> QED
        BY <2>2, <3>1, <4>1 DEF BlocksOf
    <3>3. CASE j > k
      <4>1. j \in k + 1 .. Len(list) + 1 /\ j - 1 \in 1 .. Len(list)
        BY <1>1, <3>3
      <4> QED
        BY <2>2, <3>1, <4>1 DEF BlocksOf
    <3> QED
      BY <1>1, <2>2, <3>1, <3>2, <3>3
  <2>6. ASSUME NEW x \in BlocksOf(list) \cup {b} PROVE x \in BlocksOf(r)
    <3>1. CASE x = b
      BY <1>1, <2>2, <3>1 DEF BlocksOf
    <3>2. CASE x \in BlocksOf(list)
      <4>1. PICK i \in 1 .. Len(list) : x = list[i]
        BY <3>2 DEF BlocksOf
      <4>2. CASE i < k
        <5>1. i \in 1 .. k - 1 /\ i \in 1 .. Len(list) + 1
          BY <1>1, <4>2
        <5> QED
          BY <2>2, <4>1, <5>1 DEF BlocksOf
      <4>3. CASE i >= k
        <5>1. i + 1 \in k + 1 .. Len(list) + 1 /\ i + 1 \in 1 .. Len(list) + 1 /\ (i + 1) - 1 = i
          BY <1>1, <4>3
        <5>2. r[i + 1] = list[i]
          BY <2>2, <5>1
        <5> QED
          BY <2>2, <4>1, <5>1, <5>2 DEF BlocksOf
      <4> QED
        BY <1>1, <4>2, <4>3
    <3> QED
      BY <3>1, <3>2
  <2>7. Inserted(r, list, b)
    BY <2>5, <2>6 DEF Inserted
  <2> QED
    BY <2>2, <2>4, <2>7 DEF r
<1> QED
  BY <1>5, <1>6, <1>7

-----------------------------------------------------------------------------
(* The list, the allocated blocks and the pages of the heap *)

Placed(b) == b.addr \in Nat /\ b.size \in Nat

\* Free and live blocks have an address and a size.
LEMMA BlockPlaced ==
    ASSUME NEW b, b \in Blocks \/ b \in Lives
    PROVE  Placed(b)
BY DEF Placed, Blocks, Lives

\* The blocks of a free list are blocks.
LEMMA BlocksOfType ==
    ASSUME NEW list \in Seq(Blocks)
    PROVE  BlocksOf(list) \subseteq Blocks
BY DEF BlocksOf

\* Apart is symmetric.
LEMMA ApartSym ==
    ASSUME NEW a, NEW b, Apart(a, b)
    PROVE  Apart(b, a)
BY DEF Apart

\* What is apart from two adjacent blocks is apart from the merged one.
LEMMA MergedApart ==
    ASSUME NEW x \in Blocks, NEW y \in Blocks, End(x) = y.addr,
           NEW a, Placed(a), Apart(x, a), Apart(y, a)
    PROVE  Apart(Merged(x, y), a)
<1>1. /\ Merged(x, y) \in Blocks /\ Bytes(Merged(x, y)) = Bytes(x) \cup Bytes(y)
  BY MergedBytes
<1>2. Placed(x) /\ Placed(y) /\ Placed(Merged(x, y))
  BY <1>1, BlockPlaced
<1>3. Bytes(x) \cap Bytes(a) = {} /\ Bytes(y) \cap Bytes(a) = {}
  BY <1>2, ApartBytes DEF Placed
<1>4. Bytes(Merged(x, y)) \cap Bytes(a) = {}
  BY <1>1, <1>3
<1> QED
  BY <1>2, <1>4, ApartBytes DEF Placed

\* A list has at most as many blocks as elements.
LEMMA BlocksOfSmall ==
    ASSUME NEW list \in Seq(Blocks)
    PROVE  Small(BlocksOf(list), Len(list)) /\ Len(list) \in Nat
BY DEF Small, BlocksOf

\* Free and live blocks have a weight.
LEMMA BlocksWeighed ==
    ASSUME NEW S, S \subseteq Blocks \/ S \subseteq Lives
    PROVE  Weighed(S)
BY Sized DEF Weighed, Weight, Blocks, Lives

\* A total is a natural number.
LEMMA TotalType ==
    ASSUME NEW S, Weighed(S), NEW n \in Nat, Small(S, n)
    PROVE  Total(S) \in Nat
<1>1. PICK g \in [SUBSET S -> Nat] : Sums(g, S) /\ Total(S) = g[S]
  BY TotalIs, Zenon
<1> QED
  BY <1>1

\* A block taken out of a set.
LEMMA TotalWithout ==
    ASSUME NEW S, S \subseteq Blocks \/ S \subseteq Lives, NEW n \in Nat, Small(S, n), NEW x \in S
    PROVE  /\ Total(S) = Weight(x) + Total(S \ {x}) /\ Total(S \ {x}) \in Nat
           /\ Small(S \ {x}, n)
<1> DEFINE T == S \ {x}
<1>1. x \notin T /\ T \cup {x} = S /\ T \in SUBSET S
  OBVIOUS
<1>2. Small(T, n) /\ Weighed(S)
  BY <1>1, SmallSubset, BlocksWeighed
<1> HIDE DEF T
<1>3. Total(T \cup {x}) = Weight(x) + Total(T) /\ Total(T) \in Nat
  BY <1>1, <1>2, TotalAdd
<1> QED
  BY <1>1, <1>2, <1>3 DEF T

\* The total of a free list is a natural number.
LEMMA ListTotal ==
    ASSUME NEW list \in Seq(Blocks)
    PROVE  Total(BlocksOf(list)) \in Nat
<1> DEFINE S == BlocksOf(list)
<1>1. S \subseteq Blocks /\ Small(S, Len(list)) /\ Len(list) \in Nat
  BY BlocksOfSmall, BlocksOfType
<1> HIDE DEF S
<1>2. Weighed(S)
  BY <1>1, BlocksWeighed
<1>3. Total(S) \in Nat
  BY <1>1, <1>2, TotalType
<1> QED
  BY <1>3 DEF S

\* The sum of two blocks with their headers and of the rest, in two orders.
LEMMA HeadersAdd ==
    ASSUME NEW j \in Nat, NEW k \in Nat, NEW h \in Nat, NEW u \in Nat
    PROVE  /\ (j + h + k + h) + u = ((k + h) + u) + (j + h)
           /\ (k + h) + u \in Nat
OBVIOUS

\* insert_free adds the bytes of the block to those of the list.
LEMMA InsertTotal ==
    ASSUME NEW list \in Seq(Blocks), NEW r \in Seq(Blocks), NEW b \in Blocks,
           ApartFromAll(list, b), Inserted(r, list, b)
    PROVE  /\ Total(BlocksOf(r)) = Total(BlocksOf(list)) + Weight(b)
           /\ Total(BlocksOf(list)) \in Nat
<1> DEFINE B == BlocksOf(list)
           n == Len(list)
<1>1. B \in SUBSET Blocks /\ Small(B, n) /\ n \in Nat /\ \A x \in B : Apart(x, b)
  BY BlocksOfType, BlocksOfSmall DEF ApartFromAll
<1> HIDE DEF B, n
<1>2. /\ Header \in Nat /\ b.addr \in Nat /\ b.size \in Nat /\ End(b) \in Nat
      /\ b.addr < End(b) /\ Weight(b) = b.size + Header
  BY Sized, EndType, SMTT(20) DEF Blocks, Weight
<1>3. ASSUME NEW x \in B
      PROVE  /\ x.addr \in Nat /\ x.size \in Nat /\ End(x) \in Nat /\ x.addr < End(x)
             /\ Weight(x) = x.size + Header /\ x \in Blocks
             /\ End(x) <= b.addr \/ End(b) <= x.addr
  BY <1>1, EndType DEF Blocks, Weight, Apart
<1>4. CASE BlocksOf(r) = B \cup {b}
  <2>1. b \notin B
    BY <1>2, <1>3
  <2>2. Weighed(B \cup {b})
    BY <1>1, BlocksWeighed
  <2>3. Total(B \cup {b}) = Weight(b) + Total(B) /\ Total(B) \in Nat
    BY <1>1, <2>1, <2>2, TotalAdd
  <2> QED
    BY <1>2, <1>4, <2>3 DEF B
<1>5. ASSUME NEW x \in B, NEW m \in Blocks, m \notin B, m.size = b.size + Header + x.size,
             BlocksOf(r) = (B \ {x}) \cup {m}
      PROVE  Total(BlocksOf(r)) = Total(B) + Weight(b) /\ Total(B) \in Nat
  <2>1. /\ Total(B) = Weight(x) + Total(B \ {x}) /\ Total(B \ {x}) \in Nat
        /\ Small(B \ {x}, n)
    BY <1>1, TotalWithout
  <2>2. m \notin B \ {x} /\ Weighed((B \ {x}) \cup {m})
    BY <1>1, <1>5, BlocksWeighed
  <2>3. Total((B \ {x}) \cup {m}) = Weight(m) + Total(B \ {x})
    BY <1>1, <2>1, <2>2, TotalAdd, Zenon
  <2>4. Weight(m) = b.size + Header + x.size + Header
    BY <1>5 DEF Weight
  <2> DEFINE t == Total(B \ {x})
  <2>5. /\ Total(B) = (x.size + Header) + t /\ t \in Nat
        /\ Total(BlocksOf(r)) = (b.size + Header + x.size + Header) + t
        /\ x.size \in Nat /\ b.size \in Nat /\ Header \in Nat /\ Weight(b) = b.size + Header
    <3>1. Total(BlocksOf(r)) = Weight(m) + t
      BY <1>5, <2>3, Zenon
    <3>2. Weight(x) = x.size + Header /\ x.size \in Nat
      BY <1>3, Zenon
    <3> QED
      BY <1>2, <2>1, <2>4, <3>1, <3>2, Zenon
  <2> HIDE DEF t
  <2>6. /\ (b.size + Header + x.size + Header) + t = ((x.size + Header) + t) + (b.size + Header)
        /\ (x.size + Header) + t \in Nat
    <3>1. PICK j \in Nat, k \in Nat, h \in Nat, u \in Nat :
               j = b.size /\ k = x.size /\ h = Header /\ u = t
      BY <2>5, Zenon
    <3>2. (j + h + k + h) + u = ((k + h) + u) + (j + h) /\ (k + h) + u \in Nat
      BY HeadersAdd
    <3> QED
      BY <3>1, <3>2, Zenon
  <2> QED
    BY <2>5, <2>6, Zenon
<1>6. ASSUME NEW x \in B, End(b) = x.addr, BlocksOf(r) = (B \ {x}) \cup {Merged(b, x)}
      PROVE  Total(BlocksOf(r)) = Total(B) + Weight(b) /\ Total(B) \in Nat
  <2> DEFINE m == Merged(b, x)
  <2>1. m \in Blocks /\ m.addr = b.addr /\ End(m) = End(x) /\ m.size = b.size + Header + x.size
    BY <1>3, <1>6, MergedBytes DEF Merged, Block
  <2> HIDE DEF m
  <2>2. ASSUME m \in B PROVE FALSE
    <3>1. End(m) <= b.addr \/ End(b) <= m.addr
      BY <1>3, <2>2
    <3>2. x.addr \in Nat /\ End(x) \in Nat /\ x.addr < End(x)
      BY <1>3
    <3> QED
      BY <1>2, <1>6, <2>1, <3>1, <3>2
  <2> QED
    BY <1>5, <1>6, <2>1, <2>2, Zenon DEF m
<1>7. ASSUME NEW x \in B, End(x) = b.addr, BlocksOf(r) = (B \ {x}) \cup {Merged(x, b)}
      PROVE  Total(BlocksOf(r)) = Total(B) + Weight(b) /\ Total(B) \in Nat
  <2> DEFINE m == Merged(x, b)
  <2>1. m \in Blocks /\ m.addr = x.addr /\ End(m) = End(b) /\ m.size = x.size + Header + b.size
    BY <1>3, <1>7, MergedBytes DEF Merged, Block
  <2> HIDE DEF m
  <2>2. ASSUME m \in B PROVE FALSE
    <3>1. End(m) <= b.addr \/ End(b) <= m.addr
      BY <1>3, <2>2
    <3>2. x.addr \in Nat /\ End(x) \in Nat /\ x.addr < End(x)
      BY <1>3
    <3> QED
      BY <1>2, <1>7, <2>1, <3>1, <3>2
  <2>3. m.size = b.size + Header + x.size
    BY <1>2, <1>3, <2>1
  <2> QED
    BY <1>5, <1>7, <2>1, <2>2, <2>3, Zenon DEF m
<1> QED
  BY <1>4, <1>6, <1>7 DEF Inserted, B

\* insert_free keeps the free list sorted, disjoint and inside the arenas.
LEMMA InsertKeeps ==
    ASSUME NEW list \in Seq(Blocks), NEW b \in Blocks, NEW L \in SUBSET Lives, NEW A,
           Disjoint(list, L, A), ApartFromAll(list, b), \A a \in L : Apart(a, b),
           Bytes(b) \subseteq Owned(A)
    PROVE  /\ insert_free(list, b) \in Seq(Blocks)
           /\ Disjoint(insert_free(list, b), L, A)
           /\ Inserted(insert_free(list, b), list, b)
<1> DEFINE r == insert_free(list, b)
<1>1. r \in Seq(Blocks) /\ Sorted(r) /\ Inserted(r, list, b)
  BY Inserts DEF Disjoint
<1> HIDE DEF r
<1>2. BlocksOf(list) \subseteq Blocks
  BY BlocksOfType
<1>3. ASSUME NEW x \in BlocksOf(r)
      PROVE  Bytes(x) \subseteq Owned(A) /\ \A a \in L : Apart(x, a)
  <2>1. \A y \in BlocksOf(list) :
            y \in Blocks /\ Bytes(y) \subseteq Owned(A) /\ \A a \in L : Apart(y, a)
    BY <1>2 DEF Disjoint, ListOwned, ApartFromAll
  <2>2. \A a \in L : Apart(b, a) /\ Placed(a)
    BY ApartSym, BlockPlaced
  <2>3. CASE x \in BlocksOf(list)
    BY <2>1, <2>3
  <2>4. CASE x = b
    BY <2>2, <2>4
  <2>5. ASSUME NEW y \in BlocksOf(list), End(b) = y.addr, x = Merged(b, y)
        PROVE  Bytes(x) \subseteq Owned(A) /\ \A a \in L : Apart(x, a)
    <3>1. Bytes(x) = Bytes(b) \cup Bytes(y)
      BY <2>1, <2>5, MergedBytes
    <3>2. \A a \in L : Apart(x, a)
      BY <2>1, <2>2, <2>5, MergedApart
    <3> QED
      BY <2>1, <3>1, <3>2
  <2>6. ASSUME NEW y \in BlocksOf(list), End(y) = b.addr, x = Merged(y, b)
        PROVE  Bytes(x) \subseteq Owned(A) /\ \A a \in L : Apart(x, a)
    <3>1. Bytes(x) = Bytes(b) \cup Bytes(y)
      BY <2>1, <2>6, MergedBytes
    <3>2. \A a \in L : Apart(x, a)
      BY <2>1, <2>2, <2>6, MergedApart
    <3> QED
      BY <2>1, <3>1, <3>2
  <2>7. \/ x \in BlocksOf(list) \/ x = b
        \/ \E y \in BlocksOf(list) : End(b) = y.addr /\ x = Merged(b, y)
        \/ \E y \in BlocksOf(list) : End(y) = b.addr /\ x = Merged(y, b)
    BY <1>1 DEF Inserted
  <2> QED
    BY <2>3, <2>4, <2>5, <2>6, <2>7
<1>4. Disjoint(r, L, A)
  BY <1>1, <1>3 DEF Disjoint, ListOwned, ApartFromAll
<1> QED
  BY <1>1, <1>4 DEF r

\* The list without one of its blocks.
LEMMA Removes ==
    ASSUME NEW list \in Seq(Blocks), Sorted(list), NEW k \in 1 .. Len(list)
    PROVE  /\ Unlinked(list, k) \in Seq(Blocks) /\ Sorted(Unlinked(list, k))
           /\ BlocksOf(Unlinked(list, k)) = BlocksOf(list) \ {list[k]}
<1> DEFINE r == Unlinked(list, k)
           from(j) == IF j < k THEN j ELSE j + 1
<1>1. r \in Seq(Blocks) /\ OneLess(r, list, k)
  BY Removing
<1> HIDE DEF r
<1>2. k \in Nat /\ Len(list) \in Nat /\ Len(r) = Len(list) - 1 /\ 1 <= k /\ k <= Len(list)
  BY <1>1 DEF OneLess
<1>3. \A j \in 1 .. Len(r) :
          /\ from(j) \in 1 .. Len(list) /\ from(j) # k /\ r[j] = list[from(j)]
  <2> TAKE j \in 1 .. Len(r)
  <2>1. CASE j < k
    <3>1. j \in 1 .. k - 1
      BY <1>2, <2>1
    <3> QED
      BY <1>1, <1>2, <2>1, <3>1 DEF OneLess
  <2>2. CASE ~(j < k)
    <3>1. j \in k .. Len(list) - 1
      BY <1>2, <2>2
    <3> QED
      BY <1>1, <1>2, <2>2, <3>1 DEF OneLess
  <2> QED
    BY <2>1, <2>2
<1>4. \A i, j \in 1 .. Len(r) : i < j => from(i) < from(j)
  BY <1>2
<1>5. \A i \in 1 .. Len(list) : i # k => \E j \in 1 .. Len(r) : from(j) = i
  <2> SUFFICES ASSUME NEW i \in 1 .. Len(list), i # k
               PROVE  \E j \in 1 .. Len(r) : from(j) = i
    OBVIOUS
  <2>1. CASE i < k
    <3>1. i \in 1 .. Len(r) /\ from(i) = i
      BY <1>2, <2>1
    <3> QED
      BY <3>1
  <2>2. CASE i > k
    <3>1. i - 1 \in 1 .. Len(r) /\ from(i - 1) = i
      BY <1>2, <2>2
    <3> QED
      BY <3>1
  <2> QED
    BY <1>2, <2>1, <2>2
<1> HIDE DEF from
<1>6. Sorted(r)
  BY <1>3, <1>4 DEF Sorted
<1>7. ASSUME NEW x \in BlocksOf(r) PROVE x \in BlocksOf(list) \ {list[k]}
  <2>1. PICK j \in 1 .. Len(r) : x = r[j]
    BY DEF BlocksOf
  <2>2. /\ from(j) \in 1 .. Len(list) /\ from(j) # k /\ x = list[from(j)]
    BY <1>3, <2>1
  <2>3. list[from(j)] # list[k]
    BY <2>2, SortedDistinct
  <2> QED
    BY <2>2, <2>3 DEF BlocksOf
<1>8. ASSUME NEW x \in BlocksOf(list) \ {list[k]} PROVE x \in BlocksOf(r)
  <2>1. PICK i \in 1 .. Len(list) : x = list[i] /\ i # k
    BY DEF BlocksOf
  <2>2. PICK j \in 1 .. Len(r) : from(j) = i
    BY <1>5, <2>1
  <2> QED
    BY <1>3, <2>1, <2>2 DEF BlocksOf
<1> QED
  BY <1>1, <1>6, <1>7, <1>8 DEF r

\* A part of a block.
Inside(x, b) == Placed(x) /\ b.addr <= x.addr /\ End(x) <= End(b)

\* A block inside another has only bytes of that one.
LEMMA InsideBytes ==
    ASSUME NEW x, NEW b, Placed(b), Inside(x, b)
    PROVE  Bytes(x) \subseteq Bytes(b)
<1>1. End(x) \in Nat /\ End(b) \in Nat /\ x.addr \in Nat /\ b.addr \in Nat
  BY EndType DEF Placed, Inside
<1> QED
  BY <1>1 DEF Bytes, Inside

\* A block inside another is apart from what that one is apart from.
LEMMA InsideApart ==
    ASSUME NEW x, NEW b, NEW c, Placed(b), Placed(c), Inside(x, b), Apart(b, c)
    PROVE  Apart(x, c) /\ Apart(c, x)
<1>1. /\ End(x) \in Nat /\ End(b) \in Nat /\ x.addr \in Nat /\ b.addr \in Nat
      /\ c.addr \in Nat /\ End(c) \in Nat
  BY EndType DEF Placed, Inside
<1> QED
  BY <1>1 DEF Apart, Inside

\* One more allocated block, taken from a block that is no longer in the list.
LEMMA TakeKeeps ==
    ASSUME NEW list \in Seq(Blocks), NEW k \in 1 .. Len(list), NEW L \in SUBSET Lives, NEW A,
           Disjoint(list, L, A), NEW n \in Lives, Inside(n, list[k])
    PROVE  /\ Unlinked(list, k) \in Seq(Blocks)
           /\ Disjoint(Unlinked(list, k), L \cup {n}, A)
           /\ BlocksOf(Unlinked(list, k)) = BlocksOf(list) \ {list[k]}
<1> DEFINE r == Unlinked(list, k)
           b == list[k]
<1>1. r \in Seq(Blocks) /\ Sorted(r) /\ BlocksOf(r) = BlocksOf(list) \ {b}
  BY Removes DEF Disjoint
<1>2. b \in Blocks /\ b \in BlocksOf(list) /\ Placed(b)
  BY BlockPlaced DEF BlocksOf
<1>3. ASSUME NEW x \in BlocksOf(list), x # b PROVE Apart(b, x) /\ Placed(x)
  <2>1. PICK j \in 1 .. Len(list) : x = list[j] /\ j # k
    BY <1>3 DEF BlocksOf
  <2>2. Apart(b, x)
    BY <2>1 DEF Disjoint, Sorted, Apart
  <2> QED
    BY <2>2, BlocksOfType, BlockPlaced
<1> HIDE DEF r, b
<1>4. Inside(n, b)
  BY DEF b
<1>5. \A x \in BlocksOf(r) : Apart(x, n)
  BY <1>1, <1>2, <1>3, <1>4, InsideApart
<1>6. \A a \in L : Apart(n, a) /\ Apart(a, n)
  <2> TAKE a \in L
  <2>1. Apart(b, a) /\ Placed(a)
    BY <1>2, BlockPlaced DEF Disjoint, ApartFromAll
  <2> QED
    BY <1>2, <1>4, <2>1, InsideApart
<1>7. Bytes(n) \subseteq Owned(A)
  BY <1>2, <1>4, InsideBytes DEF Disjoint, ListOwned
<1>8. ListOwned(r, A) /\ \A a \in L \cup {n} : ApartFromAll(r, a)
  BY <1>1, <1>5 DEF Disjoint, ListOwned, ApartFromAll
<1>9. /\ \A a, c \in L \cup {n} : a # c => Apart(a, c)
      /\ \A a \in L \cup {n} : Bytes(a) \subseteq Owned(A)
  BY <1>6, <1>7 DEF Disjoint
<1>10. Disjoint(r, L \cup {n}, A)
  BY <1>1, <1>8, <1>9, SMTT(20) DEF Disjoint
<1> QED
  BY <1>1, <1>10 DEF r, b

\* The request fits behind the padding and the stored pointer.
LEMMA NeedEnough ==
    ASSUME NEW size \in Sizes, NEW align \in Aligns, NEW b \in Blocks
    PROVE  /\ Need(size, align) \in Nat /\ size \in Nat /\ align \in Nat
           /\ Pointer(b, align) \in Nat
           /\ Pointer(b, align) >= b.addr + Header + (IF align > HeapAlign THEN PtrSize ELSE 0)
           /\ Pointer(b, align) + size <= b.addr + Header + Need(size, align)
           /\ align > HeapAlign => Pointer(b, align) % align = 0
<1>1. /\ size \in Nat /\ align \in Nat \ {0} /\ b.addr \in Nat /\ Header \in Nat
      /\ PtrSize \in Nat /\ HeapAlign \in Nat \ {0}
  BY HeapAssumption, Sized DEF Blocks
<1>2. CASE align > HeapAlign
  <2> DEFINE v == b.addr + Header + PtrSize
             p == align_up(v, align)
  <2>1. v \in Nat /\ Need(size, align) = size + align + PtrSize /\ Pointer(b, align) = p
    BY <1>1, <1>2 DEF Need, Pointer
  <2>2. p \in Nat /\ v <= p /\ p < v + align /\ p % align = 0
    BY <1>1, <2>1, AlignUp, Zenon
  <2> HIDE DEF p
  <2> QED
    BY <1>1, <1>2, <2>1, <2>2
<1>3. CASE ~(align > HeapAlign)
  <2>1. Need(size, align) = align_up(size, HeapAlign) /\ Pointer(b, align) = b.addr + Header
    BY <1>3 DEF Need, Pointer
  <2>2. align_up(size, HeapAlign) \in Nat /\ size <= align_up(size, HeapAlign)
    BY <1>1, AlignUp, Zenon
  <2> QED
    BY <1>1, <1>3, <2>1, <2>2
<1> QED
  BY <1>2, <1>3

\* The search ends with a block that fits.
LEMMA FirstFit ==
    ASSUME NEW list \in Seq(Blocks), NEW need, Fitting(list, need) # {}
    PROVE  (CHOOSE j \in Fitting(list, need) : \A k \in Fitting(list, need) : j <= k)
               \in Fitting(list, need)
<1>1. Fitting(list, need) \subseteq Nat
  BY DEF Fitting
<1>2. \E j \in Fitting(list, need) : \A k \in Fitting(list, need) : j <= k
  BY <1>1, Smallest
<1> QED
  BY <1>2

Fits(b) == /\ b.ptr >= b.addr + Header + (IF b.align > HeapAlign THEN PtrSize ELSE 0)
           /\ b.ptr + b.bytes <= End(b)
           /\ b.align > HeapAlign => b.ptr % b.align = 0

\* The bytes of the allocated block n come from the list.
Accounted(n, list) == /\ n \notin live
                      /\ heap_used' = heap_used + n.size + Header
                      /\ Total(BlocksOf(free_list')) + Weight(n) = Total(BlocksOf(list))

\* Taking a block out of the free list, with the split if there is one, keeps all blocks
\* disjoint, and the new block fits what was asked and accounts for every byte taken.
LEMMA AllocateKeeps ==
    ASSUME NEW list \in Seq(Blocks), NEW A, live \in SUBSET Lives, Disjoint(list, live, A),
           NEW size \in Sizes, NEW align \in Aligns, Fitting(list, Need(size, align)) # {},
           Allocate(list, size, align)
    PROVE  /\ free_list' \in Seq(Blocks) /\ Disjoint(free_list', live', A)
           /\ \E n \in Lives : live' = live \cup {n} /\ Fits(n) /\ Accounted(n, list)
<1> DEFINE need == Need(size, align)
           i    == CHOOSE j \in Fitting(list, need) : \A k \in Fitting(list, need) : j <= k
           b    == list[i]
           kept == IF Splits(b, need) THEN need ELSE b.size
           rest == Block(b.addr + Header + need, b.size - need - Header)
           n    == [addr |-> b.addr, size |-> kept, ptr |-> Pointer(b, align),
                    bytes |-> size, align |-> align]
<1>1. /\ free_list' = IF Splits(b, need) THEN insert_free(Unlinked(list, i), rest)
                      ELSE Unlinked(list, i)
      /\ live' = live \cup {n}
      /\ heap_used' = heap_used + kept + Header
  BY Zenon DEF Allocate
<1>2. i \in 1 .. Len(list) /\ b.size >= need /\ b \in Blocks
  <2>1. i \in Fitting(list, need)
    BY FirstFit
  <2> HIDE DEF i, need
  <2> QED
    BY <2>1 DEF Fitting
<1> HIDE DEF i, b
<1>31. /\ need \in Nat /\ size \in Nat /\ align \in Nat /\ Pointer(b, align) \in Nat
       /\ Pointer(b, align) >= b.addr + Header + (IF align > HeapAlign THEN PtrSize ELSE 0)
       /\ Pointer(b, align) + size <= b.addr + Header + need
       /\ align > HeapAlign => Pointer(b, align) % align = 0
  BY <1>2, NeedEnough
<1>3. need \in Nat /\ b.addr \in Nat /\ b.size \in Nat /\ Header \in Nat \ {0} /\ MinBlock \in Nat
  BY <1>2, <1>31, Sized DEF Blocks
<1> HIDE DEF need
<1>4. kept \in Nat /\ need <= kept /\ kept <= b.size
  BY <1>2, <1>3 DEF Splits
<1> HIDE DEF kept
<1>5. n \in Lives /\ n.addr = b.addr /\ n.size = kept
  <2>1. size \in Nat /\ align \in Nat /\ Pointer(b, align) \in Nat
    BY <1>31
  <2> QED
    BY <1>3, <1>4, <2>1 DEF Lives
<1>6. Fits(n)
  <2>1. End(n) = b.addr + Header + kept /\ n.ptr = Pointer(b, align) /\ n.bytes = size
        /\ n.align = align
    BY DEF End
  <2>2. Pointer(b, align) + size <= b.addr + Header + kept
    <3>1. /\ Pointer(b, align) \in Nat /\ size \in Nat
          /\ Pointer(b, align) + size <= b.addr + Header + need
      BY <1>31
    <3> QED
      BY <1>3, <1>4, <3>1
  <2> QED
    BY <1>31, <1>5, <2>1, <2>2, Zenon DEF Fits
<1> HIDE DEF n
<1>7. Inside(n, b)
  BY <1>3, <1>4, <1>5 DEF Inside, Placed, End
<1>8. /\ Unlinked(list, i) \in Seq(Blocks)
      /\ Disjoint(Unlinked(list, i), live \cup {n}, A)
      /\ BlocksOf(Unlinked(list, i)) = BlocksOf(list) \ {b}
  BY <1>2, <1>5, <1>7, TakeKeeps, Zenon DEF b
<1>81. n \notin live
  <2>1. \A a \in live : Apart(b, a) /\ Placed(a)
    BY <1>2, BlockPlaced DEF Disjoint, ApartFromAll, BlocksOf, b
  <2>2. Placed(b) /\ Placed(n) /\ End(n) \in Nat /\ n.addr < End(n)
    BY <1>2, <1>5, BlockPlaced, EndType DEF Placed
  <2>3. ASSUME n \in live PROVE Apart(n, n)
    BY <1>7, <2>1, <2>2, <2>3, InsideApart
  <2> QED
    BY <2>2, <2>3 DEF Apart, Placed
<1>82. /\ Total(BlocksOf(list)) = Weight(b) + Total(BlocksOf(list) \ {b})
       /\ Total(BlocksOf(list) \ {b}) \in Nat
  <2>1. BlocksOf(list) \in SUBSET Blocks /\ b \in BlocksOf(list)
    BY <1>2, BlocksOfType DEF BlocksOf, b
  <2> QED
    BY <2>1, BlocksOfSmall, TotalWithout
<1>83. Weight(b) = b.size + Header /\ Weight(n) = kept + Header
  BY <1>5 DEF Weight
<1>9. CASE Splits(b, need)
  <2>1. /\ rest \in Blocks /\ End(n) = rest.addr /\ End(rest) = End(b)
        /\ b.addr <= rest.addr
    <3>1. b.size - need >= Header + MinBlock /\ kept = need
      BY <1>9 DEF Splits, kept
    <3>2. b.size - need - Header \in Nat /\ b.addr + Header + need \in Nat
      BY <1>3, <3>1, SMTT(20)
    <3>3. /\ rest.addr = b.addr + Header + need /\ rest.size = b.size - need - Header
          /\ rest \in Blocks
      BY <3>2 DEF Block, Blocks
    <3> HIDE DEF rest
    <3>4. End(n) = b.addr + Header + need /\ End(rest) = End(b)
      BY <1>3, <1>5, <3>1, <3>3, SMTT(20) DEF End
    <3> QED
      BY <1>3, <3>3, <3>4
  <2> HIDE DEF rest
  <2>2. Inside(rest, b) /\ Placed(b) /\ Bytes(b) \subseteq Owned(A)
    <3>1. Placed(rest) /\ Placed(b) /\ b \in BlocksOf(list) /\ End(b) \in Nat
      BY <1>2, <2>1, BlockPlaced, EndType DEF Placed, b, BlocksOf
    <3> QED
      BY <2>1, <3>1 DEF Inside, Disjoint, ListOwned
  <2>3. Bytes(rest) \subseteq Owned(A)
    BY <2>2, InsideBytes
  <2>4. ASSUME NEW x \in BlocksOf(list) \ {b} PROVE Apart(x, rest)
    <3>1. PICK j \in 1 .. Len(list) : x = list[j] /\ j # i
      BY DEF BlocksOf, b
    <3>2. Apart(b, x) /\ Placed(x)
      <4>1. x \in Blocks
        BY <3>1, SMTT(20)
      <4>2. Apart(b, x)
        BY <1>2, <3>1 DEF Disjoint, Sorted, Apart, b
      <4> QED
        BY <4>1, <4>2, BlockPlaced
    <3> QED
      BY <2>2, <3>2, InsideApart
  <2>5. ASSUME NEW a \in live \cup {n} PROVE Apart(a, rest)
    <3>1. CASE a = n
      <4>1. End(n) \in Nat /\ rest.addr \in Nat
        BY <2>1 DEF Blocks
      <4> QED
        BY <2>1, <3>1, <4>1 DEF Apart
    <3>2. CASE a \in live
      <4>1. Apart(b, a) /\ Placed(a)
        BY <1>2, <3>2, BlockPlaced DEF Disjoint, ApartFromAll, BlocksOf, b
      <4> QED
        BY <2>2, <4>1, InsideApart, SMTT(20)
    <3> QED
      BY <3>1, <3>2
  <2>6. ApartFromAll(Unlinked(list, i), rest)
    BY <1>8, <2>4 DEF ApartFromAll
  <2>7. live \cup {n} \in SUBSET Lives
    BY <1>5
  <2>8. /\ insert_free(Unlinked(list, i), rest) \in Seq(Blocks)
        /\ Disjoint(insert_free(Unlinked(list, i), rest), live \cup {n}, A)
        /\ Inserted(insert_free(Unlinked(list, i), rest), Unlinked(list, i), rest)
    BY <1>8, <2>1, <2>3, <2>5, <2>6, <2>7, InsertKeeps, Zenon
  <2>9. free_list' = insert_free(Unlinked(list, i), rest)
    BY <1>1, <1>9
  <2>10. Total(BlocksOf(free_list')) = Total(BlocksOf(list) \ {b}) + Weight(rest)
    <3>1. Total(BlocksOf(free_list')) = Total(BlocksOf(Unlinked(list, i))) + Weight(rest)
      BY <1>8, <2>1, <2>6, <2>8, <2>9, InsertTotal, Zenon
    <3> QED
      BY <1>8, <3>1
  <2>11. Accounted(n, list)
    <3>1. Weight(rest) = (b.size - need - Header) + Header /\ kept = need
      BY <1>9 DEF Weight, rest, Block, kept
    <3> DEFINE t == Total(BlocksOf(list) \ {b})
    <3>2. /\ t \in Nat /\ Total(BlocksOf(list)) = (b.size + Header) + t
          /\ Total(BlocksOf(free_list')) = t + ((b.size - need - Header) + Header)
          /\ Weight(n) = need + Header
      BY <1>82, <1>83, <2>10, <3>1
    <3> HIDE DEF t
    <3>3. Total(BlocksOf(free_list')) + Weight(n) = Total(BlocksOf(list))
      BY <1>3, <3>2, SMTT(20)
    <3> QED
      BY <1>1, <1>5, <1>81, <3>3, Zenon DEF Accounted
  <2> QED
    BY <1>1, <1>5, <1>6, <2>8, <2>9, <2>11, Zenon
<1>10. CASE ~Splits(b, need)
  <2>1. free_list' = Unlinked(list, i) /\ kept = b.size
    BY <1>1, <1>10 DEF kept
  <2>2. Accounted(n, list)
    <3>1. Total(BlocksOf(free_list')) = Total(BlocksOf(list) \ {b})
      BY <1>8, <2>1, Zenon
    <3>2. Total(BlocksOf(free_list')) + Weight(n) = Total(BlocksOf(list))
      BY <1>3, <1>82, <1>83, <2>1, <3>1
    <3> QED
      BY <1>1, <1>5, <1>81, <3>2 DEF Accounted
  <2> QED
    BY <1>1, <1>5, <1>6, <1>8, <2>1, <2>2, Zenon
<1> QED
  BY <1>9, <1>10, SMTT(20)

-----------------------------------------------------------------------------
(* Growing *)

\* A new run of pages is large enough for the block that is asked for.
LEMMA ExpandedEnough ==
    ASSUME NEW need \in Nat
    PROVE  ExpandedBytes(need) \in Nat /\ ExpandedBytes(need) >= Header + need + MinBlock
<1> DEFINE v == Header + need + MinBlock
           pages == (v + PageSize - 1) \div PageSize
<1>1. v \in Nat /\ PageSize \in Nat \ {0} /\ ExpandPages \in Nat
  BY HeapAssumption, Sized
<1>2. /\ align_up(v, PageSize) = pages * PageSize /\ pages \in Nat
      /\ align_up(v, PageSize) >= v
  <2>1. align_up(v, PageSize) \in Nat /\ v <= align_up(v, PageSize)
    BY <1>1, AlignUp
  <2>2. align_up(v, PageSize) = pages * PageSize
    BY DEF align_up
  <2> HIDE DEF v
  <2>3. pages \in Nat
    BY <1>1
  <2> QED
    BY <1>1, <2>1, <2>2, <2>3
<1>3. ExpandedBytes(need) = (IF pages < ExpandPages THEN ExpandPages ELSE pages) * PageSize
  BY DEF ExpandedBytes
<1> HIDE DEF pages, v
<1>4. CASE pages < ExpandPages
  <2>1. ExpandPages * PageSize >= pages * PageSize
    BY <1>1, <1>2, <1>4
  <2> QED
    BY <1>1, <1>2, <1>3, <1>4, <2>1 DEF v
<1>5. CASE ~(pages < ExpandPages)
  BY <1>1, <1>2, <1>3, <1>5 DEF v
<1> QED
  BY <1>4, <1>5

\* The block made of a run of pages has its bytes.
LEMMA ArenaBlock ==
    ASSUME NEW need \in Nat, NEW ar \in NewArenas(ExpandedBytes(need))
    PROVE  LET b == Block(ar.addr, ar.size - Header)
           IN  /\ ar \in Blocks /\ b \in Blocks /\ b.size >= need
               /\ Bytes(b) = ar.addr .. ar.addr + ar.size - 1
               /\ b.addr = ar.addr /\ End(b) = ar.addr + ar.size
<1> DEFINE b == Block(ar.addr, ar.size - Header)
           bytes == ExpandedBytes(need)
<1>1. bytes \in Nat /\ bytes >= Header + need + MinBlock
  BY ExpandedEnough
<1> HIDE DEF bytes
<1>2. PICK i \in 1 .. (MaxAddr - bytes) \div PageSize :
          ar = [addr |-> PageSize * i, size |-> bytes]
  BY DEF NewArenas, bytes
<1>3. Header \in Nat /\ MinBlock \in Nat /\ PageSize * i \in Nat
  <2>1. PageSize \in Nat /\ i \in Nat
    BY <1>1, <1>2, Sized, HeapAssumption
  <2> QED
    BY <2>1, Sized
<1>4. ar \in Blocks /\ ar.addr \in Nat /\ ar.size = bytes
  BY <1>1, <1>2, <1>3 DEF Blocks
<1>5. /\ b.addr = ar.addr /\ b.size = ar.size - Header /\ ar.size - Header \in Nat
      /\ b \in Blocks
  BY <1>1, <1>3, <1>4 DEF Block, Blocks
<1> HIDE DEF b
<1>6. End(b) = ar.addr + ar.size /\ b.size >= need
  BY <1>1, <1>3, <1>4, <1>5 DEF End
<1>7. Bytes(b) = ar.addr .. ar.addr + ar.size - 1
  <2>1. Bytes(b) = b.addr .. End(b) - 1
    BY DEF Bytes
  <2>2. b.addr = ar.addr /\ End(b) = ar.addr + ar.size /\ ar.addr \in Nat /\ ar.size \in Nat
    BY <1>1, <1>4, <1>5, <1>6
  <2>3. b.addr .. End(b) - 1 = ar.addr .. ar.addr + ar.size - 1
    BY <2>2
  <2> QED
    BY <2>1, <2>3, Zenon
<1> QED
  BY <1>4, <1>5, <1>6, <1>7 DEF b

\* After inserting a block that is large enough, the search finds one.
LEMMA InsertedFits ==
    ASSUME NEW list \in Seq(Blocks), NEW r \in Seq(Blocks), NEW b \in Blocks,
           Inserted(r, list, b), NEW need \in Nat, b.size >= need
    PROVE  Fitting(r, need) # {}
<1>1. BlocksOf(list) \subseteq Blocks /\ b.size \in Nat
  BY BlocksOfType DEF Blocks
<1>2. \E x \in BlocksOf(r) : x.size >= need
  <2>1. CASE BlocksOf(r) = BlocksOf(list) \cup {b}
    BY <2>1
  <2>2. ASSUME NEW x \in BlocksOf(list), End(b) = x.addr,
               BlocksOf(r) = (BlocksOf(list) \ {x}) \cup {Merged(b, x)}
        PROVE  \E y \in BlocksOf(r) : y.size >= need
    <3>1. Merged(b, x).size \in Nat /\ Merged(b, x).size >= b.size
      BY <1>1, <2>2, MergedBytes DEF Blocks
    <3> QED
      BY <1>1, <2>2, <3>1
  <2>3. ASSUME NEW x \in BlocksOf(list), End(x) = b.addr,
               BlocksOf(r) = (BlocksOf(list) \ {x}) \cup {Merged(x, b)}
        PROVE  \E y \in BlocksOf(r) : y.size >= need
    <3>1. Merged(x, b).size \in Nat /\ Merged(x, b).size >= b.size
      BY <1>1, <2>3, MergedBytes DEF Blocks
    <3> QED
      BY <1>1, <2>3, <3>1
  <2> QED
    BY <2>1, <2>2, <2>3 DEF Inserted
<1> QED
  BY <1>2 DEF BlocksOf, Fitting

\* Pages the heap does not own hold none of its blocks.
LEMMA ArenaApart ==
    ASSUME NEW A \in SUBSET Blocks, NEW ar \in Blocks, NEW b \in Blocks,
           Bytes(b) = ar.addr .. ar.addr + ar.size - 1,
           \A o \in A : o.addr + o.size <= ar.addr \/ ar.addr + ar.size <= o.addr,
           NEW x, Placed(x), Bytes(x) \subseteq Owned(A)
    PROVE  Apart(x, b)
<1>1. ASSUME NEW y \in Bytes(x), y \in Bytes(b) PROVE FALSE
  <2>1. PICK o \in A : y \in o.addr .. o.addr + o.size - 1
    BY <1>1 DEF Owned
  <2>2. /\ o.addr \in Nat /\ o.size \in Nat /\ ar.addr \in Nat /\ ar.size \in Nat
        /\ o.addr + o.size <= ar.addr \/ ar.addr + ar.size <= o.addr
    BY DEF Blocks
  <2> QED
    BY <1>1, <2>1, <2>2, SMTT(20)
<1>2. Bytes(x) \cap Bytes(b) = {} /\ Placed(b)
  BY <1>1, BlockPlaced
<1> QED
  BY <1>2, ApartBytes, Zenon DEF Placed

\* Another arena does not disturb the blocks.
LEMMA DisjointGrows ==
    ASSUME NEW list, NEW L, NEW A, NEW ar, Disjoint(list, L, A)
    PROVE  /\ Disjoint(list, L, A \cup {ar})
           /\ ar.addr .. ar.addr + ar.size - 1 \subseteq Owned(A \cup {ar})
<1>1. Owned(A) \subseteq Owned(A \cup {ar})
  BY DEF Owned
<1>2. ar.addr .. ar.addr + ar.size - 1 \subseteq Owned(A \cup {ar})
  BY DEF Owned
<1> QED
  BY <1>1, <1>2, Zenon DEF Disjoint, ListOwned

\* expand_heap keeps the blocks disjoint, and the search then succeeds.
LEMMA ExpandKeeps ==
    ASSUME TypeInv, Disjoint(free_list, live, arenas), NEW need \in Nat,
           NEW ar \in NewArenas(ExpandedBytes(need)), Unused(ar)
    PROVE  /\ ar \in Blocks
           /\ expand_heap(ar) \in Seq(Blocks)
           /\ Disjoint(expand_heap(ar), live, arenas \cup {ar})
           /\ Fitting(expand_heap(ar), need) # {}
           /\ Inserted(expand_heap(ar), free_list, Block(ar.addr, ar.size - Header))
<1> DEFINE b == Block(ar.addr, ar.size - Header)
           r == insert_free(free_list, b)
           A == arenas \cup {ar}
<1>1. /\ ar \in Blocks /\ b \in Blocks /\ b.size >= need
      /\ Bytes(b) = ar.addr .. ar.addr + ar.size - 1
  BY ArenaBlock
<1>2. expand_heap(ar) = r
  BY DEF expand_heap
<1> HIDE DEF b
<1>3. /\ free_list \in Seq(Blocks) /\ live \in SUBSET Lives /\ arenas \in SUBSET Blocks
      /\ BlocksOf(free_list) \subseteq Blocks
  BY BlocksOfType DEF TypeInv
<1>4. \A o \in arenas : o.addr + o.size <= ar.addr \/ ar.addr + ar.size <= o.addr
  BY DEF Unused
<1>5. ApartFromAll(free_list, b)
  <2>1. ASSUME NEW x \in BlocksOf(free_list) PROVE Apart(x, b)
    <3>1. Placed(x) /\ Bytes(x) \subseteq Owned(arenas)
      BY <1>3, BlockPlaced DEF Disjoint, ListOwned
    <3> QED
      BY <1>1, <1>3, <1>4, <3>1, ArenaApart, Zenon
  <2> QED
    BY <2>1 DEF ApartFromAll
<1>6. ASSUME NEW a \in live PROVE Apart(a, b)
  <2>1. Placed(a) /\ Bytes(a) \subseteq Owned(arenas)
    BY <1>3, BlockPlaced DEF Disjoint
  <2> QED
    BY <1>1, <1>3, <1>4, <2>1, ArenaApart, Zenon
<1>7. Disjoint(free_list, live, A) /\ Bytes(b) \subseteq Owned(A)
  BY <1>1, DisjointGrows
<1> HIDE DEF A
<1>8. r \in Seq(Blocks) /\ Disjoint(r, live, A) /\ Inserted(r, free_list, b)
  BY <1>1, <1>3, <1>5, <1>6, <1>7, InsertKeeps, Zenon
<1> HIDE DEF r
<1>9. Fitting(r, need) # {}
  BY <1>1, <1>3, <1>8, InsertedFits
<1> QED
  BY <1>1, <1>2, <1>8, <1>9 DEF A, b

-----------------------------------------------------------------------------
(* The invariant *)

\* The invariant holds before heap_init.
THEOREM InitIInv == Init => IInv
<1> SUFFICES ASSUME Init PROVE IInv
  OBVIOUS
<1>1. TypeInv
  <2>1. heap_ready \in BOOLEAN
    BY Zenon DEF Init
  <2> QED
    BY <2>1 DEF Init, TypeInv
<1>2. BlocksOf(free_list) = {}
  BY DEF Init, BlocksOf
<1>3. Disjoint(free_list, live, arenas)
  BY <1>2 DEF Init, Disjoint, Sorted, ListOwned
<1> QED
  BY <1>1, <1>3 DEF Init, IInv, PayloadFits

\* PayloadFits, by block.
LEMMA FitsAll == PayloadFits <=> \A b \in live : Fits(b)
BY DEF PayloadFits, Fits

\* heap_init keeps the invariant.
LEMMA HeapInitKeeps ==
    ASSUME IInv, heap_init
    PROVE  IInv'
<1>1. PICK ar \in NewArenas(ExpandedBytes(PageSize)) :
          free_list' = expand_heap(ar) /\ arenas' = {ar}
  BY DEF heap_init
<1>2. arenas = {} /\ Unused(ar) /\ PageSize \in Nat /\ live' = live /\ live = {}
  BY Sized DEF heap_init, IInv, Unused
<1>3. /\ ar \in Blocks /\ expand_heap(ar) \in Seq(Blocks)
      /\ Disjoint(expand_heap(ar), live, arenas \cup {ar})
  BY <1>2, ExpandKeeps DEF IInv
<1>4. Disjoint(free_list', live', arenas')
  <2>1. arenas' = arenas \cup {ar}
    BY <1>1, <1>2
  <2> QED
    BY <1>1, <1>2, <1>3, <2>1, Zenon
<1>5. heap_ready'
  BY Zenon DEF heap_init
<1>6. TypeInv'
  <2>1. heap_ready' \in BOOLEAN
    BY <1>5, Zenon
  <2> QED
    BY <1>1, <1>2, <1>3, <2>1 DEF IInv, TypeInv
<1>7. Disjoint(free_list, live, arenas)'
  BY <1>4 DEF Disjoint, Sorted, ApartFromAll, ListOwned, BlocksOf
<1> QED
  BY <1>2, <1>5, <1>6, <1>7 DEF IInv, PayloadFits

\* kmalloc_aligned keeps the invariant, whether the heap grows or not.
LEMMA KmallocKeeps ==
    ASSUME IInv, NEW size \in Sizes, NEW align \in Aligns, kmalloc_aligned(size, align)
    PROVE  IInv'
<1> DEFINE need == Need(size, align)
<1>1. /\ free_list \in Seq(Blocks) /\ live \in SUBSET Lives /\ arenas \in SUBSET Blocks
      /\ Disjoint(free_list, live, arenas) /\ need \in Nat
  <2>1. need \in Nat
    <3>1. Block(0, 0) \in Blocks
      BY DEF Block, Blocks
    <3> QED
      BY <3>1, NeedEnough
  <2> QED
    BY <2>1 DEF IInv, TypeInv
<1>2. heap_ready /\ heap_ready'
  BY DEF kmalloc_aligned
<1>3. /\ free_list' \in Seq(Blocks) /\ Disjoint(free_list', live', arenas')
      /\ arenas' \in SUBSET Blocks
      /\ \E n \in Lives : live' = live \cup {n} /\ Fits(n)
  <2>1. CASE Fitting(free_list, need) # {}
    <3>1. Allocate(free_list, size, align) /\ arenas' = arenas
      BY <2>1 DEF kmalloc_aligned
    <3>2. /\ free_list' \in Seq(Blocks) /\ Disjoint(free_list', live', arenas)
          /\ \E n \in Lives : live' = live \cup {n} /\ Fits(n)
      BY <1>1, <2>1, <3>1, AllocateKeeps
    <3> QED
      BY <1>1, <3>1, <3>2
  <2>2. CASE Fitting(free_list, need) = {}
    <3>1. PICK ar \in NewArenas(ExpandedBytes(need)) :
              Unused(ar) /\ Allocate(expand_heap(ar), size, align) /\ arenas' = arenas \cup {ar}
      BY <2>2 DEF kmalloc_aligned
    <3>2. /\ ar \in Blocks /\ expand_heap(ar) \in Seq(Blocks)
          /\ Disjoint(expand_heap(ar), live, arenas \cup {ar})
          /\ Fitting(expand_heap(ar), need) # {}
      BY <1>1, <3>1, ExpandKeeps, Zenon DEF IInv
    <3>3. /\ free_list' \in Seq(Blocks) /\ Disjoint(free_list', live', arenas \cup {ar})
          /\ \E n \in Lives : live' = live \cup {n} /\ Fits(n)
      BY <1>1, <3>1, <3>2, AllocateKeeps
    <3> QED
      BY <1>1, <3>1, <3>2, <3>3
  <2> QED
    BY <2>1, <2>2
<1>4. PICK n \in Lives : live' = live \cup {n} /\ Fits(n)
  BY <1>3
<1>5. TypeInv'
  <2>1. heap_ready' \in BOOLEAN
    BY <1>2, Zenon
  <2> QED
    BY <1>1, <1>3, <1>4, <2>1 DEF TypeInv
<1>6. Disjoint(free_list, live, arenas)'
  BY <1>3, Zenon DEF Disjoint, Sorted, ApartFromAll, ListOwned, BlocksOf
<1>7. PayloadFits'
  <2>1. \A b \in live' : Fits(b)
    BY <1>4, FitsAll DEF IInv
  <2> QED
    BY <2>1 DEF PayloadFits, Fits
<1> QED
  BY <1>2, <1>5, <1>6, <1>7 DEF IInv

\* kfree keeps the invariant.
LEMMA KfreeKeeps ==
    ASSUME IInv, NEW b \in live, kfree(b)
    PROVE  IInv'
<1> DEFINE c == Block(b.addr, b.size)
           L == live \ {b}
<1>1. /\ free_list \in Seq(Blocks) /\ live \in SUBSET Lives /\ L \in SUBSET Lives
      /\ Disjoint(free_list, live, arenas)
  BY DEF IInv, TypeInv
<1>2. /\ free_list' = insert_free(free_list, c) /\ live' = L /\ arenas' = arenas
      /\ heap_ready' = heap_ready
  BY DEF kfree
<1>3. c \in Blocks /\ c.addr = b.addr /\ c.size = b.size
  BY <1>1 DEF Block, Blocks, Lives
<1> HIDE DEF c
<1>4. End(c) = End(b) /\ Bytes(c) = Bytes(b)
  BY <1>3 DEF End, Bytes
<1>5. ApartFromAll(free_list, c) /\ \A a \in L : Apart(a, c)
  BY <1>1, <1>3, <1>4 DEF Disjoint, ApartFromAll, Apart
<1>6. Disjoint(free_list, L, arenas) /\ Bytes(c) \subseteq Owned(arenas)
  BY <1>1, <1>4, SMTT(20) DEF Disjoint
<1> HIDE DEF L
<1>7. free_list' \in Seq(Blocks) /\ Disjoint(free_list', L, arenas)
  <2>1. \A a \in L : Apart(a, c)
    BY <1>5, Zenon
  <2>2. /\ insert_free(free_list, c) \in Seq(Blocks)
        /\ Disjoint(insert_free(free_list, c), L, arenas)
    BY <1>1, <1>3, <1>5, <1>6, <2>1, InsertKeeps, Zenon
  <2> QED
    BY <1>2, <2>2, Zenon
<1>8. Disjoint(free_list, live, arenas)'
  BY <1>2, <1>7, Zenon DEF Disjoint, Sorted, ApartFromAll, ListOwned, BlocksOf
<1>9. TypeInv'
  BY <1>1, <1>2, <1>7 DEF IInv, TypeInv
<1>10. PayloadFits' /\ heap_ready'
  BY <1>2 DEF IInv, PayloadFits, L
<1> QED
  BY <1>8, <1>9, <1>10 DEF IInv

\* Every call of the heap preserves the invariant.
THEOREM NextIInv == IInv /\ [Next]_vars => IInv'
<1> SUFFICES ASSUME IInv, [Next]_vars PROVE IInv'
  OBVIOUS
<1>1. CASE UNCHANGED vars
  BY <1>1 DEF vars, IInv, TypeInv, PayloadFits, Disjoint, Sorted, ApartFromAll, ListOwned, BlocksOf
<1>2. CASE Next
  BY <1>2, HeapInitKeeps, KmallocKeeps, KfreeKeeps DEF Next
<1> QED
  BY <1>1, <1>2

\* The invariant holds after every sequence of calls.
THEOREM Invariance == Spec => []IInv
<1> QED
  BY InitIInv, NextIInv, PTL DEF Spec

(***************************************************************************)
(* No byte of the kernel heap is in two blocks, and every block lies in    *)
(* pages the heap has taken: whatever insert_free merges, kmalloc_aligned  *)
(* splits and expand_heap adds.                                            *)
(***************************************************************************)
THEOREM BlocksDisjoint == Spec => []NoOverlap
<1>1. IInv => NoOverlap
  <2> SUFFICES ASSUME IInv PROVE NoOverlap
    OBVIOUS
  <2>1. FreeBlocks = BlocksOf(free_list)
    BY DEF FreeBlocks, BlocksOf
  <2>2. \A a \in live, b \in live \cup FreeBlocks :
            (a # b) => End(a) <= b.addr \/ End(b) <= a.addr
    BY <2>1 DEF IInv, Disjoint, ApartFromAll, Apart
  <2>3. \A i, j \in 1 .. Len(free_list) : i < j => End(free_list[i]) <= free_list[j].addr
    BY DEF IInv, Disjoint, Sorted
  <2>4. \A b \in live \cup FreeBlocks : Bytes(b) \subseteq Owned(arenas)
    BY <2>1 DEF IInv, Disjoint, ListOwned
  <2> QED
    BY <2>2, <2>3, <2>4 DEF NoOverlap, Owned
<1> QED
  BY <1>1, Invariance, PTL

(***************************************************************************)
(* What kmalloc and kmalloc_aligned return has room for what was asked     *)
(* for, behind the stored block pointer, and is aligned.                   *)
(***************************************************************************)
THEOREM PayloadInBlock == Spec => []PayloadFits
<1>1. IInv => PayloadFits
  BY DEF IInv
<1> QED
  BY <1>1, Invariance, PTL

-----------------------------------------------------------------------------
(* No byte is lost *)

\* NoLeak, in terms of totals.
LEMMA NoLeakTotals ==
    NoLeak <=> heap_used = Total(live) /\ heap_used + Total(FreeBlocks) = heap_total
BY Zenon DEF NoLeak, SumOf, FoldSet, MapThenFoldSet, Total, Sums, SumOfSet, Weight, Pick

\* The counters are right, for finitely many allocated blocks.
Counted == /\ heap_total \in Nat
           /\ \E n \in Nat : Small(live, n)
           /\ heap_used = Total(live)
           /\ heap_used + Total(BlocksOf(free_list)) = heap_total

\* Before heap_init there is nothing to count.
THEOREM InitCounted == Init => Counted
<1> SUFFICES ASSUME Init PROVE Counted
  OBVIOUS
<1>1. live = {} /\ BlocksOf(free_list) = {} /\ heap_total = 0 /\ heap_used = 0
  BY DEF Init, BlocksOf
<1>2. Small({}, 0)
  BY DEF Small
<1> QED
  BY <1>1, <1>2, TotalEmpty DEF Counted

\* expand_heap adds all bytes of the new pages to the free list.
LEMMA ExpandTotal ==
    ASSUME TypeInv, Disjoint(free_list, live, arenas), NEW need \in Nat,
           NEW ar \in NewArenas(ExpandedBytes(need)), Unused(ar)
    PROVE  /\ Total(BlocksOf(expand_heap(ar))) = Total(BlocksOf(free_list)) + ar.size
           /\ Total(BlocksOf(free_list)) \in Nat /\ ar.size \in Nat
<1> DEFINE b == Block(ar.addr, ar.size - Header)
<1>1. /\ ar \in Blocks /\ b \in Blocks /\ b.addr = ar.addr
      /\ Bytes(b) = ar.addr .. ar.addr + ar.size - 1
  BY ArenaBlock
<1>2. /\ expand_heap(ar) \in Seq(Blocks) /\ Inserted(expand_heap(ar), free_list, b)
      /\ free_list \in Seq(Blocks)
  BY ExpandKeeps, Zenon DEF TypeInv
<1>3. Weight(b) = (ar.size - Header) + Header
  BY DEF Weight, Block
<1> HIDE DEF b
<1>4. ApartFromAll(free_list, b)
  <2>1. \A o \in arenas : o.addr + o.size <= ar.addr \/ ar.addr + ar.size <= o.addr
    BY DEF Unused
  <2>2. ASSUME NEW x \in BlocksOf(free_list) PROVE Apart(x, b)
    <3>1. Placed(x) /\ Bytes(x) \subseteq Owned(arenas) /\ arenas \in SUBSET Blocks
      BY <1>2, BlocksOfType, BlockPlaced DEF Disjoint, ListOwned, TypeInv
    <3> QED
      BY <1>1, <2>1, <3>1, ArenaApart, Zenon
  <2> QED
    BY <2>2 DEF ApartFromAll
<1>5. /\ Total(BlocksOf(expand_heap(ar))) = Total(BlocksOf(free_list)) + Weight(b)
      /\ Total(BlocksOf(free_list)) \in Nat
  BY <1>1, <1>2, <1>4, InsertTotal
<1>6. ar.size \in Nat /\ (ar.size - Header) + Header = ar.size
  BY <1>1, Sized DEF Blocks
<1> QED
  BY <1>3, <1>5, <1>6, Zenon

\* kmalloc_aligned keeps the counters exact.
LEMMA KmallocCounted ==
    ASSUME IInv, Counted, NEW size \in Sizes, NEW align \in Aligns, kmalloc_aligned(size, align)
    PROVE  Counted'
<1> DEFINE need == Need(size, align)
<1>1. /\ free_list \in Seq(Blocks) /\ live \in SUBSET Lives /\ arenas \in SUBSET Blocks
      /\ Disjoint(free_list, live, arenas) /\ need \in Nat /\ TypeInv
  <2>1. need \in Nat
    <3>1. Block(0, 0) \in Blocks
      BY DEF Block, Blocks
    <3> QED
      BY <3>1, NeedEnough
  <2> QED
    BY <2>1 DEF IInv, TypeInv
<1>2. PICK k \in Nat : Small(live, k)
  BY DEF Counted
<1>3. PICK list \in Seq(Blocks) :
          /\ heap_total' \in Nat /\ heap_used + Total(BlocksOf(list)) = heap_total'
          /\ \E n \in Lives : live' = live \cup {n} /\ Accounted(n, list)
  <2>1. CASE Fitting(free_list, need) # {}
    <3>1. Allocate(free_list, size, align) /\ heap_total' = heap_total
      BY <2>1 DEF kmalloc_aligned
    <3>2. \E n \in Lives : live' = live \cup {n} /\ Fits(n) /\ Accounted(n, free_list)
      BY <1>1, <2>1, <3>1, AllocateKeeps, Zenon
    <3> QED
      BY <1>1, <3>1, <3>2, Zenon DEF Counted
  <2>2. CASE Fitting(free_list, need) = {}
    <3>1. PICK ar \in NewArenas(ExpandedBytes(need)) :
              /\ Unused(ar) /\ Allocate(expand_heap(ar), size, align)
              /\ heap_total' = heap_total + ar.size
      BY <2>2 DEF kmalloc_aligned
    <3>2. /\ expand_heap(ar) \in Seq(Blocks)
          /\ Disjoint(expand_heap(ar), live, arenas \cup {ar})
          /\ Fitting(expand_heap(ar), need) # {}
      BY <1>1, <3>1, ExpandKeeps, Zenon
    <3>3. \E n \in Lives : live' = live \cup {n} /\ Fits(n) /\ Accounted(n, expand_heap(ar))
      BY <1>1, <3>1, <3>2, AllocateKeeps, Zenon
    <3>4. /\ Total(BlocksOf(expand_heap(ar))) = Total(BlocksOf(free_list)) + ar.size
          /\ Total(BlocksOf(free_list)) \in Nat /\ ar.size \in Nat
      BY <1>1, <3>1, ExpandTotal
    <3>5. heap_used \in Nat
      <4>1. Weighed(live)
        BY <1>1, BlocksWeighed
      <4> QED
        BY <1>2, <4>1, TotalType DEF Counted
    <3>6. heap_used + Total(BlocksOf(expand_heap(ar))) = heap_total'
      BY <3>1, <3>4, <3>5 DEF Counted
    <3>7. heap_total' \in Nat
      BY <3>1, <3>4 DEF Counted
    <3> QED
      BY <3>2, <3>3, <3>6, <3>7
  <2> QED
    BY <2>1, <2>2
<1>4. PICK n \in Lives : live' = live \cup {n} /\ Accounted(n, list)
  BY <1>3
<1>5. Small(live', k + 1) /\ k + 1 \in Nat
  <2>1. Small(live \cup {n}, k + 1)
    BY <1>2, SmallMore, Zenon
  <2>2. k + 1 \in Nat
    OBVIOUS
  <2> QED
    BY <1>4, <2>1, <2>2, Zenon
<1>6. Total(live') = Weight(n) + Total(live) /\ Total(live) \in Nat
  <2>1. Weighed(live \cup {n}) /\ n \notin live
    BY <1>1, <1>4, BlocksWeighed DEF Accounted
  <2> QED
    BY <1>2, <1>4, <2>1, TotalAdd, Zenon
<1>7. /\ heap_used' = heap_used + n.size + Header /\ Weight(n) = n.size + Header
      /\ Header \in Nat /\ n.size \in Nat /\ heap_used = Total(live)
      /\ Total(BlocksOf(free_list')) + Weight(n) = Total(BlocksOf(list))
  BY <1>4, Sized DEF Accounted, Counted, Lives, Weight
<1>8. heap_used' = Total(live')
  BY <1>6, <1>7
<1>9. Total(BlocksOf(free_list')) \in Nat
  <2>1. free_list' \in Seq(Blocks)
    BY KmallocKeeps DEF IInv, TypeInv
  <2> QED
    BY <2>1, ListTotal
<1>10. heap_used' + Total(BlocksOf(free_list')) = heap_total'
  BY <1>3, <1>6, <1>7, <1>9, SMTT(20)
<1>11. Total(BlocksOf(free_list'))  = Total(BlocksOf(free_list))'
  BY DEF BlocksOf, Total, Sums, SumOfSet, Weight, Pick
<1> QED
  BY <1>3, <1>5, <1>8, <1>10, <1>11 DEF Counted

\* kfree keeps the counters exact.
LEMMA KfreeCounted ==
    ASSUME IInv, Counted, NEW b \in live, kfree(b)
    PROVE  Counted'
<1> DEFINE c == Block(b.addr, b.size)
<1>1. /\ free_list \in Seq(Blocks) /\ live \subseteq Lives /\ b \in Lives
      /\ Disjoint(free_list, live, arenas)
  BY DEF IInv, TypeInv
<1>2. /\ free_list' = insert_free(free_list, c) /\ live' = live \ {b}
      /\ heap_used' = (IF heap_used >= Credit(b) THEN heap_used - Credit(b) ELSE 0)
      /\ heap_total' = heap_total
  BY DEF kfree
<1>3. c \in Blocks /\ c.addr = b.addr /\ c.size = b.size
  BY <1>1 DEF Block, Blocks, Lives
<1> HIDE DEF c
<1>4. Weight(b) = Credit(b) /\ Weight(c) = Credit(b) /\ Credit(b) \in Nat
  BY <1>1, <1>3, Sized DEF Weight, Credit, Lives
<1>5. ApartFromAll(free_list, c)
  <2>1. End(c) = End(b)
    BY <1>3, SMTT(20) DEF End
  <2> QED
    BY <1>1, <1>3, <2>1 DEF Disjoint, ApartFromAll, Apart
<1>6. /\ free_list' \in Seq(Blocks)
      /\ Total(BlocksOf(free_list')) = Total(BlocksOf(free_list)) + Weight(c)
      /\ Total(BlocksOf(free_list)) \in Nat
  <2>1. insert_free(free_list, c) \in Seq(Blocks) /\ Inserted(insert_free(free_list, c), free_list, c)
    BY <1>1, <1>3, <1>5, Inserts DEF Disjoint
  <2> QED
    BY <1>1, <1>2, <1>3, <1>5, <2>1, InsertTotal
<1>7. PICK k \in Nat : Small(live, k)
  BY DEF Counted
<1>8. /\ Total(live) = Weight(b) + Total(live \ {b}) /\ Total(live \ {b}) \in Nat
      /\ Small(live \ {b}, k)
  BY <1>1, <1>7, TotalWithout
<1>9. /\ heap_used = Total(live) /\ heap_total \in Nat
      /\ heap_used + Total(BlocksOf(free_list)) = heap_total
  BY DEF Counted
<1> DEFINE R == Total(live \ {b})
           F == Total(BlocksOf(free_list))
           w == Credit(b)
<1>10. /\ heap_used = w + R /\ R \in Nat /\ w \in Nat /\ F \in Nat /\ (w + R) + F = heap_total
       /\ Total(BlocksOf(free_list')) = F + w /\ Total(live') = R
       /\ heap_used' = (IF heap_used >= w THEN heap_used - w ELSE 0)
  BY <1>2, <1>4, <1>6, <1>8, <1>9, Zenon
<1> HIDE DEF R, F, w
<1>11. heap_used' = R /\ R + (F + w) = (w + R) + F
  BY <1>10
<1>12. Total(BlocksOf(free_list'))  = Total(BlocksOf(free_list))'
  BY DEF BlocksOf, Total, Sums, SumOfSet, Weight, Pick
<1>13. heap_used' = Total(live') /\ heap_used' + Total(BlocksOf(free_list')) = heap_total'
  BY <1>2, <1>10, <1>11, Zenon
<1> QED
  BY <1>2, <1>7, <1>8, <1>9, <1>12, <1>13, Zenon DEF Counted

\* heap_init sets the counters right.
LEMMA HeapInitCounted ==
    ASSUME IInv, Counted, heap_init
    PROVE  Counted'
<1>1. PICK ar \in NewArenas(ExpandedBytes(PageSize)) :
          free_list' = expand_heap(ar) /\ heap_total' = ar.size
  BY DEF heap_init
<1>2. /\ Unused(ar) /\ PageSize \in Nat /\ live' = live /\ live = {} /\ heap_used' = 0
      /\ free_list = <<>>
  BY Sized DEF heap_init, IInv, Unused
<1>3. /\ Total(BlocksOf(expand_heap(ar))) = Total(BlocksOf(free_list)) + ar.size
      /\ ar.size \in Nat
  BY <1>2, ExpandTotal DEF IInv
<1>4. BlocksOf(free_list) = {}
  BY <1>2 DEF BlocksOf
<1>5. Total(BlocksOf(free_list')) = ar.size
  BY <1>1, <1>3, <1>4, TotalEmpty
<1>6. Total(BlocksOf(free_list'))  = Total(BlocksOf(free_list))'
  BY DEF BlocksOf, Total, Sums, SumOfSet, Weight, Pick
<1>7. Total(live') = 0
  BY <1>2, TotalEmpty
<1>8. \E n \in Nat : Small(live', n)
  BY <1>2, Zenon DEF Counted
<1> QED
  BY <1>1, <1>2, <1>3, <1>5, <1>6, <1>7, <1>8 DEF Counted

\* Every call keeps the counters right.
THEOREM NextCounted == IInv /\ Counted /\ [Next]_vars => Counted'
<1> SUFFICES ASSUME IInv, Counted, [Next]_vars PROVE Counted'
  OBVIOUS
<1>1. CASE heap_init
  BY <1>1, HeapInitCounted
<1>2. CASE \E size \in Sizes, align \in Aligns : kmalloc_aligned(size, align)
  BY <1>2, KmallocCounted
<1>3. CASE \E b \in live : kfree(b)
  BY <1>3, KfreeCounted
<1>4. CASE UNCHANGED vars
  <2>1. UNCHANGED <<free_list, heap_used, heap_total, live>>
    BY <1>4 DEF vars
  <2> QED
    BY <2>1 DEF Counted, BlocksOf, Total, Sums, SumOfSet, Weight, Pick
<1> QED
  BY <1>1, <1>2, <1>3, <1>4 DEF Next

\* No byte is lost: heap_used is exactly what callers hold, and what
\* heap_used_bytes and heap_free_bytes report adds up to heap_total_bytes.
THEOREM NothingLost == Spec => []NoLeak
<1>1. Counted => NoLeak
  BY NoLeakTotals DEF Counted, BlocksOf, FreeBlocks
<1>2. Init => Counted
  BY InitCounted
<1>3. Spec => []IInv
  BY Invariance
<1>4. IInv /\ Counted /\ [Next]_vars => Counted'
  BY NextCounted
<1> QED
  BY <1>1, <1>2, <1>3, <1>4, PTL DEF Spec

=============================================================================
