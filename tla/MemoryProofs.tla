---------------------------- MODULE MemoryProofs ----------------------------
(***************************************************************************)
(* Theorems about the page allocator, its clients and paging, for any      *)
(* memory maps, page, word, table and bitmap sizes, any arguments of the   *)
(* allocator's callers and any pages that are mapped.                      *)
(***************************************************************************)
EXTENDS Paging, WellFoundedInduction, FiniteSetTheorems, TLAPS

UsedBits == Cardinality(bitmap \cap Managed)

\* used_pages is the number of bits set below total_pages, and more than that once
\* pmm_mark_region_free has cleared one of them.
CountOK ==
  ready = TRUE /\ total_pages <= MAX_PAGES =>
    IF region_freed = TRUE THEN UsedBits < used_pages ELSE used_pages = UsedBits

PmmInv ==
  /\ PmmTypeOK
  /\ with_map = TRUE => total_pages <= MAX_PAGES
  /\ overrun = TRUE => MAX_PAGES < total_pages
  /\ ready = FALSE => region_freed = FALSE /\ overrun = FALSE
  /\ CountOK

\* The count and the bits move by the same amount, for the same pages, and a write
\* behind the bitmap needs a page beyond it.
InStep ==
  /\ Managed' = Managed /\ used_pages' - used_pages = UsedBits' - UsedBits
  /\ UNCHANGED <<total_pages, ready, with_map, region_freed>>
  /\ overrun' = TRUE => overrun = TRUE \/ MAX_PAGES < total_pages

-----------------------------------------------------------------------------
(* Arithmetic, searches and loops                                          *)

\* A non-empty set of naturals has a least member, from the well-foundedness of <.
LEMMA LeastNatural ==
  ASSUME NEW S, S \subseteq Nat, S # {}
  PROVE  \E n \in S : \A m \in S : n <= m
<1>1. PICK n \in S : \A m \in S : ~(<<m, n>> \in OpToRel(<, Nat))
  BY NatLessThanWellFounded, WFMin, Zenon
<1>2. \A m \in S : ~(m < n)
  BY <1>1, Zenon DEF OpToRel
<1> QED
  BY <1>2

LEMMA FirstIsMember ==
  ASSUME NEW S, S \subseteq Nat, S # {}
  PROVE  First(S) \in S /\ \A q \in S : First(S) <= q
BY LeastNatural DEF First

LEMMA FirstIs ==
  ASSUME NEW S, S \subseteq Nat, NEW p \in S, \A q \in S : p <= q
  PROVE  First(S) = p
<1>1. First(S) \in S /\ First(S) <= p
  BY FirstIsMember
<1>2. First(S) \in Nat /\ p <= First(S)
  BY <1>1, Zenon
<1> QED
  BY <1>1, <1>2

\* Induction up to n, over a set rather than an operator.
LEMMA UpToN ==
  ASSUME NEW n \in Nat, NEW T, 0 \in T, \A k \in 1..n : k - 1 \in T => k \in T
  PROVE  \A k \in 0..n : k \in T
<1> DEFINE missed == {k \in 0..n : k \notin T}
<1> SUFFICES ASSUME missed # {} PROVE FALSE
  OBVIOUS
<1>1. missed \subseteq Nat
  OBVIOUS
<1> HIDE DEF missed
<1>2. PICK k \in missed : \A m \in missed : k <= m
  BY <1>1, LeastNatural
<1>3. k \in 0..n /\ k \notin T
  BY <1>2 DEF missed
<1>4. k \in 1..n /\ k - 1 \in 0..n /\ ~(k <= k - 1)
  BY <1>3
<1>5. k - 1 \in T
  BY <1>2, <1>4 DEF missed
<1> QED
  BY <1>3, <1>4, <1>5

\* A loop of n steps from b, step j of which turns the value s into G[j][s],
\* computes something.
Computes(n, S, b, G) ==
  \E f \in [0..n -> S] : f[0] = b /\ \A j \in 1..n : f[j] = G[j][f[j - 1]]

LEMMA LoopExists ==
  ASSUME NEW n \in Nat, NEW S, NEW b \in S, NEW G \in [1..n -> [S -> S]]
  PROVE  Computes(n, S, b, G)
<1> DEFINE Runs(f, k) == f[0] = b /\ \A j \in 1..k : f[j] = G[j][f[j - 1]]
           T == {k \in 0..n : \E f \in [0..k -> S] : Runs(f, k)}
<1>1. 0 \in T
  <2> DEFINE g == [j \in 0..0 |-> b]
  <2>1. g \in [0..0 -> S] /\ g[0] = b
    OBVIOUS
  <2> HIDE DEF g
  <2>2. Runs(g, 0)
    BY <2>1
  <2> QED
    BY <2>1, <2>2
<1>2. ASSUME NEW k \in 1..n, k - 1 \in T PROVE k \in T
  <2>1. PICK f \in [0..(k - 1) -> S] : Runs(f, k - 1)
    BY <1>2
  <2> DEFINE v == G[k][f[k - 1]]
             g == [j \in 0..k |-> IF j = k THEN v ELSE f[j]]
  <2>2. k \in Nat /\ k # 0 /\ k - 1 \in 0..(k - 1) /\ k \in 0..n /\ k \in 0..k /\ 0 \in 0..k
    OBVIOUS
  <2>3. v \in S
    <3>1. f[k - 1] \in S /\ G[k] \in [S -> S]
      BY <2>2
    <3> QED
      BY <3>1
  <2> HIDE DEF v
  <2>4. g \in [0..k -> S]
    BY <2>2, <2>3
  <2>5. g[k] = v /\ \A j \in 0..k : j # k => g[j] = f[j]
    BY <2>2
  <2> HIDE DEF g
  <2>6. g[0] = b
    BY <2>1, <2>2, <2>5
  <2>7. ASSUME NEW j \in 1..k PROVE g[j] = G[j][g[j - 1]]
    <3>1. j - 1 \in 0..k /\ j - 1 # k
      BY <2>2
    <3>2. g[j - 1] = f[j - 1]
      BY <2>5, <3>1
    <3>3. CASE j = k
      BY <2>5, <3>2, <3>3 DEF v
    <3>4. CASE j # k
      <4>1. j \in 1..(k - 1) /\ j \in 0..k
        BY <2>2, <3>4
      <4>2. f[j] = G[j][f[j - 1]]
        BY <2>1, <4>1
      <4> QED
        BY <2>5, <3>2, <3>4, <4>1, <4>2
    <3> QED
      BY <3>3, <3>4
  <2>8. Runs(g, k)
    BY <2>6, <2>7
  <2> QED
    BY <2>2, <2>4, <2>8
<1>3. n \in T
  <2> HIDE DEF T
  <2>1. \A k \in 0..n : k \in T
    BY <1>1, <1>2, UpToN
  <2> QED
    BY <2>1
<1> QED
  BY <1>3 DEF Computes

LEMMA QuotientAndRest ==
  ASSUME NEW n \in Nat \ {0}, NEW x \in Nat
  PROVE  /\ x \div n \in Nat /\ x % n \in 0..(n - 1)
         /\ x = (x \div n) * n + (x % n)
OBVIOUS

\* Multiples of one number are as their factors are.
LEMMA MultiplesInOrder ==
  ASSUME NEW n \in Nat \ {0}, NEW p \in Nat, NEW q \in Nat
  PROVE  /\ p * n \in Nat /\ q * n \in Nat
         /\ p < q => p * n + n <= q * n
         /\ p * n < q * n => p < q
<1>1. p * n \in Nat /\ q * n \in Nat
  OBVIOUS
<1>2. ASSUME NEW i \in Nat, NEW j \in Nat, i < j PROVE i * n + n <= j * n
  <2>1. j - i \in Nat /\ j - i >= 1
    BY <1>2
  <2>2. (j - i) * n >= n
    BY <2>1
  <2>3. (j - i) * n = j * n - i * n
    OBVIOUS
  <2> QED
    BY <2>2, <2>3
<1>3. p * n < q * n => p < q
  <2> SUFFICES ASSUME p * n < q * n, q <= p PROVE FALSE
    OBVIOUS
  <2>1. q = p \/ q * n + n <= p * n
    BY <1>2
  <2> QED
    BY <1>1, <2>1
<1> QED
  BY <1>1, <1>2, <1>3

\* As many whole pages as fit in memory: at most n if memory is at most that of n,
\* and at least n if it is at least that.
LEMMA WholePages ==
  ASSUME NEW memory \in Nat, NEW n \in Nat
  PROVE  /\ memory \div PAGE_SIZE \in Nat
         /\ memory <= n * PAGE_SIZE => memory \div PAGE_SIZE <= n
         /\ n * PAGE_SIZE <= memory => n <= memory \div PAGE_SIZE
<1> DEFINE q == memory \div PAGE_SIZE
           r == memory % PAGE_SIZE
<1>1. PAGE_SIZE \in Nat \ {0}
  BY PmmAssumption
<1>2. q \in Nat /\ r \in 0..(PAGE_SIZE - 1) /\ memory = q * PAGE_SIZE + r
  BY <1>1, QuotientAndRest
<1> HIDE DEF q, r
<1>3. /\ q * PAGE_SIZE \in Nat /\ n * PAGE_SIZE \in Nat
      /\ n < q => n * PAGE_SIZE + PAGE_SIZE <= q * PAGE_SIZE
      /\ q < n => q * PAGE_SIZE + PAGE_SIZE <= n * PAGE_SIZE
  BY <1>1, <1>2, MultiplesInOrder
<1>4. q \in Nat /\ (memory <= n * PAGE_SIZE => q <= n) /\ (n * PAGE_SIZE <= memory => n <= q)
  BY <1>1, <1>2, <1>3
<1> QED
  BY <1>4 DEF q

\* The page of a page's address is the page.
LEMMA PageOfAddress ==
  ASSUME NEW p \in Nat
  PROVE  PAGE_TO_ADDR(p) \in Nat /\ ADDR_TO_PAGE(PAGE_TO_ADDR(p)) = p
BY PmmAssumption DEF PAGE_TO_ADDR, ADDR_TO_PAGE

Top == ADDRESS_SPACE \div PAGE_SIZE

LEMMA TopOfBits ==
  /\ Top \in Nat /\ MAX_PAGES \in Nat /\ MAX_PAGES <= Top
  /\ Bits = 0..(Top - 1) /\ Pages = 0..(MAX_PAGES - 1)
<1>1. ADDRESS_SPACE \in Nat /\ MAX_PAGES \in Nat /\ MAX_PAGES * PAGE_SIZE <= ADDRESS_SPACE
  <2>1. MAX_PAGES * PAGE_SIZE \in Nat
    BY PmmAssumption
  <2> QED
    BY <2>1, PmmAssumption
<1> QED
  BY <1>1, WholePages DEF Top, Bits, Pages

LEMMA FinitePages ==
  /\ Bits \subseteq Nat /\ Pages \subseteq Bits /\ Managed \subseteq Bits
  /\ \A S \in SUBSET Bits : IsFiniteSet(S) /\ Cardinality(S) \in Nat
<1>1. IsFiniteSet(Bits)
  BY FS_Interval, TopOfBits
<1>2. ASSUME NEW S \in SUBSET Bits PROVE IsFiniteSet(S) /\ Cardinality(S) \in Nat
  BY <1>1, FS_Subset, FS_CardinalityType
<1>3. Bits \subseteq Nat /\ Pages \subseteq Bits /\ Managed \subseteq Bits
  BY TopOfBits DEF Managed
<1> QED
  BY <1>2, <1>3

LEMMA ManagedPages ==
  ASSUME total_pages \in 0..Top
  PROVE  /\ Managed = 0..(total_pages - 1) /\ Cardinality(Managed) = total_pages
         /\ total_pages <= MAX_PAGES => Managed \subseteq Pages
<1>1. Managed = 0..(total_pages - 1)
  BY TopOfBits DEF Managed
<1>2. Cardinality(0..(total_pages - 1)) = total_pages
  BY FS_Interval, TopOfBits
<1>3. total_pages <= MAX_PAGES => 0..(total_pages - 1) \subseteq Pages
  BY TopOfBits
<1> QED
  BY <1>1, <1>2, <1>3

\* Pages taken out of a set, and pages added to it, by number.
LEMMA CountWithout ==
  ASSUME NEW S \in SUBSET Bits, NEW T \in SUBSET S
  PROVE  Cardinality(S \ T) = Cardinality(S) - Cardinality(T)
<1>1. IsFiniteSet(S) /\ S \cap T = T
  BY FinitePages
<1> QED
  BY <1>1, FS_Difference

LEMMA CountWith ==
  ASSUME NEW S \in SUBSET Bits, NEW T \in SUBSET (Bits \ S)
  PROVE  Cardinality(S \cup T) = Cardinality(S) + Cardinality(T)
<1>1. (S \cup T) \ T = S /\ S \cup T \in SUBSET Bits
  OBVIOUS
<1>2. Cardinality(S) = Cardinality(S \cup T) - Cardinality(T)
  BY <1>1, CountWithout
<1> QED
  BY <1>1, <1>2, FinitePages

\* total_memory is the end of a region, cut to MAX_MEMORY.
LEMMA TotalMemoryFits ==
  ASSUME NEW map \in MemoryMaps
  PROVE  TotalMemory(map) \in Nat /\ TotalMemory(map) <= MAX_PAGES * PAGE_SIZE
<1> DEFINE top == MAX_PAGES * PAGE_SIZE
<1>1. top \in Nat
  BY PmmAssumption
<1>2. \A r \in Usable(map) : r \in Regions
  BY PmmAssumption DEF Usable
<1> HIDE DEF top
<1>3. \A r \in Usable(map) : CutEnd(r) \in Nat /\ CutEnd(r) <= top
  BY <1>1, <1>2 DEF CutEnd, Regions, top
<1>4. CASE Usable(map) = {}
  BY <1>1, <1>4 DEF TotalMemory, top
<1>5. CASE Usable(map) # {}
  <2> DEFINE gaps == {top - CutEnd(r) : r \in Usable(map)}
             Last(r) == \A q \in Usable(map) : CutEnd(q) <= CutEnd(r)
  <2>1. gaps \subseteq Nat /\ gaps # {}
    BY <1>1, <1>3, <1>5
  <2>2. PICK g \in gaps : \A h \in gaps : g <= h
    BY <2>1, LeastNatural
  <2>3. PICK r \in Usable(map) : g = top - CutEnd(r)
    BY <2>2
  <2>4. Last(r)
    BY <1>1, <1>3, <2>2, <2>3
  <2>5. TotalMemory(map) = CutEnd(CHOOSE k \in Usable(map) : Last(k))
    BY <1>5, Zenon DEF TotalMemory
  <2> HIDE DEF Last
  <2>6. (CHOOSE k \in Usable(map) : Last(k)) \in Usable(map)
    BY <2>4
  <2> QED
    BY <1>3, <2>5, <2>6 DEF top
<1> QED
  BY <1>4, <1>5

-----------------------------------------------------------------------------
(* The four ways in which the bits change                                  *)

\* The flags are Booleans, so that a call's disjunctions and tests are too.
LEMMA WritesBoolean ==
  ASSUME PmmTypeOK, NEW pages \in SUBSET Managed, Writes(pages)
  PROVE  overrun' \in BOOLEAN /\ (overrun' = TRUE => overrun = TRUE \/ MAX_PAGES < total_pages)
<1>1. total_pages \in 0..Top /\ overrun \in BOOLEAN
  BY DEF PmmTypeOK, Top
<1>2. total_pages <= MAX_PAGES => pages \subseteq Pages
  BY <1>1, ManagedPages
<1>3. total_pages <= MAX_PAGES \/ MAX_PAGES < total_pages
  BY <1>1, TopOfBits
<1> QED
  BY <1>1, <1>2, <1>3, Zenon DEF Writes

LEMMA ClearInStep ==
  ASSUME PmmTypeOK, NEW pages \in SUBSET Managed, Clear(pages)
  PROVE  PmmTypeOK' /\ InStep
<1>1. Managed' = Managed
  BY DEF Clear, Managed, Bits
<1> DEFINE cleared == pages \cap bitmap
<1>2. cleared \in SUBSET (bitmap \cap Managed) /\ bitmap \cap Managed \in SUBSET Bits
  BY FinitePages
<1>3. bitmap' \cap Managed' = (bitmap \cap Managed) \ cleared
  BY <1>1 DEF Clear
<1>4. UsedBits' = UsedBits - Cardinality(cleared)
  BY <1>2, <1>3, CountWithout DEF UsedBits
<1>5. Cardinality(cleared) \in Nat /\ UsedBits \in Nat
  BY <1>2, FinitePages DEF UsedBits
<1>6. used_pages' = used_pages - Cardinality(cleared)
  BY DEF Clear
<1>7. overrun' \in BOOLEAN /\ (overrun' = TRUE => overrun = TRUE \/ MAX_PAGES < total_pages)
  BY <1>2, WritesBoolean DEF Clear
<1>8. PmmTypeOK'
  <2>1. bitmap' \subseteq Bits /\ used_pages' \in Int
    BY <1>5, <1>6 DEF Clear, PmmTypeOK
  <2> QED
    BY <1>7, <2>1 DEF Clear, PmmTypeOK, Bits
<1> QED
  BY <1>1, <1>4, <1>5, <1>6, <1>7, <1>8 DEF Clear, InStep, PmmTypeOK

LEMMA MarkInStep ==
  ASSUME PmmTypeOK, NEW pages \in SUBSET Managed, Mark(pages)
  PROVE  PmmTypeOK' /\ InStep
<1>1. Managed' = Managed
  BY DEF Mark, Managed, Bits
<1> DEFINE marked == pages \ bitmap
<1>2. /\ marked \in SUBSET (Bits \ (bitmap \cap Managed)) /\ marked \in SUBSET Managed
      /\ bitmap \cap Managed \in SUBSET Bits
  BY FinitePages
<1>3. bitmap' \cap Managed' = (bitmap \cap Managed) \cup marked
  BY <1>1 DEF Mark
<1>4. UsedBits' = UsedBits + Cardinality(marked)
  BY <1>2, <1>3, CountWith DEF UsedBits
<1>5. Cardinality(marked) \in Nat /\ UsedBits \in Nat
  BY <1>2, FinitePages DEF UsedBits
<1>6. used_pages' = used_pages + Cardinality(marked)
  BY DEF Mark
<1>7. overrun' \in BOOLEAN /\ (overrun' = TRUE => overrun = TRUE \/ MAX_PAGES < total_pages)
  BY <1>2, WritesBoolean DEF Mark
<1>8. PmmTypeOK'
  BY <1>5, <1>6, <1>7, FinitePages DEF Mark, PmmTypeOK, Bits
<1> QED
  BY <1>1, <1>4, <1>5, <1>6, <1>7, <1>8 DEF Mark, InStep, PmmTypeOK

LEMMA TakeInStep ==
  ASSUME PmmTypeOK, NEW start \in Nat, NEW count \in Nat,
         start..(start + count - 1) \subseteq Managed \ bitmap, Take(start, count)
  PROVE  PmmTypeOK' /\ InStep /\ ADDR_TO_PAGE(ret') = start
<1> DEFINE pages == start..(start + count - 1)
<1>1. Managed' = Managed
  BY DEF Take, Managed, Bits
<1>2. /\ pages \in SUBSET (Bits \ (bitmap \cap Managed)) /\ pages \in SUBSET Managed
      /\ bitmap \cap Managed \in SUBSET Bits
  BY FinitePages
<1>3. bitmap' \cap Managed' = (bitmap \cap Managed) \cup pages
  <2>1. bitmap' = bitmap \cup pages
    BY DEF Take
  <2> HIDE DEF pages
  <2> QED
    BY <1>1, <1>2, <2>1
<1>4. Cardinality(pages) = count
  <2>1. IF start <= start + count - 1 THEN (start + count - 1) - start + 1 = count ELSE count = 0
    OBVIOUS
  <2>2. start \in Int /\ start + count - 1 \in Int
    OBVIOUS
  <2> QED
    BY <2>1, <2>2, FS_Interval
<1> HIDE DEF pages
<1>5. UsedBits' = UsedBits + count /\ UsedBits \in Nat
  BY <1>2, <1>3, <1>4, CountWith, FinitePages DEF UsedBits
<1>6. used_pages' = used_pages + count
  BY DEF Take
<1>7. ret' \in Nat /\ ADDR_TO_PAGE(ret') = start
  BY PageOfAddress DEF Take
<1>8. overrun' \in BOOLEAN /\ (overrun' = TRUE => overrun = TRUE \/ MAX_PAGES < total_pages)
  BY <1>2, WritesBoolean DEF Take, pages
<1>9. PmmTypeOK'
  <2>1. bitmap' = bitmap \cup pages
    BY DEF Take, pages
  <2> QED
    BY <1>2, <1>6, <1>7, <1>8, <2>1 DEF Take, PmmTypeOK, Bits
<1> QED
  BY <1>1, <1>5, <1>6, <1>7, <1>8, <1>9 DEF Take, InStep, PmmTypeOK

LEMMA FailInStep ==
  ASSUME PmmTypeOK, Fail
  PROVE  PmmTypeOK' /\ InStep
<1>1. Managed' = Managed /\ UsedBits' = UsedBits /\ UsedBits \in Nat
  BY FinitePages DEF Fail, UsedBits, Managed, Bits
<1> QED
  BY <1>1 DEF Fail, InStep, PmmTypeOK, Bits

-----------------------------------------------------------------------------
(* What the searches find                                                  *)

LEMMA PlaceNumbers ==
  ASSUME NEW count
  PROVE  Places(count) \subseteq Nat
BY FinitePages DEF Places

\* bitmap_find_free: the first free bit of the first word that is not full.
LEMMA FindFree ==
  ASSUME PmmTypeOK
  PROVE  IF Places(1) = {} THEN bitmap_find_free = None
         ELSE bitmap_find_free = First(Places(1))
<1> DEFINE n == total_pages \div WORD
           open == {i \in Words : ~(WordBits(i) \subseteq bitmap)}
<1>1. WORD \in Nat \ {0} /\ total_pages \in 0..Top /\ total_pages \in Nat
  BY PmmAssumption, TopOfBits DEF PmmTypeOK, Top
<1>2. n \in Nat /\ n * WORD \in Nat /\ n * WORD <= total_pages
  <2>1. /\ n \in Nat /\ total_pages % WORD \in 0..(WORD - 1)
        /\ total_pages = n * WORD + (total_pages % WORD)
    BY <1>1, QuotientAndRest
  <2>2. n * WORD \in Nat
    BY <1>1, <2>1
  <2> DEFINE r == total_pages % WORD
             m == n * WORD
  <2>3. r \in Nat /\ m \in Nat /\ total_pages = m + r
    BY <1>1, <2>1, <2>2
  <2> HIDE DEF r, m
  <2>4. m <= total_pages
    BY <2>3
  <2> QED
    BY <2>1, <2>2, <2>4 DEF m
<1>3. Managed = 0..(total_pages - 1)
  BY <1>1, ManagedPages
<1>4. Words = 0..(n - 1)
  BY DEF Words
<1> HIDE DEF n
<1>5. \A p : p \in Places(1) <=> p \in Nat /\ p < n * WORD /\ p \notin bitmap
  <2> SUFFICES ASSUME NEW p PROVE p \in Places(1) <=> p \in Nat /\ p < n * WORD /\ p \notin bitmap
    OBVIOUS
  <2>1. p \in Places(1) <=> /\ p \in Managed /\ p < n * WORD
                            /\ \A q \in p..(p + 1 - 1) : q \in Managed \ bitmap
    BY DEF Places, n
  <2>2. p \in Nat => p..(p + 1 - 1) = {p}
    OBVIOUS
  <2>3. p \in Managed => p \in Nat
    BY FinitePages
  <2>4. p \in Nat /\ p < n * WORD => p \in Managed
    BY <1>1, <1>2, <1>3
  <2> QED
    BY <2>1, <2>2, <2>3, <2>4
<1>6. ASSUME NEW i \in Nat, NEW p
      PROVE  p \in WordBits(i) <=> p \in Nat /\ i * WORD <= p /\ p < i * WORD + WORD
  <2>1. i * WORD \in Nat
    BY <1>1
  <2> QED
    BY <1>1, <2>1 DEF WordBits
<1>7. ASSUME NEW i \in Words, NEW p \in WordBits(i) PROVE p \in Nat /\ p < n * WORD
  <2>1. i \in Nat /\ i < n
    BY <1>2, <1>4
  <2>2. i * WORD \in Nat /\ i * WORD + WORD <= n * WORD
    BY <1>1, <1>2, <2>1, MultiplesInOrder
  <2>3. p \in Nat /\ p < i * WORD + WORD
    BY <1>6, <1>7, <2>1
  <2> QED
    BY <1>1, <1>2, <2>2, <2>3
<1>8. ASSUME NEW p \in Places(1)
      PROVE  p \div WORD \in open /\ p \in WordBits(p \div WORD) \ bitmap
  <2> DEFINE i == p \div WORD
  <2>1. p \in Nat /\ p < n * WORD /\ p \notin bitmap
    BY <1>5
  <2>2. i \in Nat /\ p % WORD \in 0..(WORD - 1) /\ p = i * WORD + (p % WORD)
    BY <1>1, <2>1, QuotientAndRest
  <2> HIDE DEF i
  <2>3. i * WORD \in Nat /\ i * WORD <= p /\ p < i * WORD + WORD
    BY <1>1, <2>1, <2>2
  <2>4. i * WORD < n * WORD
    BY <1>2, <2>1, <2>3
  <2>5. i < n
    BY <1>1, <1>2, <2>2, <2>4, MultiplesInOrder
  <2>6. i \in Words
    BY <1>2, <1>4, <2>2, <2>5
  <2>7. p \in WordBits(i) \ bitmap
    BY <1>6, <2>1, <2>2, <2>3
  <2> QED
    BY <2>6, <2>7 DEF i
<1>9. open \subseteq Nat
  BY <1>4
<1>10. bitmap_find_free = IF open = {} THEN None ELSE First(WordBits(First(open)) \ bitmap)
  BY DEF bitmap_find_free
<1>11. CASE open = {}
  BY <1>8, <1>10, <1>11
<1>12. CASE open # {}
  <2> DEFINE i == First(open)
             left == WordBits(i) \ bitmap
             p == First(left)
  <2>1. i \in open /\ \A j \in open : i <= j
    BY <1>9, <1>12, FirstIsMember
  <2>2. i \in Words /\ i \in Nat /\ left # {}
    BY <1>9, <2>1
  <2> HIDE DEF i
  <2>3. left \subseteq Nat
    BY <1>6, <2>2
  <2>4. p \in left /\ \A q \in left : p <= q
    BY <2>2, <2>3, FirstIsMember
  <2> HIDE DEF p, left
  <2>5. p \in Places(1)
    BY <1>5, <1>7, <2>2, <2>4 DEF left
  <2>6. ASSUME NEW q \in Places(1) PROVE p <= q
    <3> DEFINE j == q \div WORD
    <3>1. j \in open /\ q \in WordBits(j) /\ q \notin bitmap
      BY <1>8
    <3> HIDE DEF j
    <3>2. j \in Nat /\ i <= j /\ q \in Nat /\ j * WORD <= q
      BY <1>6, <1>9, <2>1, <3>1
    <3>3. CASE j = i
      BY <2>4, <3>1, <3>3 DEF left
    <3>4. CASE i < j
      <4>1. i * WORD \in Nat /\ j * WORD \in Nat /\ i * WORD + WORD <= j * WORD
        BY <1>1, <2>2, <3>2, <3>4, MultiplesInOrder
      <4>2. p \in Nat /\ p < i * WORD + WORD
        BY <1>6, <2>2, <2>4 DEF left
      <4> QED
        BY <1>1, <3>2, <4>1, <4>2
    <3> QED
      BY <2>2, <3>2, <3>3, <3>4
  <2>7. First(Places(1)) = p
    BY <2>5, <2>6, FirstIs, PlaceNumbers
  <2> QED
    BY <1>10, <1>12, <2>5, <2>7 DEF p, left, i
<1> QED
  BY <1>11, <1>12

ScanStates == [start : Nat, found : Nat]

\* After the rounds for the pages below i, no run of count pages has been seen, and
\* the last found of them are free.
Searching(s, i, count) ==
  /\ s.found < count /\ s.found <= i
  /\ \A q \in (i - s.found)..(i - 1) : q \notin bitmap
  /\ s.found > 0 => s.start = i - s.found
  /\ \A p \in 0..(i - s.found - 1) : p \notin Places(count)

\* The first run has been seen.
Ended(s, count) ==
  /\ s.found = count /\ s.start \in Places(count)
  /\ \A p \in 0..(s.start - 1) : p \notin Places(count)

LEMMA ScanRound ==
  ASSUME PmmTypeOK, NEW count \in Nat, count > 1, NEW i \in Managed, NEW s \in ScanStates,
         Searching(s, i, count) \/ Ended(s, count)
  PROVE  /\ Round(s, i, count) \in ScanStates
         /\ \/ Searching(Round(s, i, count), i + 1, count)
            \/ Ended(Round(s, i, count), count)
<1> DEFINE r == Round(s, i, count)
<1>1. /\ i \in Nat /\ s.start \in Nat /\ s.found \in Nat /\ total_pages \in 0..Top
  BY FinitePages DEF ScanStates, PmmTypeOK, Top
<1>2. Managed = 0..(total_pages - 1) /\ total_pages \in Nat
  BY <1>1, ManagedPages, TopOfBits
<1>3. \A p : p \in Places(count) <=>
               p \in Managed /\ \A q \in p..(p + count - 1) : q \in Managed \ bitmap
  BY DEF Places
<1>4. CASE s.found = count
  BY <1>1, <1>4 DEF Round, Searching, ScanStates
<1>5. CASE s.found # count /\ i \in bitmap
  <2>1. r = [start |-> s.start, found |-> 0] /\ r \in ScanStates /\ r.found = 0
    BY <1>1, <1>5 DEF Round, ScanStates
  <2> HIDE DEF r
  <2>2. Searching(s, i, count)
    BY <1>5 DEF Ended
  <2>3. ASSUME NEW p \in 0..i PROVE p \notin Places(count)
    <3>1. CASE p < i - s.found
      BY <1>1, <2>2, <2>3, <3>1 DEF Searching
    <3>2. CASE p >= i - s.found
      <4>1. i \in p..(p + count - 1)
        BY <1>1, <2>2, <2>3, <3>2 DEF Searching
      <4> QED
        BY <1>3, <1>5, <4>1
    <3> QED
      BY <1>1, <2>3, <3>1, <3>2
  <2>4. Searching(r, i + 1, count)
    BY <1>1, <2>1, <2>3 DEF Searching
  <2> QED
    BY <2>1, <2>4 DEF r
<1>6. CASE s.found # count /\ i \notin bitmap
  <2> DEFINE b == i - s.found
  <2>1. Searching(s, i, count)
    BY <1>6 DEF Ended
  <2>2. b \in Nat /\ s.found < count /\ (s.found > 0 => s.start = b)
    BY <1>1, <2>1 DEF Searching
  <2>3. r = [start |-> IF s.found = 0 THEN i ELSE s.start, found |-> s.found + 1]
    BY <1>6 DEF Round
  <2>4. r \in ScanStates /\ r.start = b /\ r.found = s.found + 1 /\ b = (i + 1) - r.found
    BY <1>1, <2>2, <2>3 DEF ScanStates
  <2>5. \A q \in b..i : q \notin bitmap
    <3> SUFFICES ASSUME NEW q \in b..i PROVE q \notin bitmap
      OBVIOUS
    <3>1. q = i \/ q \in b..(i - 1)
      BY <1>1, <2>2
    <3> QED
      BY <1>6, <2>1, <3>1 DEF Searching
  <2>6. \A p \in 0..(b - 1) : p \notin Places(count)
    BY <2>1 DEF Searching
  <2> HIDE DEF r
  <2>7. CASE r.found < count
    <3>1. (i + 1) - 1 = i /\ r.found <= i + 1
      BY <1>1, <2>2, <2>4
    <3>2. Searching(r, i + 1, count)
      <4> HIDE DEF b
      <4> QED
        BY <2>4, <2>5, <2>6, <2>7, <3>1 DEF Searching
    <3> QED
      BY <2>4, <3>2 DEF r
  <2>8. CASE r.found = count
    <3>1. b + count - 1 = i
      BY <1>1, <2>4, <2>8
    <3>2. b..(b + count - 1) \subseteq Managed /\ b \in Managed
      BY <1>1, <1>2, <2>2, <3>1
    <3> HIDE DEF b
    <3>3. b \in Places(count)
      BY <1>3, <2>5, <3>1, <3>2
    <3>4. Ended(r, count)
      BY <2>4, <2>6, <2>8, <3>3 DEF Ended
    <3> QED
      BY <2>4, <3>4 DEF r
  <2> QED
    BY <1>1, <2>2, <2>4, <2>7, <2>8
<1> QED
  BY <1>4, <1>5, <1>6

\* bitmap_find_free_contiguous: the first run of count free pages.
LEMMA FindRun ==
  ASSUME PmmTypeOK, NEW count \in Nat, count > 1
  PROVE  IF Places(count) = {} THEN bitmap_find_free_contiguous(count) = None
         ELSE bitmap_find_free_contiguous(count) = First(Places(count))
<1> DEFINE n == total_pages
           base == [start |-> 0, found |-> 0]
           scan[i \in 0..n] == IF i = 0 THEN base ELSE Round(scan[i - 1], i - 1, count)
           last == scan[n]
<1>1. n \in Nat /\ Managed = 0..(n - 1)
  BY ManagedPages, TopOfBits DEF PmmTypeOK, Top
<1>2. bitmap_find_free_contiguous(count) = IF last.found = count THEN last.start ELSE None
  BY DEF bitmap_find_free_contiguous
<1>3. base \in ScanStates /\ base.found = 0
  BY DEF ScanStates
<1>4. ASSUME NEW j \in 1..n, NEW s \in ScanStates PROVE Round(s, j - 1, count) \in ScanStates
  BY <1>1 DEF Round, ScanStates
<1> DEFINE step == [j \in 1..n |-> [s \in ScanStates |-> Round(s, j - 1, count)]]
<1>5. step \in [1..n -> [ScanStates -> ScanStates]]
  BY <1>4
<1>6. \A j \in 1..n : \A s \in ScanStates : step[j][s] = Round(s, j - 1, count)
  OBVIOUS
<1> HIDE DEF n, base, step
<1>7. PICK f \in [0..n -> ScanStates] : f[0] = base /\ \A j \in 1..n : f[j] = step[j][f[j - 1]]
  <2>1. Computes(n, ScanStates, base, step)
    BY <1>1, <1>3, <1>5, LoopExists
  <2> QED
    BY <2>1, Zenon DEF Computes
<1>8. f = [i \in 0..n |-> IF i = 0 THEN base ELSE Round(f[i - 1], i - 1, count)]
  <2>1. ASSUME NEW i \in 0..n, i # 0 PROVE f[i] = Round(f[i - 1], i - 1, count)
    <3>1. i \in 1..n /\ i - 1 \in 0..n
      BY <1>1, <2>1
    <3> QED
      BY <1>6, <1>7, <3>1
  <2> QED
    BY <1>7, <2>1
<1>9. scan = [i \in 0..n |-> IF i = 0 THEN base ELSE Round(scan[i - 1], i - 1, count)]
  BY <1>8, Zenon
<1> HIDE DEF scan
<1>10. scan[0] = base /\ \A j \in 1..n : j - 1 \in 0..n /\ scan[j] = Round(scan[j - 1], j - 1, count)
  <2>1. 0 \in 0..n /\ \A j \in 1..n : j \in 0..n /\ j # 0 /\ j - 1 \in 0..n
    BY <1>1
  <2> QED
    BY <1>9, <2>1
<1> DEFINE Good(s, i) == s \in ScanStates /\ (Searching(s, i, count) \/ Ended(s, count))
           T == {i \in 0..n : Good(scan[i], i)}
<1>11. Good(base, 0)
  BY <1>3 DEF Searching
<1>12. 0 \in T
  BY <1>1, <1>10, <1>11
<1>13. ASSUME NEW j \in 1..n, j - 1 \in T PROVE j \in T
  <2>1. j - 1 \in Managed /\ j \in 0..n /\ (j - 1) + 1 = j
    BY <1>1
  <2>2. Good(scan[j - 1], j - 1)
    BY <1>13
  <2>3. Good(Round(scan[j - 1], j - 1, count), (j - 1) + 1)
    BY <2>1, <2>2, ScanRound
  <2> QED
    BY <1>10, <2>1, <2>3
<1>14. Good(last, n)
  <2> HIDE DEF T
  <2>1. \A i \in 0..n : i \in T
    BY <1>1, <1>12, <1>13, UpToN
  <2> QED
    BY <1>1, <2>1 DEF T
<1>15. last.found \in Nat /\ last.start \in Nat
  BY <1>14 DEF ScanStates
<1> HIDE DEF last
<1>16. CASE Ended(last, count)
  <2>1. ASSUME NEW q \in Places(count) PROVE last.start <= q
    <3>1. q \in Nat
      BY PlaceNumbers
    <3> SUFFICES ASSUME q < last.start PROVE FALSE
      BY <1>15, <3>1
    <3>2. q \in 0..(last.start - 1)
      BY <1>15, <3>1
    <3> QED
      BY <1>16, <3>2 DEF Ended
  <2>2. last.found = count /\ last.start \in Places(count)
    BY <1>16 DEF Ended
  <2>3. First(Places(count)) = last.start
    BY <2>1, <2>2, FirstIs, PlaceNumbers
  <2> QED
    BY <1>2, <2>2, <2>3
<1>17. CASE Searching(last, n, count)
  <2>1. last.found # count /\ last.found < count /\ last.found <= n
    BY <1>15, <1>17 DEF Searching
  <2>2. ASSUME NEW p \in Places(count) PROVE FALSE
    <3>1. p \in Nat /\ \A q \in p..(p + count - 1) : q \in 0..(n - 1)
      BY <1>1, PlaceNumbers DEF Places
    <3>2. p + count - 1 \in 0..(n - 1)
      BY <3>1
    <3>3. p \in 0..(n - last.found - 1)
      BY <1>1, <1>15, <2>1, <3>1, <3>2
    <3> QED
      BY <1>17, <2>2, <3>3 DEF Searching
  <2> QED
    BY <1>2, <2>1, <2>2
<1> QED
  BY <1>14, <1>16, <1>17

LEMMA AllocationFits ==
  ASSUME PmmTypeOK, NEW count \in Nat \ {0}, pmm_alloc_pages(count)
  PROVE  \/ Places(count) = {} /\ Fail
         \/ /\ Places(count) # {} /\ Take(First(Places(count)), count)
            /\ First(Places(count)) \in Nat
            /\ First(Places(count))..(First(Places(count)) + count - 1) \subseteq Managed \ bitmap
<1> DEFINE p == First(Places(count))
<1>1. Places(count) # {} => /\ p \in Nat /\ p # None
                            /\ p..(p + count - 1) \subseteq Managed \ bitmap
  <2> SUFFICES ASSUME Places(count) # {}
               PROVE  p \in Nat /\ p # None /\ p..(p + count - 1) \subseteq Managed \ bitmap
    OBVIOUS
  <2>1. p \in Places(count) /\ p \in Nat
    BY FirstIsMember, PlaceNumbers
  <2> HIDE DEF p
  <2>2. p # None
    BY <2>1 DEF None
  <2> QED
    BY <2>1, <2>2 DEF Places
<1> HIDE DEF p
<1>2. CASE count = 1
  <2>1. TakeOrFail(bitmap_find_free, 1)
    BY <1>2 DEF pmm_alloc_pages, pmm_alloc_page
  <2> QED
    BY <1>1, <1>2, <2>1, FindFree DEF TakeOrFail, p
<1>3. CASE count > 1
  <2>1. TakeOrFail(bitmap_find_free_contiguous(count), count)
    BY <1>3 DEF pmm_alloc_pages
  <2> QED
    BY <1>1, <1>3, <2>1, FindRun DEF TakeOrFail, p
<1> QED
  BY <1>2, <1>3

LEMMA AllocPagesInStep ==
  ASSUME PmmTypeOK, NEW count \in Nat, pmm_alloc_pages(count)
  PROVE  PmmTypeOK' /\ InStep
<1>1. CASE Fail
  BY <1>1, FailInStep
<1>2. CASE count # 0 /\ ~Fail
  <2> DEFINE p == First(Places(count))
  <2>1. p \in Nat /\ p..(p + count - 1) \subseteq Managed \ bitmap /\ Take(p, count)
    BY <1>2, AllocationFits
  <2> HIDE DEF p
  <2> QED
    BY <2>1, TakeInStep
<1> QED
  BY <1>1, <1>2 DEF pmm_alloc_pages

-----------------------------------------------------------------------------
(* The operations                                                          *)

\* Every call but pmm_mark_region_free.
Call ==
  \/ AllocPage
  \/ \E count \in Counts : AllocPages(count)
  \/ \E addr \in Addrs : FreePage(addr) \/ MarkUsed(addr)
  \/ \E addr \in Addrs, count \in Counts : FreePages(addr, count)
  \/ \E start \in Addrs, size \in Sizes : MarkRegionUsed(start, size)

LEMMA CallInStep ==
  ASSUME PmmTypeOK, Call
  PROVE  PmmTypeOK' /\ InStep
<1>1. CASE AllocPage
  <2>1. pmm_alloc_pages(1)
    BY <1>1 DEF AllocPage, pmm_alloc_pages
  <2> QED
    BY <2>1, AllocPagesInStep
<1>2. ASSUME NEW count \in Counts, AllocPages(count) PROVE PmmTypeOK' /\ InStep
  BY <1>2, AllocPagesInStep, PmmAssumption DEF AllocPages
<1>3. ASSUME NEW addr \in Addrs, FreePage(addr) \/ MarkUsed(addr) PROVE PmmTypeOK' /\ InStep
  <2>1. {ADDR_TO_PAGE(addr)} \cap Managed \in SUBSET Managed
    OBVIOUS
  <2> QED
    BY <1>3, <2>1, ClearInStep, MarkInStep DEF FreePage, MarkUsed, pmm_free_page, pmm_mark_used
<1>4. ASSUME NEW addr \in Addrs, NEW count \in Counts, FreePages(addr, count)
      PROVE  PmmTypeOK' /\ InStep
  BY <1>4, ClearInStep DEF FreePages, pmm_free_pages
<1>5. ASSUME NEW start \in Addrs, NEW size \in Sizes, MarkRegionUsed(start, size)
      PROVE  PmmTypeOK' /\ InStep
  BY <1>5, MarkInStep DEF MarkRegionUsed, pmm_mark_region_used
<1> QED
  BY <1>1, <1>2, <1>3, <1>4, <1>5 DEF Call

LEMMA CallKeepsInv ==
  ASSUME PmmInv, Call
  PROVE  PmmInv'
<1>1. PmmTypeOK /\ PmmTypeOK' /\ InStep
  BY CallInStep DEF PmmInv
<1>2. ready = TRUE
  BY <1>1 DEF Call, AllocPage, AllocPages, FreePage, MarkUsed, FreePages, MarkRegionUsed, Usual,
              PmmTypeOK
<1>3. bitmap \cap Managed \in SUBSET Bits /\ bitmap' \cap Managed' \in SUBSET Bits
  BY <1>1, FinitePages DEF InStep
<1>4. UsedBits \in Nat /\ UsedBits' \in Nat
  BY <1>3, FinitePages DEF UsedBits
<1>5. used_pages \in Int /\ used_pages' \in Int /\ total_pages \in Int /\ MAX_PAGES \in Nat
  BY <1>1, TopOfBits DEF PmmTypeOK
<1>6. CountOK'
  BY <1>1, <1>2, <1>4, <1>5 DEF InStep, PmmInv, CountOK
<1> QED
  BY <1>1, <1>2, <1>6 DEF InStep, PmmInv

\* pmm_init sets the bounds and counts the bits.
LEMMA MapBoot ==
  ASSUME PmmTypeOK, NEW map \in MemoryMaps, pmm_init(map)
  PROVE  /\ total_pages' \in 0..(ADDRESS_SPACE \div PAGE_SIZE) /\ total_pages' <= MAX_PAGES
         /\ bitmap' \subseteq Bits /\ used_pages' = UsedBits' /\ used_pages' \in Int
         /\ with_map' = TRUE
<1>1. MAX_PAGES \in Nat /\ MAX_PAGES * PAGE_SIZE \in Nat
  BY PmmAssumption
<1>2. TotalMemory(map) \in Nat /\ TotalMemory(map) <= MAX_PAGES * PAGE_SIZE
  BY TotalMemoryFits
<1>3. total_pages' \in Nat /\ total_pages' <= MAX_PAGES
  BY <1>1, <1>2, WholePages DEF pmm_init
<1>4. bitmap' \subseteq Bits
  <2>1. Managed' \subseteq Bits
    BY DEF Managed, Bits
  <2> QED
    BY <2>1, FinitePages DEF pmm_init, PmmTypeOK
<1>5. bitmap' \cap Managed' \in SUBSET Bits
  BY <1>4
<1>6. used_pages' = UsedBits' /\ used_pages' \in Int
  BY <1>5, FinitePages DEF pmm_init, UsedBits
<1>7. with_map' = TRUE
  BY DEF pmm_init
<1> QED
  BY <1>3, <1>4, <1>6, <1>7, TopOfBits DEF Top

LEMMA PlainBoot ==
  ASSUME PmmTypeOK, NEW mem_upper \in MemUppers, pmm_init_without_map(mem_upper)
  PROVE  /\ total_pages' \in 0..(ADDRESS_SPACE \div PAGE_SIZE)
         /\ bitmap' \subseteq Bits /\ used_pages' \in Int /\ with_map' = FALSE
         /\ total_pages' <= MAX_PAGES => used_pages' = UsedBits'
<1> DEFINE memory == Wrap((mem_upper + LOW_MEMORY \div KB) * KB)
<1>1. memory \in Nat /\ memory <= ADDRESS_SPACE
  <2>1. LOW_MEMORY \div KB \in Nat /\ mem_upper \in Nat /\ KB \in Nat
    BY PmmAssumption
  <2>2. (mem_upper + LOW_MEMORY \div KB) * KB \in Nat
    BY <2>1
  <2> HIDE DEF memory
  <2> DEFINE bytes == (mem_upper + LOW_MEMORY \div KB) * KB
  <2>3. memory = bytes % ADDRESS_SPACE /\ bytes \in Nat
    BY <2>2 DEF memory, Wrap
  <2> HIDE DEF bytes
  <2> QED
    BY <2>3, PmmAssumption
<1>2. total_pages' = memory \div PAGE_SIZE /\ bitmap' = Pages \cup bitmap
  BY DEF pmm_init_without_map
<1> HIDE DEF memory
<1>3. total_pages' \in 0..Top
  <2>1. ADDRESS_SPACE \in Nat /\ ADDRESS_SPACE < Top * PAGE_SIZE + PAGE_SIZE
    <3>1. /\ ADDRESS_SPACE % PAGE_SIZE \in 0..(PAGE_SIZE - 1)
          /\ ADDRESS_SPACE = Top * PAGE_SIZE + (ADDRESS_SPACE % PAGE_SIZE)
      BY PmmAssumption, QuotientAndRest DEF Top
    <3>2. Top * PAGE_SIZE \in Nat
      BY TopOfBits, PmmAssumption
    <3> QED
      BY <3>1, <3>2, PmmAssumption
  <2> DEFINE q == memory \div PAGE_SIZE
  <2>2. q \in Nat /\ memory % PAGE_SIZE \in 0..(PAGE_SIZE - 1)
        /\ memory = q * PAGE_SIZE + (memory % PAGE_SIZE)
    BY <1>1, PmmAssumption, QuotientAndRest
  <2> HIDE DEF q
  <2>3. q * PAGE_SIZE \in Nat /\ Top * PAGE_SIZE \in Nat
        /\ (Top < q => Top * PAGE_SIZE + PAGE_SIZE <= q * PAGE_SIZE)
    BY <2>2, TopOfBits, PmmAssumption, MultiplesInOrder
  <2>4. q <= Top
    BY <1>1, <2>1, <2>2, <2>3, TopOfBits, PmmAssumption
  <2> QED
    BY <1>2, <2>2, <2>4, TopOfBits DEF q
<1>4. bitmap' \subseteq Bits
  BY <1>2, FinitePages DEF PmmTypeOK
<1>5. used_pages' = total_pages' /\ with_map' = FALSE
  BY DEF pmm_init_without_map
<1>6. ASSUME total_pages' <= MAX_PAGES PROVE used_pages' = UsedBits'
  <2>1. Managed' = 0..(total_pages' - 1)
    BY <1>3, TopOfBits DEF Managed, Bits, Top
  <2>2. Managed' \subseteq Pages
    <3>1. total_pages' \in Nat /\ MAX_PAGES \in Nat /\ total_pages' <= MAX_PAGES
      BY <1>3, <1>6, TopOfBits
    <3> DEFINE top == total_pages'
    <3>2. top \in Nat /\ MAX_PAGES \in Nat /\ top <= MAX_PAGES
      BY <3>1
    <3> HIDE DEF top
    <3>3. \A p \in 0..(top - 1) : p \in 0..(MAX_PAGES - 1)
      BY <3>2
    <3> QED
      BY <2>1, <3>3, TopOfBits, Zenon DEF top
  <2>3. bitmap' \cap Managed' = Managed'
    BY <1>2, <2>2
  <2>4. Cardinality(0..(total_pages' - 1)) = total_pages'
    BY <1>3, FS_Interval, TopOfBits
  <2> QED
    BY <1>5, <2>1, <2>3, <2>4 DEF UsedBits
<1>7. used_pages' \in Int
  BY <1>3, <1>5, TopOfBits
<1> QED
  BY <1>3, <1>4, <1>5, <1>6, <1>7 DEF Top

LEMMA BootKeepsInv ==
  ASSUME PmmInv, Boot
  PROVE  PmmInv'
<1>1. /\ ready' = TRUE /\ UNCHANGED <<ret, region_freed, overrun>>
      /\ region_freed = FALSE /\ overrun = FALSE /\ ret \in Nat
  BY DEF Boot, PmmInv, PmmTypeOK
<1>2. /\ total_pages' \in 0..(ADDRESS_SPACE \div PAGE_SIZE) /\ bitmap' \subseteq Bits
      /\ used_pages' \in Int /\ with_map' \in BOOLEAN
      /\ with_map' = TRUE => total_pages' <= MAX_PAGES
      /\ total_pages' <= MAX_PAGES => used_pages' = UsedBits'
  BY MapBoot, PlainBoot DEF Boot, PmmInv
<1>3. PmmTypeOK'
  BY <1>1, <1>2 DEF PmmTypeOK, Bits
<1> QED
  BY <1>1, <1>2, <1>3 DEF PmmInv, CountOK

\* pmm_mark_region_free only clears bits of the bitmap.
LEMMA RegionFreeKeepsInv ==
  ASSUME PmmInv, NEW start, NEW size, MarkRegionFree(start, size)
  PROVE  PmmInv'
<1>1. Managed' = Managed
  BY DEF MarkRegionFree, pmm_mark_region_free, Managed, Bits
<1>2. PmmTypeOK /\ ready = TRUE /\ bitmap' = bitmap \ Inside(start, size)
  BY DEF MarkRegionFree, pmm_mark_region_free, Usual, PmmInv, PmmTypeOK
<1> DEFINE before == bitmap \cap Managed
           cleared == Inside(start, size) \cap Managed \cap bitmap
           after == bitmap' \cap Managed'
<1>3. before \in SUBSET Bits /\ cleared \in SUBSET before /\ after = before \ cleared
  BY <1>1, <1>2, FinitePages
<1>4. region_freed' = (region_freed \/ cleared # {})
  BY DEF MarkRegionFree, pmm_mark_region_free
<1> HIDE DEF before, after, cleared
<1>5. Cardinality(after) = Cardinality(before) - Cardinality(cleared)
  BY <1>3, CountWithout
<1>6. Cardinality(before) \in Nat /\ Cardinality(cleared) \in Nat
  BY <1>3, FinitePages
<1>7. cleared # {} => Cardinality(cleared) # 0
  BY <1>3, FinitePages, FS_EmptySet
<1>8. cleared = {} => Cardinality(cleared) = 0
  BY FS_EmptySet
<1>9. region_freed' \in BOOLEAN /\ (region_freed' = FALSE => region_freed = FALSE /\ cleared = {})
      /\ (region_freed' = TRUE => region_freed = TRUE \/ cleared # {})
  BY <1>2, <1>4 DEF PmmTypeOK
<1>10. UNCHANGED <<total_pages, used_pages, ready, ret, with_map, overrun>>
  BY DEF MarkRegionFree, pmm_mark_region_free
<1>11. PmmTypeOK'
  BY <1>2, <1>9, <1>10 DEF PmmTypeOK, Bits
<1>12. CountOK'
  <2>1. /\ region_freed = TRUE /\ total_pages <= MAX_PAGES => Cardinality(before) < used_pages
        /\ region_freed = FALSE /\ total_pages <= MAX_PAGES => Cardinality(before) = used_pages
    BY <1>2 DEF PmmInv, CountOK, UsedBits, before
  <2>2. used_pages \in Int /\ region_freed \in BOOLEAN
    BY <1>2 DEF PmmTypeOK
  <2>3. total_pages <= MAX_PAGES =>
          IF region_freed' = TRUE THEN Cardinality(after) < used_pages ELSE used_pages = Cardinality(after)
    BY <1>5, <1>6, <1>7, <1>8, <1>9, <2>1, <2>2
  <2> QED
    BY <1>10, <2>3 DEF CountOK, UsedBits, after
<1> QED
  BY <1>2, <1>10, <1>11, <1>12 DEF PmmInv

\* Nobody else writes to the bitmap itself.
LEMMA OtherDataKeepsInv ==
  ASSUME PmmInv, OtherData
  PROVE  PmmInv'
<1>1. /\ UNCHANGED <<total_pages, used_pages, ready, ret, with_map, region_freed, overrun>>
      /\ total_pages > MAX_PAGES
  BY DEF OtherData
<1>2. bitmap' \subseteq Bits
  BY FinitePages DEF OtherData, PmmInv, PmmTypeOK
<1>3. PmmTypeOK'
  BY <1>1, <1>2 DEF PmmInv, PmmTypeOK, Bits
<1>4. ~(total_pages <= MAX_PAGES)
  BY <1>1, TopOfBits DEF PmmInv, PmmTypeOK, Top
<1> QED
  BY <1>1, <1>3, <1>4 DEF PmmInv, CountOK

-----------------------------------------------------------------------------
LEMMA InitPmmInv == PmmInit => PmmInv
<1> SUFFICES ASSUME PmmInit PROVE PmmInv
  OBVIOUS
<1>1. 0 \in 0..(ADDRESS_SPACE \div PAGE_SIZE) /\ 0 \in Int /\ 0 \in Nat
  BY TopOfBits DEF Top
<1>2. PmmTypeOK
  <2>1. /\ bitmap \subseteq Bits /\ total_pages = 0 /\ used_pages = 0 /\ ret = 0
        /\ ready = FALSE /\ with_map = FALSE /\ region_freed = FALSE /\ overrun = FALSE
    BY DEF PmmInit
  <2> QED
    BY <1>1, <2>1, Zenon DEF PmmTypeOK
<1> QED
  BY <1>2 DEF PmmInit, PmmInv, CountOK

LEMMA NextPmmInv == PmmInv /\ [PmmNext]_pmmVars => PmmInv'
<1> SUFFICES ASSUME PmmInv, [PmmNext]_pmmVars PROVE PmmInv'
  OBVIOUS
<1>1. CASE UNCHANGED pmmVars
  <2>1. UsedBits' = UsedBits
    BY <1>1 DEF pmmVars, UsedBits, Managed, Bits
  <2> QED
    BY <1>1, <2>1 DEF pmmVars, PmmInv, PmmTypeOK, CountOK, Bits
<1>2. CASE Boot
  BY <1>2, BootKeepsInv
<1>3. CASE OtherData
  BY <1>3, OtherDataKeepsInv
<1>4. ASSUME NEW start \in Addrs, NEW size \in Sizes, MarkRegionFree(start, size) PROVE PmmInv'
  BY <1>4, RegionFreeKeepsInv
<1>5. CASE Call
  BY <1>5, CallKeepsInv
<1> QED
  BY <1>1, <1>2, <1>3, <1>4, <1>5 DEF PmmNext, Call

\* The counts and the bits stay in range, whatever the callers pass and whatever
\* mem_upper says.
THEOREM PmmTypeCorrect == PmmSpec => []PmmTypeOK
<1>1. PmmInv => PmmTypeOK
  BY DEF PmmInv
<1> QED
  BY InitPmmInv, NextPmmInv, <1>1, PTL DEF PmmSpec

\* With a memory map total_pages stays within the bitmap, so that no address, size or
\* count a caller passes makes a call write behind it.
THEOREM WritesAreInBitmap == PmmSpec => []WritesStayInBitmap
<1>1. PmmInv => WritesStayInBitmap
  <2> SUFFICES ASSUME PmmInv, overrun = TRUE, with_map = TRUE PROVE FALSE
    BY DEF WritesStayInBitmap, PmmInv, PmmTypeOK
  <2> QED
    BY TopOfBits DEF PmmInv, PmmTypeOK
<1> QED
  BY InitPmmInv, NextPmmInv, <1>1, PTL DEF PmmSpec

\* pmm_get_free_memory is the free memory, and less once pmm_mark_region_free has
\* freed a page, until used_pages passes total_pages.
THEOREM FreeMemoryIsReported == PmmSpec => []FreeMemoryReported
<1>1. PmmInv => FreeMemoryReported
  <2> SUFFICES ASSUME PmmInv, ready = TRUE, total_pages <= MAX_PAGES
               PROVE  \/ pmm_get_free_memory = Cardinality(Managed \ bitmap) * PAGE_SIZE
                      \/ /\ region_freed
                         /\ used_pages <= total_pages =>
                              pmm_get_free_memory < Cardinality(Managed \ bitmap) * PAGE_SIZE
    BY DEF FreeMemoryReported, PmmInv, PmmTypeOK
  <2> DEFINE free == Cardinality(Managed \ bitmap)
             said == total_pages - used_pages
  <2>1. total_pages \in 0..Top /\ total_pages \in Nat /\ used_pages \in Int /\ region_freed \in BOOLEAN
    BY TopOfBits DEF PmmInv, PmmTypeOK, Top
  <2>2. Managed \in SUBSET Bits /\ Cardinality(Managed) = total_pages
    BY <2>1, FinitePages, ManagedPages
  <2>3. /\ bitmap \cap Managed \in SUBSET Managed
        /\ Managed \ bitmap = Managed \ (bitmap \cap Managed)
    OBVIOUS
  <2>4. free = total_pages - UsedBits /\ UsedBits \in Nat /\ free \in Nat
    BY <2>2, <2>3, CountWithout, FinitePages DEF UsedBits
  <2> HIDE DEF free
  <2>5. \/ said = free
        \/ region_freed = TRUE /\ said < free
    BY <2>1, <2>4 DEF PmmInv, CountOK
  <2>6. said \in Int /\ free <= MAX_PAGES /\ (used_pages <= total_pages => said \in Nat)
    BY <2>1, <2>4, TopOfBits
  <2>7. pmm_get_free_memory = Wrap(said * PAGE_SIZE)
    BY DEF pmm_get_free_memory
  <2> HIDE DEF said
  <2>8. ASSUME NEW k \in Nat, k <= MAX_PAGES PROVE Wrap(k * PAGE_SIZE) = k * PAGE_SIZE
    <3>1. /\ PAGE_SIZE \in Nat \ {0} /\ MAX_PAGES \in Nat /\ ADDRESS_SPACE \in Nat \ {0}
          /\ MAX_PAGES * PAGE_SIZE < ADDRESS_SPACE
      BY PmmAssumption
    <3>2. /\ k * PAGE_SIZE \in Nat /\ MAX_PAGES * PAGE_SIZE \in Nat
          /\ k < MAX_PAGES => k * PAGE_SIZE + PAGE_SIZE <= MAX_PAGES * PAGE_SIZE
      BY <3>1, MultiplesInOrder
    <3>3. k * PAGE_SIZE \in Nat /\ k * PAGE_SIZE < ADDRESS_SPACE
      <4>1. CASE k = MAX_PAGES
        BY <3>1, <3>2, <4>1
      <4>2. CASE k < MAX_PAGES
        BY <3>1, <3>2, <4>2
      <4> QED
        BY <2>8, <3>1, <4>1, <4>2
    <3> DEFINE bytes == k * PAGE_SIZE
    <3>4. bytes \in Nat /\ bytes < ADDRESS_SPACE
      BY <3>3
    <3> HIDE DEF bytes
    <3>5. bytes % ADDRESS_SPACE = bytes
      BY <3>1, <3>4
    <3> QED
      BY <3>5 DEF Wrap, bytes
  <2>9. CASE said = free
    BY <2>4, <2>6, <2>7, <2>8, <2>9 DEF free
  <2>10. CASE region_freed = TRUE /\ said < free
    <3> SUFFICES ASSUME used_pages <= total_pages PROVE pmm_get_free_memory < free * PAGE_SIZE
      BY <2>10 DEF free
    <3>1. said \in Nat /\ said <= MAX_PAGES
      BY <2>4, <2>6, <2>10, TopOfBits
    <3>2. pmm_get_free_memory = said * PAGE_SIZE
      BY <2>7, <2>8, <3>1
    <3>3. PAGE_SIZE \in Nat \ {0}
      BY PmmAssumption
    <3>4. /\ said * PAGE_SIZE \in Nat /\ free * PAGE_SIZE \in Nat
          /\ said * PAGE_SIZE + PAGE_SIZE <= free * PAGE_SIZE
      BY <2>4, <2>10, <3>1, <3>3, MultiplesInOrder
    <3> QED
      BY <3>2, <3>3, <3>4
  <2> QED
    BY <2>5, <2>9, <2>10
<1> QED
  BY InitPmmInv, NextPmmInv, <1>1, PTL DEF PmmSpec

\* Every call but pmm_mark_region_free moves used_pages by the number of bits
\* that it changed.
THEOREM CountFollowsBits == PmmSpec => UsedPagesCounted
<1> DEFINE Step == ready => \/ used_pages' - used_pages =
                                Cardinality(bitmap' \cap Managed) - Cardinality(bitmap \cap Managed)
                           \/ OtherData
                           \/ \E start \in Addrs, size \in Sizes : MarkRegionFree(start, size)
<1>1. PmmInv /\ [PmmNext]_pmmVars => [Step]_pmmVars
  <2> SUFFICES ASSUME PmmInv, PmmNext, ready, ~OtherData,
                      ~ \E start \in Addrs, size \in Sizes : MarkRegionFree(start, size)
               PROVE  InStep
    BY DEF InStep, UsedBits
  <2>1. Call
    BY DEF PmmNext, Boot, Call
  <2> QED
    BY <2>1, CallInStep DEF PmmInv
<1> QED
  BY InitPmmInv, NextPmmInv, <1>1, PTL DEF PmmSpec, UsedPagesCounted

\* The loops of bitmap_find_free and bitmap_find_free_contiguous find the first place
\* there is, whatever was freed, marked or allocated before and wherever the bits are.
THEOREM AllocationsAreFirstFit == PmmSpec => AllocationIsFirstFit
<1> DEFINE Step == \A count \in Counts \ {0} : AllocPages(count) =>
                     IF Places(count) = {} THEN ret' = 0 /\ bitmap' = bitmap
                     ELSE /\ ret' = PAGE_TO_ADDR(FirstFit(count))
                          /\ bitmap' = bitmap \cup FirstFit(count)..(FirstFit(count) + count - 1)
<1>1. PmmInv /\ [PmmNext]_pmmVars => [Step]_pmmVars
  <2> SUFFICES ASSUME PmmInv, NEW count \in Counts \ {0}, AllocPages(count)
               PROVE  IF Places(count) = {} THEN ret' = 0 /\ bitmap' = bitmap
                      ELSE /\ ret' = PAGE_TO_ADDR(FirstFit(count))
                           /\ bitmap' = bitmap \cup FirstFit(count)..(FirstFit(count) + count - 1)
    OBVIOUS
  <2>1. count \in Nat \ {0}
    BY PmmAssumption
  <2> QED
    BY <2>1, AllocationFits DEF PmmInv, AllocPages, Fail, Take, FirstFit
<1> QED
  BY InitPmmInv, NextPmmInv, <1>1, PTL DEF PmmSpec, AllocationIsFirstFit
-----------------------------------------------------------------------------
(* Addresses and pages                                                     *)

LEMMA Parameters ==
  /\ PAGE_SIZE \in Nat \ {0} /\ ADDRESS_SPACE \in Nat \ {0} /\ MAX_PAGES \in Nat \ {0}
  /\ MAX_PAGES * PAGE_SIZE \in Nat
  /\ MAX_PAGES * PAGE_SIZE + PAGE_SIZE <= ADDRESS_SPACE
  /\ kernel_start \in Nat /\ kernel_end \in Nat /\ kernel_start <= kernel_end
  /\ kernel_end + PAGE_SIZE <= ADDRESS_SPACE /\ LOW_MEMORY \in Nat \ {0}
BY PmmAssumption, ClientAssumption

LEMMA AlignedDown ==
  ASSUME NEW a \in Nat
  PROVE  /\ a \div PAGE_SIZE \in Nat
         /\ AlignDown(a) = (a \div PAGE_SIZE) * PAGE_SIZE
         /\ AlignDown(a) \in Nat /\ AlignDown(a) <= a /\ a < AlignDown(a) + PAGE_SIZE
<1> DEFINE q == a \div PAGE_SIZE
           r == a % PAGE_SIZE
<1>1. q \in Nat /\ r \in 0..(PAGE_SIZE - 1) /\ a = q * PAGE_SIZE + r
  BY Parameters, QuotientAndRest
<1>2. AlignDown(a) = a - r
  BY DEF AlignDown
<1>3. q * PAGE_SIZE \in Nat
  BY <1>1, Parameters
<1> HIDE DEF q, r
<1>4. AlignDown(a) = q * PAGE_SIZE /\ AlignDown(a) \in Nat
  BY <1>1, <1>2, <1>3
<1> QED
  BY <1>1, <1>2, <1>4, Parameters DEF q

LEMMA Unwrapped ==
  ASSUME NEW a \in Nat, a < ADDRESS_SPACE
  PROVE  Wrap(a) = a
BY Parameters DEF Wrap

LEMMA AlignedUp ==
  ASSUME NEW a \in Nat, a + PAGE_SIZE <= ADDRESS_SPACE
  PROVE  AlignUp(a) \in Nat /\ a <= AlignUp(a)
<1>1. a + PAGE_SIZE - 1 \in Nat /\ a + PAGE_SIZE - 1 < ADDRESS_SPACE
  BY Parameters
<1>2. AlignUp(a) = AlignDown(a + PAGE_SIZE - 1)
  BY <1>1, Unwrapped DEF AlignUp
<1>3. /\ AlignDown(a + PAGE_SIZE - 1) \in Nat
      /\ a + PAGE_SIZE - 1 < AlignDown(a + PAGE_SIZE - 1) + PAGE_SIZE
  BY <1>1, AlignedDown
<1> QED
  BY <1>2, <1>3, Parameters

LEMMA BytesOfPage ==
  ASSUME NEW p \in Bits, NEW b \in Bytes(p)
  PROVE  /\ p \in Nat /\ p * PAGE_SIZE \in Nat /\ b \in Nat
         /\ p * PAGE_SIZE <= b /\ b < p * PAGE_SIZE + PAGE_SIZE
<1>1. p \in Nat
  BY FinitePages
<1>2. (p + 1) * PAGE_SIZE = p * PAGE_SIZE + PAGE_SIZE /\ p * PAGE_SIZE \in Nat
  BY <1>1, Parameters
<1>3. b \in (p * PAGE_SIZE)..((p + 1) * PAGE_SIZE - 1)
  BY DEF Bytes, PAGE_TO_ADDR
<1> QED
  BY <1>1, <1>2, <1>3, Parameters

-----------------------------------------------------------------------------
(* What pmm_init leaves to the callers                                     *)

\* A page that a region covers whole.
LEMMA InsideIsUsable ==
  ASSUME NEW map \in MemoryMaps, NEW r \in Usable(map), NEW p \in Bits,
         p \in Inside(CutStart(r), CutEnd(r) - CutStart(r)), NEW b \in Bytes(p)
  PROVE  b >= LOW_MEMORY /\ r.addr <= b /\ b < r.addr + r.len /\ p # 0
<1>1. r \in Regions /\ CutStart(r) < CutEnd(r)
  BY PmmAssumption DEF Usable
<1>2. /\ r.addr \in Nat /\ r.len \in Nat
      /\ CutStart(r) \in Nat /\ CutStart(r) >= LOW_MEMORY /\ CutStart(r) >= r.addr
  BY <1>1, Parameters DEF Regions, CutStart
<1>3. /\ CutEnd(r) \in Nat /\ CutEnd(r) <= MAX_PAGES * PAGE_SIZE
      /\ CutEnd(r) <= r.addr + r.len
  BY <1>1, Parameters DEF Regions, CutEnd
<1>4. CutStart(r) + PAGE_SIZE <= ADDRESS_SPACE /\ CutEnd(r) < ADDRESS_SPACE
  BY <1>1, <1>2, <1>3, Parameters
<1> DEFINE lo == CutStart(r)
           hi == CutEnd(r)
<1>5. AlignUp(lo) \in Nat /\ lo <= AlignUp(lo)
  BY <1>2, <1>4, AlignedUp
<1>6. Wrap(lo + (hi - lo)) = hi
  BY <1>2, <1>3, <1>4, Unwrapped
<1>7. AlignUp(lo) <= p * PAGE_SIZE /\ p * PAGE_SIZE < AlignDown(hi)
  BY <1>6 DEF Inside, PagesBetween, PAGE_TO_ADDR
<1>8. /\ p \in Nat /\ p * PAGE_SIZE \in Nat /\ b \in Nat
      /\ p * PAGE_SIZE <= b /\ b < p * PAGE_SIZE + PAGE_SIZE
  BY BytesOfPage
<1>9. p * PAGE_SIZE + PAGE_SIZE <= AlignDown(hi) /\ AlignDown(hi) <= hi /\ AlignDown(hi) \in Nat
  <2>1. /\ hi \div PAGE_SIZE \in Nat /\ AlignDown(hi) = (hi \div PAGE_SIZE) * PAGE_SIZE
        /\ AlignDown(hi) <= hi /\ AlignDown(hi) \in Nat
    BY <1>3, AlignedDown
  <2>2. p < hi \div PAGE_SIZE
    BY <1>7, <1>8, <2>1, Parameters, MultiplesInOrder
  <2>3. p * PAGE_SIZE + PAGE_SIZE <= (hi \div PAGE_SIZE) * PAGE_SIZE
    BY <1>8, <2>1, <2>2, Parameters, MultiplesInOrder
  <2> QED
    BY <2>1, <2>3
<1> HIDE DEF lo, hi
<1>10. lo \in Nat /\ hi \in Nat /\ lo >= LOW_MEMORY /\ lo >= r.addr /\ hi <= r.addr + r.len
  BY <1>2, <1>3 DEF lo, hi
<1>11. lo <= b /\ b < hi
  BY <1>5, <1>7, <1>8, <1>9, <1>10, Parameters
<1>12. p # 0
  BY <1>5, <1>7, <1>10, Parameters
<1> QED
  BY <1>2, <1>8, <1>10, <1>11, <1>12, Parameters

LEMMA KernelIsTouched ==
  ASSUME NEW p \in Bits, NEW b \in Bytes(p), b \in kernel_start..(kernel_end - 1)
  PROVE  p \in Touched(kernel_start, kernel_end - kernel_start)
<1>1. /\ p \in Nat /\ p * PAGE_SIZE \in Nat /\ b \in Nat
      /\ p * PAGE_SIZE <= b /\ b < p * PAGE_SIZE + PAGE_SIZE
  BY BytesOfPage
<1>2. Wrap(kernel_start + (kernel_end - kernel_start)) = kernel_end
  BY Parameters, Unwrapped
<1>3. AlignUp(kernel_end) \in Nat /\ kernel_end <= AlignUp(kernel_end)
  BY Parameters, AlignedUp
<1>4. p * PAGE_SIZE < AlignUp(kernel_end)
  BY <1>1, <1>3, Parameters
<1>5. AlignDown(kernel_start) <= p * PAGE_SIZE
  <2> DEFINE k == kernel_start \div PAGE_SIZE
  <2>1. k \in Nat /\ AlignDown(kernel_start) = k * PAGE_SIZE /\ AlignDown(kernel_start) <= kernel_start
    BY Parameters, AlignedDown
  <2> HIDE DEF k
  <2> SUFFICES ASSUME p * PAGE_SIZE < k * PAGE_SIZE PROVE FALSE
    BY <1>1, <2>1, Parameters
  <2>2. p * PAGE_SIZE + PAGE_SIZE <= k * PAGE_SIZE /\ k * PAGE_SIZE \in Nat
    BY <1>1, <2>1, Parameters, MultiplesInOrder
  <2> QED
    BY <1>1, <2>1, <2>2, Parameters
<1> QED
  BY <1>2, <1>4, <1>5 DEF Touched, PagesBetween, PAGE_TO_ADDR

-----------------------------------------------------------------------------
(* The invariant of the allocator's callers                                *)

\* Callers hold pages that are marked used and were not kept back; what is not
\* kept back is usable memory, and neither page 0, which would look like a
\* failure, nor one of the kernel's own page tables.
ClientInv ==
  /\ PmmTypeOK /\ total_pages <= MAX_PAGES
  /\ held \subseteq Managed /\ held \subseteq bitmap
  /\ kept \subseteq bitmap /\ kept \cap held = {}
  /\ ready => \A p \in Managed \ kept : UsablePage(p) /\ p # 0 /\ p \notin Static
  /\ ready = FALSE => held = {}

LEMMA BootGivesUsable ==
  ASSUME ClientInv, BootWithMap
  PROVE  ClientInv' /\ ready = FALSE /\ ready' = TRUE /\ kept' = bitmap' /\ held' = {}
<1>1. /\ ready = FALSE /\ ready' = TRUE /\ kept' = bitmap' /\ held' = {} /\ ret' = ret
  BY DEF BootWithMap, ClientInv, PmmTypeOK
<1>2. PICK map \in MemoryMaps :
        pmm_init(map) /\ usable' = {r \in {map[k] : k \in DOMAIN map} : r.available}
  BY DEF BootWithMap
<1>3. UNCHANGED <<ret, region_freed, overrun>> /\ PmmTypeOK
  BY DEF BootWithMap, ClientInv
<1>4. /\ total_pages' \in 0..(ADDRESS_SPACE \div PAGE_SIZE) /\ total_pages' <= MAX_PAGES
      /\ bitmap' \subseteq Bits /\ used_pages' \in Int /\ with_map' = TRUE
  BY <1>2, <1>3, MapBoot
<1>5. PmmTypeOK' /\ total_pages' <= MAX_PAGES
  BY <1>1, <1>3, <1>4 DEF PmmTypeOK, Bits
<1>6. ASSUME NEW p \in Managed' \ kept' PROVE UsablePage(p)' /\ p # 0 /\ p \notin Static
  <2>1. p \in Bits /\ p \in FreedAtInit(map) /\ p \notin Kept
    <3>1. p \in Managed' /\ p \notin bitmap' /\ Managed' \subseteq Bits
      BY <1>1, <1>6 DEF Managed, Bits
    <3>2. p \in Pages
      <4>1. total_pages' \in 0..Top /\ p \in Nat /\ p < total_pages'
        BY <1>4, <3>1, FinitePages DEF Top, Managed, Bits
      <4> QED
        BY <1>4, <4>1, TopOfBits
    <3> QED
      BY <1>2, <3>1, <3>2 DEF pmm_init
  <2>2. PICK r \in Usable(map) : p \in Inside(CutStart(r), CutEnd(r) - CutStart(r))
    BY <2>1 DEF FreedAtInit
  <2>3. r \in usable'
    BY <1>2 DEF Usable
  <2>4. ASSUME NEW b \in Bytes(p), b \in kernel_start..(kernel_end - 1) PROVE FALSE
    BY <2>1, <2>4, KernelIsTouched DEF Kept
  <2>5. ASSUME NEW b \in Bytes(p)
        PROVE  b >= LOW_MEMORY /\ r.addr <= b /\ b < r.addr + r.len /\ p # 0
    BY <2>1, <2>2, InsideIsUsable
  <2>6. PAGE_TO_ADDR(p) \in Bytes(p)
    <3>1. p \in Nat
      BY <2>1, FinitePages
    <3>2. p * PAGE_SIZE \in Nat /\ (p + 1) * PAGE_SIZE = p * PAGE_SIZE + PAGE_SIZE
      BY <3>1, Parameters
    <3> QED
      BY <3>2, Parameters DEF Bytes, PAGE_TO_ADDR
  <2>7. p \notin Static
    BY <2>4, <2>6, PagingAssumption DEF Static
  <2>8. UsablePage(p)'
    BY <2>3, <2>4, <2>5 DEF UsablePage, Bytes, PAGE_TO_ADDR
  <2> QED
    BY <2>5, <2>6, <2>7, <2>8
<1>7. held' \subseteq Managed' /\ held' \subseteq bitmap' /\ kept' \cap held' = {}
  BY <1>1
<1> QED
  BY <1>1, <1>5, <1>6, <1>7 DEF ClientInv, Static, Managed, Bits

\* An allocation of any number of pages, by a caller or for a page table.
AllocatedRun(count) == ADDR_TO_PAGE(ret')..(ADDR_TO_PAGE(ret') + count - 1)

LEMMA RunAllocated ==
  ASSUME ClientInv, ready, NEW count \in Nat, pmm_alloc_pages(count)
  PROVE  /\ PmmTypeOK' /\ Managed' = Managed /\ ready' = ready
         /\ total_pages' = total_pages
         /\ \/ ret' = 0 /\ bitmap' = bitmap
            \/ /\ ret' # 0 /\ count # 0 /\ ADDR_TO_PAGE(ret') \in Nat
               /\ AllocatedRun(count) \subseteq Managed \ bitmap
               /\ bitmap' = bitmap \cup AllocatedRun(count)
<1>1. PmmTypeOK
  BY DEF ClientInv
<1>2. /\ PmmTypeOK' /\ Managed' = Managed /\ ready' = ready /\ total_pages' = total_pages
  BY <1>1, AllocPagesInStep DEF InStep
<1>3. CASE count = 0
  BY <1>2, <1>3 DEF pmm_alloc_pages, Fail
<1>4. CASE count # 0
  <2> DEFINE p == First(Places(count))
  <2>1. \/ Fail
        \/ Take(p, count) /\ p \in Nat /\ p..(p + count - 1) \subseteq Managed \ bitmap
    BY <1>1, <1>4, AllocationFits
  <2> HIDE DEF p
  <2>2. CASE Fail
    BY <1>2, <2>2 DEF Fail
  <2>3. CASE Take(p, count) /\ p \in Nat /\ p..(p + count - 1) \subseteq Managed \ bitmap
    <3>1. ADDR_TO_PAGE(ret') = p
      BY <1>1, <2>3, TakeInStep
    <3>2. /\ AllocatedRun(count) \subseteq Managed \ bitmap
          /\ bitmap' = bitmap \cup AllocatedRun(count)
      BY <2>3, <3>1 DEF AllocatedRun, Take
    <3>3. p \in Managed \ bitmap
      BY <1>4, <2>3
    <3>4. p # 0
      BY <3>3 DEF ClientInv
    <3>5. ret' = p * PAGE_SIZE /\ ret' # 0
      BY <2>3, <3>4, Parameters DEF Take, PAGE_TO_ADDR
    <3> QED
      BY <1>2, <1>4, <2>3, <3>1, <3>2, <3>5
  <2> QED
    BY <2>1, <2>2, <2>3
<1> QED
  BY <1>3, <1>4

LEMMA AllocateKeepsClients ==
  ASSUME ClientInv, NEW count \in Nat, Allocate(count)
  PROVE  /\ ClientInv' /\ ready /\ ready' = ready /\ kept' = kept /\ Managed' = Managed
         /\ \E run \in SUBSET (Managed \ bitmap) :
              bitmap' = bitmap \cup run /\ held' = held \cup run
<1>1. ready /\ pmm_alloc_pages(count)
  BY DEF Allocate, AllocPages, Usual
<1>2. UNCHANGED <<kept, usable>> /\ held' = IF ret' = 0 THEN held ELSE held \cup AllocatedRun(count)
  BY DEF Allocate, AllocatedRun
<1>3. PmmTypeOK' /\ Managed' = Managed /\ ready' = ready /\ total_pages' = total_pages
  BY <1>1, RunAllocated
<1>4. PICK run \in SUBSET (Managed \ bitmap) : bitmap' = bitmap \cup run /\ held' = held \cup run
  <2>1. CASE ret' = 0 /\ bitmap' = bitmap
    <3>1. {} \in SUBSET (Managed \ bitmap) /\ bitmap' = bitmap \cup {} /\ held' = held \cup {}
      BY <1>2, <2>1
    <3> QED
      BY <3>1
  <2>2. CASE ret' # 0
    BY <1>1, <1>2, <2>2, RunAllocated
  <2> QED
    BY <1>1, <2>1, <2>2, RunAllocated
<1>5. /\ held' \subseteq Managed' /\ held' \subseteq bitmap' /\ kept' \subseteq bitmap'
      /\ kept' \cap held' = {}
  BY <1>2, <1>3, <1>4 DEF ClientInv
<1>6. \A p \in Managed' \ kept' : UsablePage(p)' /\ p # 0 /\ p \notin Static
  BY <1>1, <1>2, <1>3 DEF ClientInv, UsablePage
<1> QED
  BY <1>1, <1>2, <1>3, <1>4, <1>5, <1>6 DEF ClientInv, Static

\* The addresses of a run of managed pages do not wrap.
LEMMA ReleaseKeepsClients ==
  ASSUME ClientInv, NEW page \in Pages, NEW count \in Nat, Release(page, count)
  PROVE  /\ ClientInv' /\ ready /\ ready' = ready /\ kept' = kept /\ Managed' = Managed
         /\ \E run \in SUBSET held : bitmap' = bitmap \ run /\ held' = held \ run
<1> DEFINE run == page..(page + count - 1)
<1>1. count > 0 /\ run \subseteq held /\ held' = held \ run /\ UNCHANGED <<kept, usable>>
  BY DEF Release
<1>2. page \in Nat /\ run \subseteq Nat /\ run \subseteq Managed /\ run \subseteq Pages
  <2>1. total_pages \in 0..Top /\ total_pages <= MAX_PAGES
    BY DEF ClientInv, PmmTypeOK, Top
  <2>2. Managed \subseteq Pages
    BY <2>1, ManagedPages
  <2> HIDE DEF run
  <2> QED
    BY <1>1, <2>2, FinitePages DEF ClientInv
<1>3. ready /\ Clear(run)
  <2>1. CASE count = 1
    <3>1. ready /\ Clear({ADDR_TO_PAGE(PAGE_TO_ADDR(page))} \cap Managed)
      BY <2>1 DEF Release, FreePage, Usual, pmm_free_page
    <3>2. ADDR_TO_PAGE(PAGE_TO_ADDR(page)) = page /\ run = {page}
      BY <1>2, <2>1, PageOfAddress
    <3>3. {ADDR_TO_PAGE(PAGE_TO_ADDR(page))} \cap Managed = run
      BY <1>2, <3>2
    <3> HIDE DEF run
    <3> QED
      BY <3>1, <3>3
  <2>2. CASE count # 1
    <3> DEFINE named == {ADDR_TO_PAGE(Wrap(PAGE_TO_ADDR(page) + i * PAGE_SIZE)) : i \in 0..(count - 1)}
    <3>1. ready /\ Clear(named \cap Managed)
      BY <2>2 DEF Release, FreePages, Usual, pmm_free_pages
    <3>2. ASSUME NEW i \in 0..(count - 1)
          PROVE  ADDR_TO_PAGE(Wrap(PAGE_TO_ADDR(page) + i * PAGE_SIZE)) = page + i
      <4>1. page + i \in run /\ i \in Nat
        BY <1>2
      <4>2. page + i \in Nat /\ page + i < MAX_PAGES
        BY <1>2, <4>1, Parameters DEF Pages
      <4>3. /\ (page + i) * PAGE_SIZE = page * PAGE_SIZE + i * PAGE_SIZE
            /\ (page + i) * PAGE_SIZE \in Nat
        BY <1>2, <4>1, Parameters
      <4>4. (page + i) * PAGE_SIZE + PAGE_SIZE <= MAX_PAGES * PAGE_SIZE
        BY <4>2, Parameters, MultiplesInOrder
      <4>5. Wrap((page + i) * PAGE_SIZE) = (page + i) * PAGE_SIZE
        BY <4>3, <4>4, Parameters, Unwrapped
      <4>6. ADDR_TO_PAGE(PAGE_TO_ADDR(page + i)) = page + i
        BY <4>2, PageOfAddress
      <4> QED
        BY <4>3, <4>5, <4>6 DEF PAGE_TO_ADDR
    <3>3. named = {page + i : i \in 0..(count - 1)}
      BY <3>2
    <3>4. {page + i : i \in 0..(count - 1)} = run
      <4>1. ASSUME NEW q \in run PROVE q \in {page + i : i \in 0..(count - 1)}
        <5>1. q - page \in 0..(count - 1) /\ q = page + (q - page)
          BY <1>2
        <5> QED
          BY <5>1
      <4>2. ASSUME NEW i \in 0..(count - 1) PROVE page + i \in run
        BY <1>2
      <4> QED
        BY <4>1, <4>2
    <3>5. named \cap Managed = run
      BY <1>2, <3>3, <3>4, Zenon
    <3> HIDE DEF named, run
    <3> QED
      BY <3>1, <3>5
  <2> QED
    BY <2>1, <2>2
<1>4. PmmTypeOK' /\ Managed' = Managed /\ total_pages' = total_pages
  BY <1>2, <1>3, ClearInStep DEF ClientInv, InStep
<1>5. bitmap' = bitmap \ run /\ ready' = ready
  BY <1>3 DEF Clear
<1>6. /\ held' \subseteq Managed' /\ held' \subseteq bitmap' /\ kept' \subseteq bitmap'
      /\ kept' \cap held' = {}
  BY <1>1, <1>4, <1>5 DEF ClientInv
<1>7. \A p \in Managed' \ kept' : UsablePage(p)' /\ p # 0 /\ p \notin Static
  BY <1>1, <1>3, <1>4 DEF ClientInv, UsablePage
<1> HIDE DEF run
<1> QED
  BY <1>1, <1>3, <1>4, <1>5, <1>6, <1>7 DEF ClientInv, Static

\* A page for a table is taken as callers' pages are, but held by none of them.
LEMMA TablePageKeepsClients ==
  ASSUME ClientInv, ready, pmm_alloc_page, UNCHANGED <<held, kept, usable>>
  PROVE  /\ ClientInv' /\ Managed' = Managed /\ ready' = ready
         /\ \/ ret' = 0 /\ bitmap' = bitmap
            \/ /\ ret' # 0 /\ ADDR_TO_PAGE(ret') \in (Managed \ bitmap) \ Static
               /\ bitmap' = bitmap \cup {ADDR_TO_PAGE(ret')}
<1>1. pmm_alloc_pages(1)
  BY DEF pmm_alloc_pages
<1>2. /\ PmmTypeOK' /\ Managed' = Managed /\ ready' = ready /\ total_pages' = total_pages
      /\ \/ ret' = 0 /\ bitmap' = bitmap
         \/ /\ ret' # 0 /\ ADDR_TO_PAGE(ret') \in Nat
            /\ AllocatedRun(1) \subseteq Managed \ bitmap
            /\ bitmap' = bitmap \cup AllocatedRun(1)
  BY <1>1, RunAllocated
<1>3. ADDR_TO_PAGE(ret') \in Nat => AllocatedRun(1) = {ADDR_TO_PAGE(ret')}
  BY DEF AllocatedRun
<1>4. \/ ret' = 0 /\ bitmap' = bitmap
      \/ /\ ret' # 0 /\ ADDR_TO_PAGE(ret') \in (Managed \ bitmap) \ Static
         /\ bitmap' = bitmap \cup {ADDR_TO_PAGE(ret')}
  BY <1>2, <1>3 DEF ClientInv
<1>5. held' \subseteq bitmap' /\ kept' \subseteq bitmap' /\ kept' \cap held' = {}
  BY <1>4 DEF ClientInv
<1>6. \A p \in Managed' \ kept' : UsablePage(p)' /\ p # 0 /\ p \notin Static
  BY <1>2 DEF ClientInv, UsablePage
<1> QED
  BY <1>2, <1>4, <1>5, <1>6 DEF ClientInv, Static

LEMMA ClientsKept ==
  ASSUME ClientInv, UNCHANGED clientVars
  PROVE  ClientInv'
BY DEF ClientInv, clientVars, pmmVars, PmmTypeOK, Managed, Bits, UsablePage, Static

-----------------------------------------------------------------------------
(* The invariant of the page directory                                     *)

NoTables == [d \in {} |-> 0]

\* Every table is a page of its own that nobody else has, until an access faults:
\* the page taken for a table that could not be written is lost.
TablesUsable == \A t \in Tables : t \in Static \/ t \in Managed \ kept

DirectoryInv ==
  /\ paging \in BOOLEAN /\ fault \in BOOLEAN /\ todo \subseteq Virtual
  /\ paging = FALSE => page_directory = NoTables /\ todo = {} /\ fault = FALSE
  /\ paging = TRUE => ready
  /\ DOMAIN page_directory \subseteq Nat
  /\ \A d \in DOMAIN page_directory : page_directory[d] \in Bits
  /\ TablesUsable /\ TablesConserved

OwnersInv == ClientInv /\ DirectoryInv

LEMMA StaticPages ==
  /\ Static \subseteq Pages /\ Len(StaticTables) \in Nat /\ ENTRIES \in Nat \ {0}
  /\ DOMAIN StaticTables = 1..Len(StaticTables)
  /\ \A i \in 0..(Len(StaticTables) - 1) : i + 1 \in DOMAIN StaticTables /\ StaticTables[i + 1] \in Static
  /\ \A p \in Static : \E i \in 0..(Len(StaticTables) - 1) : StaticTables[i + 1] = p
<1>1. StaticTables \in Seq(Pages) /\ ENTRIES \in Nat \ {0}
  BY PagingAssumption
<1>2. DOMAIN StaticTables = 1..Len(StaticTables) /\ Len(StaticTables) \in Nat
  BY <1>1
<1>3. \A i \in DOMAIN StaticTables : StaticTables[i] \in Pages
  BY <1>1, <1>2
<1>4. ASSUME NEW p \in Static
      PROVE  \E i \in 0..(Len(StaticTables) - 1) : StaticTables[i + 1] = p
  <2>1. PICK j \in DOMAIN StaticTables : StaticTables[j] = p
    BY DEF Static
  <2>2. j - 1 \in 0..(Len(StaticTables) - 1) /\ (j - 1) + 1 = j
    BY <1>2, <2>1
  <2> QED
    BY <2>1, <2>2
<1>5. ASSUME NEW i \in 0..(Len(StaticTables) - 1)
      PROVE  i + 1 \in DOMAIN StaticTables /\ StaticTables[i + 1] \in Static
  BY <1>2 DEF Static
<1> QED
  BY <1>1, <1>2, <1>3, <1>4, <1>5 DEF Static

LEMMA VirtualNumbers ==
  /\ Virtual = Bits /\ Virtual \subseteq Nat /\ Pages \subseteq Virtual
  /\ IdentityPages \subseteq Virtual /\ IdentityPages \subseteq Nat
  /\ VirtPages \subseteq Virtual /\ VirtPages \subseteq Nat
  /\ \A i \in DOMAIN StaticTables : StaticTables[i] \in IdentityPages
<1> DEFINE low == ENTRIES * Len(StaticTables)
<1>1. low \in Nat /\ low <= Top /\ \A i \in DOMAIN StaticTables : StaticTables[i] < low
  BY StaticPages, Parameters, PagingAssumption DEF Top
<1>2. Virtual = 0..(Top - 1) /\ IdentityPages = 0..(low - 1) /\ VirtPages \subseteq Virtual
  BY PagingAssumption DEF Virtual, IdentityPages, Top
<1>3. \A i \in DOMAIN StaticTables : StaticTables[i] \in Nat
  BY StaticPages, FinitePages DEF Static
<1> HIDE DEF low
<1> QED
  BY <1>1, <1>2, <1>3, TopOfBits, FinitePages

LEMMA IndexNumbers ==
  ASSUME NEW v \in Nat
  PROVE  /\ PAGE_DIR_INDEX(v) \in Nat /\ PAGE_TABLE_INDEX(v) \in 0..(ENTRIES - 1)
         /\ v = PAGE_DIR_INDEX(v) * ENTRIES + PAGE_TABLE_INDEX(v)
BY StaticPages, QuotientAndRest DEF PAGE_DIR_INDEX, PAGE_TABLE_INDEX

\* What UNCHANGED tableVars and a step of the callers leave of the tables.
LEMMA DirectoryKept ==
  ASSUME DirectoryInv, ready' = ready, kept' = kept, Managed' = Managed,
         UNCHANGED <<page_directory, paging, todo>>, fault' \in BOOLEAN,
         paging = FALSE => fault' = FALSE, TablesConserved'
  PROVE  DirectoryInv'
<1>1. Tables' = Tables
  BY DEF Tables
<1> QED
  BY <1>1 DEF DirectoryInv, TablesUsable, Static, Bits, Virtual

\* With the pages that tables occupy disjoint from everybody's, a change of the
\* callers' pages by a run keeps the account.
LEMMA CallersConserve ==
  ASSUME OwnersInv, fault = FALSE, ready, ready' = ready, UNCHANGED tableVars, kept' = kept,
         Managed' = Managed,
         \/ \E run \in SUBSET (Managed \ bitmap) : bitmap' = bitmap \cup run /\ held' = held \cup run
         \/ \E run \in SUBSET held : bitmap' = bitmap \ run /\ held' = held \ run
  PROVE  DirectoryInv'
<1>1. TablesConserved
  BY DEF OwnersInv, DirectoryInv
<1>2. TablesConserved'
  BY <1>1 DEF TablesConserved, tableVars, Tables, Static
<1> QED
  BY <1>2, DirectoryKept DEF OwnersInv, DirectoryInv, tableVars

\* The same directory, clients and flags.
LEMMA OwnersSame ==
  ASSUME OwnersInv, UNCHANGED <<clientVars, page_directory, paging>>, todo' \subseteq Virtual,
         fault' \in BOOLEAN, fault' = FALSE => fault = FALSE,
         paging = FALSE => todo' = {} /\ fault' = FALSE
  PROVE  OwnersInv'
<1>1. /\ UNCHANGED <<held, kept, usable>> /\ bitmap' = bitmap /\ ready' = ready
      /\ total_pages' = total_pages
  BY DEF clientVars, pmmVars
<1>2. ClientInv'
  BY ClientsKept DEF OwnersInv
<1>3. Tables' = Tables /\ Managed' = Managed
  BY <1>1 DEF Tables, Managed, Bits
<1>4. TablesConserved'
  <2>1. fault \in BOOLEAN /\ TablesConserved
    BY DEF OwnersInv, DirectoryInv
  <2> QED
    BY <1>1, <1>3, <2>1 DEF TablesConserved, Static
<1>5. TablesUsable'
  BY <1>1, <1>3 DEF OwnersInv, DirectoryInv, TablesUsable, Static
<1> QED
  BY <1>1, <1>2, <1>4, <1>5 DEF OwnersInv, DirectoryInv, Bits, Virtual

LEMMA CallersKeepOwners ==
  ASSUME OwnersInv, OtherCallers
  PROVE  OwnersInv'
<1>1. fault = FALSE /\ UNCHANGED tableVars /\ ClientInv
  BY DEF OtherCallers, OwnersInv, DirectoryInv
<1>2. CASE BootWithMap
  <2>1. ClientInv' /\ ready = FALSE /\ ready' = TRUE /\ kept' = bitmap' /\ held' = {}
    BY <1>1, <1>2, BootGivesUsable
  <2>2. paging = FALSE /\ page_directory = NoTables
    BY <2>1 DEF OwnersInv, DirectoryInv
  <2>3. DOMAIN page_directory' = {}
    BY <1>1, <2>2 DEF tableVars, NoTables
  <2>4. TablesConserved'
    BY <2>1, <2>3 DEF TablesConserved, Tables
  <2>5. TablesUsable'
    BY <2>3 DEF TablesUsable, Tables
  <2>6. DirectoryInv'
    BY <1>1, <2>1, <2>2, <2>3, <2>4, <2>5 DEF DirectoryInv, tableVars, OwnersInv, Bits, Virtual
  <2> QED
    BY <2>1, <2>6 DEF OwnersInv
<1>3. ASSUME NEW count \in Counts, Allocate(count) PROVE OwnersInv'
  <2>1. count \in Nat
    BY PmmAssumption
  <2> QED
    BY <1>1, <1>3, <2>1, AllocateKeepsClients, CallersConserve DEF OwnersInv
<1>4. ASSUME NEW page \in Pages, NEW count \in Counts, Release(page, count) PROVE OwnersInv'
  <2>1. count \in Nat
    BY PmmAssumption
  <2> QED
    BY <1>1, <1>4, <2>1, ReleaseKeepsClients, CallersConserve DEF OwnersInv
<1> QED
  BY <1>2, <1>3, <1>4 DEF OtherCallers, ClientNext

LEMMA InitPagingKeepsOwners ==
  ASSUME OwnersInv, paging_init
  PROVE  OwnersInv'
<1>1. /\ ready /\ paging = FALSE /\ paging' = TRUE /\ UNCHANGED <<clientVars, todo, fault>>
      /\ page_directory' = [i \in 0..(Len(StaticTables) - 1) |-> StaticTables[i + 1]]
  BY DEF paging_init, OwnersInv, DirectoryInv
<1>2. /\ fault = FALSE /\ DOMAIN page_directory = {} /\ TablesConserved /\ todo \subseteq Virtual
  BY <1>1 DEF OwnersInv, DirectoryInv, NoTables
<1>3. Tables' \subseteq Static /\ Tables = {}
  BY <1>1, <1>2, StaticPages DEF Tables
<1>4. ASSUME NEW i \in DOMAIN page_directory', NEW j \in DOMAIN page_directory',
             page_directory'[i] = page_directory'[j]
      PROVE  i = j
  <2>1. i + 1 \in DOMAIN StaticTables /\ j + 1 \in DOMAIN StaticTables /\ i \in Int /\ j \in Int
    BY <1>1, StaticPages
  <2>2. StaticTables[i + 1] = StaticTables[j + 1]
    BY <1>1, <1>4
  <2> QED
    BY <2>1, <2>2, PagingAssumption
<1>5. TablesConserved'
  <2>1. bitmap = kept \cup held /\ kept \cap held = {}
    BY <1>1, <1>2, <1>3 DEF TablesConserved
  <2>2. Tables' \ Static = {}
    BY <1>3
  <2>3. bitmap' = bitmap /\ kept' = kept /\ held' = held /\ ready' = ready
    BY <1>1 DEF clientVars, pmmVars
  <2> QED
    BY <1>4, <2>1, <2>2, <2>3 DEF TablesConserved, Static
<1>6. \A d \in DOMAIN page_directory' : d \in Nat /\ page_directory'[d] \in Bits
  <2>1. \A p \in Static : p \in Bits
    BY StaticPages, FinitePages
  <2> QED
    BY <1>1, <2>1, StaticPages
<1>7. ready' /\ fault' = FALSE /\ todo' \subseteq Virtual
  BY <1>1, <1>2 DEF clientVars, pmmVars
<1>8. TablesUsable'
  BY <1>3 DEF TablesUsable, Static
<1>9. DirectoryInv'
  BY <1>1, <1>5, <1>6, <1>7, <1>8 DEF DirectoryInv, Virtual, Bits
<1> QED
  BY <1>1, <1>9, ClientsKept DEF OwnersInv

LEMMA StoreKeepsOwners ==
  ASSUME OwnersInv, paging = TRUE, NEW table, NEW v, NEW entry, StoreEntry(table, v, entry),
         paging' = paging, todo' \subseteq Virtual
  PROVE  OwnersInv'
<1>1. UNCHANGED <<clientVars, page_directory>> /\ (fault' = TRUE \/ fault' = fault)
  BY DEF StoreEntry
<1>2. fault \in BOOLEAN
  BY DEF OwnersInv, DirectoryInv
<1> QED
  BY <1>1, <1>2, OwnersSame

\* The page that a new table gets.
FreshPage(p) == p \in (Managed \ bitmap) \ Static

LEMMA DirectoryWith ==
  ASSUME NEW p, NEW v, ~HasTable(v), page_directory' = WithTable(p, v)
  PROVE  /\ DOMAIN page_directory' = DOMAIN page_directory \cup {PAGE_DIR_INDEX(v)}
         /\ page_directory'[PAGE_DIR_INDEX(v)] = p
         /\ \A d \in DOMAIN page_directory : /\ d # PAGE_DIR_INDEX(v)
                                             /\ page_directory'[d] = page_directory[d]
         /\ Tables' = Tables \cup {p}
<1>1. /\ DOMAIN page_directory' = DOMAIN page_directory \cup {PAGE_DIR_INDEX(v)}
      /\ page_directory'[PAGE_DIR_INDEX(v)] = p
      /\ \A d \in DOMAIN page_directory : /\ d # PAGE_DIR_INDEX(v)
                                          /\ page_directory'[d] = page_directory[d]
  BY DEF WithTable, HasTable
<1>2. Tables' = Tables \cup {p}
  BY <1>1 DEF Tables
<1> QED
  BY <1>1, <1>2

LEMMA NewTableKeepsOwners ==
  ASSUME OwnersInv, paging = TRUE, fault = FALSE, NEW v \in Nat, NEW entry, ~HasTable(v),
         pmm_alloc_page, UNCHANGED <<held, kept, usable>>, paging' = paging, todo' \subseteq Virtual,
         IF ret' = 0 THEN UNCHANGED <<page_directory, mem, fault>>
         ELSE NewTable(ADDR_TO_PAGE(ret'), v, entry)
  PROVE  OwnersInv'
<1>1. ready /\ ClientInv /\ TablesConserved
  BY DEF OwnersInv, DirectoryInv
<1>2. /\ ClientInv' /\ ready' = ready /\ Managed' = Managed
      /\ \/ ret' = 0 /\ bitmap' = bitmap
         \/ /\ ret' # 0 /\ FreshPage(ADDR_TO_PAGE(ret'))
            /\ bitmap' = bitmap \cup {ADDR_TO_PAGE(ret')}
  BY <1>1, TablePageKeepsClients DEF FreshPage
<1>3. CASE UNCHANGED page_directory /\ ((bitmap' = bitmap /\ fault' = fault) \/ fault' = TRUE)
  <2>1. Tables' = Tables
    BY <1>3 DEF Tables
  <2>2. TablesConserved' /\ TablesUsable'
    BY <1>1, <1>2, <1>3, <2>1
       DEF OwnersInv, DirectoryInv, TablesConserved, TablesUsable, Static
  <2> QED
    BY <1>1, <1>2, <1>3, <2>2 DEF OwnersInv, DirectoryInv, Virtual, Bits
<1>5. CASE ret' # 0 /\ fault' = fault /\ page_directory' = WithTable(ADDR_TO_PAGE(ret'), v)
  <2> DEFINE p == ADDR_TO_PAGE(ret')
  <2>1. /\ FreshPage(p) /\ bitmap' = bitmap \cup {p}
        /\ DOMAIN page_directory' = DOMAIN page_directory \cup {PAGE_DIR_INDEX(v)}
        /\ page_directory'[PAGE_DIR_INDEX(v)] = p
        /\ \A d \in DOMAIN page_directory : /\ d # PAGE_DIR_INDEX(v)
                                            /\ page_directory'[d] = page_directory[d]
        /\ Tables' = Tables \cup {p}
    BY <1>2, <1>5, DirectoryWith
  <2> HIDE DEF p
  <2>2. p \notin Static /\ p \notin bitmap /\ p \in Bits
    BY <2>1, FinitePages DEF FreshPage
  <2>3. p \notin Tables
    BY <1>1, <2>2 DEF TablesConserved
  <2>4. Tables' \ Static = (Tables \ Static) \cup {p}
    BY <2>1, <2>2
  <2>5. \A i, j \in DOMAIN page_directory' : page_directory'[i] = page_directory'[j] => i = j
    <3>1. \A d \in DOMAIN page_directory : page_directory[d] # p
      BY <2>3 DEF Tables
    <3> QED
      BY <1>1, <2>1, <3>1 DEF TablesConserved
  <2>6. TablesConserved'
    <3>1. /\ bitmap = kept \cup held \cup (Tables \ Static)
          /\ kept \cap held = {} /\ (Tables \ Static) \cap (kept \cup held) = {}
      BY <1>1 DEF TablesConserved
    <3>2. /\ bitmap' = kept \cup held \cup ((Tables \ Static) \cup {p})
          /\ ((Tables \ Static) \cup {p}) \cap (kept \cup held) = {}
      BY <2>1, <2>2, <3>1
    <3> QED
      BY <2>4, <2>5, <3>1, <3>2 DEF TablesConserved, Static
  <2>7. \A d \in DOMAIN page_directory' : d \in Nat /\ page_directory'[d] \in Bits
    BY <2>1, <2>2, IndexNumbers DEF OwnersInv, DirectoryInv
  <2>8. TablesUsable'
    <3>1. p \in Managed /\ p \notin kept /\ kept' = kept
      BY <1>1, <2>1 DEF FreshPage, ClientInv
    <3> QED
      BY <1>2, <2>1, <3>1 DEF TablesUsable, Static, OwnersInv, DirectoryInv
  <2> QED
    BY <1>1, <1>2, <1>5, <2>6, <2>7, <2>8 DEF OwnersInv, DirectoryInv, Virtual, Bits
<1> QED
  BY <1>2, <1>3, <1>5 DEF NewTable

LEMMA MapKeepsOwners ==
  ASSUME OwnersInv, paging = TRUE, fault = FALSE, NEW v \in Nat, NEW entry, paging_map(v, entry),
         paging' = paging, todo' \subseteq Virtual
  PROVE  OwnersInv'
<1>1. CASE HasTable(v) /\ StoreEntry(TableOf(v), v, entry)
  BY <1>1, StoreKeepsOwners
<1>2. CASE ~HasTable(v)
  BY <1>2, NewTableKeepsOwners DEF paging_map
<1> QED
  BY <1>1, <1>2 DEF paging_map

LEMMA FirstToDo ==
  ASSUME OwnersInv, todo # {}
  PROVE  First(todo) \in todo /\ First(todo) \in Virtual /\ First(todo) \in Nat /\ paging = TRUE
<1>1. todo \subseteq Virtual /\ paging = TRUE
  BY DEF OwnersInv, DirectoryInv
<1>2. First(todo) \in todo
  BY <1>1, VirtualNumbers, FirstIsMember
<1> QED
  BY <1>1, <1>2, VirtualNumbers

LEMMA IdleState ==
  ASSUME OwnersInv, Idle
  PROVE  paging = TRUE /\ fault = FALSE /\ todo = {} /\ ready = TRUE
BY DEF OwnersInv, DirectoryInv, ClientInv, PmmTypeOK, Idle

LEMMA InitOwners == PagingInit => OwnersInv
<1> SUFFICES ASSUME PagingInit PROVE OwnersInv
  OBVIOUS
<1>1. PmmTypeOK /\ ready = FALSE /\ bitmap = {} /\ total_pages = 0 /\ 0 <= MAX_PAGES
  BY TopOfBits, InitPmmInv DEF PagingInit, ClientInit, PmmInv, PmmInit
<1>2. ClientInv
  BY <1>1 DEF PagingInit, ClientInit, ClientInv
<1>3. DirectoryInv
  BY <1>1 DEF PagingInit, DirectoryInv, NoTables, TablesConserved, TablesUsable, Tables
<1> QED
  BY <1>2, <1>3 DEF OwnersInv

LEMMA NextOwners == OwnersInv /\ [PagingNext]_pagingVars => OwnersInv'
<1> SUFFICES ASSUME OwnersInv, [PagingNext]_pagingVars PROVE OwnersInv'
  OBVIOUS
<1>1. CASE UNCHANGED pagingVars
  <2>1. UNCHANGED <<clientVars, page_directory, paging, todo, fault>>
    BY <1>1 DEF pagingVars, tableVars
  <2> QED
    BY <2>1, OwnersSame DEF OwnersInv, DirectoryInv
<1>2. CASE paging_init
  BY <1>2, InitPagingKeepsOwners
<1>3. CASE IdentityStep
  <2>1. fault = FALSE /\ todo' \subseteq Virtual
    BY <1>3 DEF IdentityStep, OwnersInv, DirectoryInv
  <2> QED
    BY <1>3, <2>1, FirstToDo, MapKeepsOwners DEF IdentityStep
<1>4. CASE OtherCallers
  BY <1>4, CallersKeepOwners
<1>5. ASSUME NEW v \in VirtPages, UnmapPage(v) PROVE OwnersInv'
  <2>1. paging = TRUE /\ paging' = paging /\ todo' \subseteq Virtual
    BY <1>5, IdleState DEF UnmapPage
  <2>2. CASE HasTable(v) /\ StoreEntry(TableOf(v), v, Absent)
    BY <2>1, <2>2, StoreKeepsOwners
  <2>3. CASE UNCHANGED <<clientVars, page_directory, mem, fault>>
    BY <2>1, <2>3, OwnersSame DEF OwnersInv, DirectoryInv
  <2> QED
    BY <1>5, <2>2, <2>3 DEF UnmapPage, paging_unmap
<1>6. ASSUME NEW v \in VirtPages, NEW frame \in Frames, NEW present \in BOOLEAN,
             MapPage(v, frame, present)
      PROVE  OwnersInv'
  <2>1. paging = TRUE /\ fault = FALSE /\ paging' = paging /\ todo' \subseteq Virtual /\ v \in Nat
    BY <1>6, IdleState, VirtualNumbers DEF MapPage
  <2> QED
    BY <1>6, <2>1, MapKeepsOwners DEF MapPage
<1>7. ASSUME NEW start \in Starts, NEW size \in Lengths, IdentityMap(start, size) PROVE OwnersInv'
  <2>1. paging = TRUE /\ todo' \subseteq Virtual
    BY <1>7, IdleState DEF IdentityMap, LoopPages
  <2>2. UNCHANGED <<clientVars, page_directory, mem, paging, fault>>
    BY <1>7 DEF IdentityMap
  <2> QED
    BY <2>1, <2>2, OwnersSame DEF OwnersInv, DirectoryInv
<1> QED
  BY <1>1, <1>2, <1>3, <1>4, <1>5, <1>6, <1>7 DEF PagingNext

\* Any step is a step before a fault; what it adds to the page tables lies in pages
\* that were free.
LEMMA MapTables ==
  ASSUME OwnersInv, paging = TRUE, fault = FALSE, NEW v, NEW entry, paging_map(v, entry)
  PROVE  \A t \in Tables' \ Tables : FreshPage(t)
<1>1. CASE HasTable(v)
  <2>1. Tables' = Tables
    BY <1>1 DEF paging_map, StoreEntry, Tables
  <2> QED
    BY <2>1
<1>2. CASE ~HasTable(v)
  <2>1. /\ pmm_alloc_page /\ UNCHANGED <<held, kept, usable>>
        /\ IF ret' = 0 THEN UNCHANGED <<page_directory, mem, fault>>
           ELSE NewTable(ADDR_TO_PAGE(ret'), v, entry)
    BY <1>2 DEF paging_map
  <2>2. CASE UNCHANGED page_directory
    BY <2>2 DEF Tables
  <2>3. CASE ret' # 0 /\ page_directory' = WithTable(ADDR_TO_PAGE(ret'), v)
    <3>1. ready /\ ClientInv
      BY DEF OwnersInv, DirectoryInv
    <3>2. FreshPage(ADDR_TO_PAGE(ret'))
      BY <2>1, <2>3, <3>1, TablePageKeepsClients DEF FreshPage
    <3>3. Tables' = Tables \cup {ADDR_TO_PAGE(ret')}
      BY <1>2, <2>3, DirectoryWith
    <3> QED
      BY <3>2, <3>3
  <2> QED
    BY <2>1, <2>2, <2>3 DEF NewTable
<1> QED
  BY <1>1, <1>2

LEMMA StepTables ==
  ASSUME OwnersInv, PagingNext
  PROVE  fault = FALSE /\ \A t \in Tables' \ (Tables \cup Static) : FreshPage(t)
<1>1. CASE paging_init
  <2>1. paging = FALSE /\ fault = FALSE
    BY <1>1 DEF paging_init, OwnersInv, DirectoryInv
  <2>2. Tables' \subseteq Static
    BY <1>1, StaticPages DEF paging_init, Tables
  <2> QED
    BY <2>1, <2>2
<1>2. CASE IdentityStep
  <2>1. fault = FALSE
    BY <1>2 DEF IdentityStep, OwnersInv, DirectoryInv
  <2> QED
    BY <1>2, <2>1, FirstToDo, MapTables DEF IdentityStep
<1>3. CASE OtherCallers
  <2>1. fault = FALSE /\ Tables' = Tables
    BY <1>3 DEF OtherCallers, OwnersInv, DirectoryInv, tableVars, Tables
  <2> QED
    BY <2>1
<1>4. ASSUME NEW v \in VirtPages, UnmapPage(v)
      PROVE  fault = FALSE /\ Tables' = Tables
  BY <1>4, IdleState DEF UnmapPage, paging_unmap, StoreEntry, Tables
<1>5. ASSUME NEW v \in VirtPages, NEW frame \in Frames, NEW present \in BOOLEAN,
             MapPage(v, frame, present)
      PROVE  fault = FALSE /\ \A t \in Tables' \ (Tables \cup Static) : FreshPage(t)
  BY <1>5, IdleState, MapTables DEF MapPage
<1>6. ASSUME NEW start \in Starts, NEW size \in Lengths, IdentityMap(start, size)
      PROVE  fault = FALSE /\ Tables' = Tables
  BY <1>6, IdleState DEF IdentityMap, Tables
<1> QED
  BY <1>1, <1>2, <1>3, <1>4, <1>5, <1>6 DEF PagingNext

\* Every byte of a page that is handed out, to a caller or for a page table, is
\* available memory above the first megabyte and outside the kernel, whatever the
\* alignment of the regions of the map.
THEOREM OnlyUsableMemoryHeld == PagingSpec => []OnlyUsableMemory
<1>1. OwnersInv => OnlyUsableMemory
  <2> SUFFICES ASSUME OwnersInv, NEW page \in held \cup (Tables \ Static) PROVE UsablePage(page)
    BY DEF OnlyUsableMemory
  <2>1. CASE page \in held
    <3>1. ready = TRUE /\ page \in Managed \ kept
      BY <2>1 DEF OwnersInv, ClientInv, PmmTypeOK
    <3> QED
      BY <3>1 DEF OwnersInv, ClientInv
  <2>2. CASE page \in Tables \ Static
    <3>1. page \in Managed \ kept
      BY <2>2 DEF OwnersInv, DirectoryInv, TablesUsable
    <3>2. paging = TRUE
      <4>1. page_directory # NoTables
        BY <2>2 DEF Tables, NoTables
      <4> QED
        BY <4>1 DEF OwnersInv, DirectoryInv
    <3>3. ready
      BY <3>2 DEF OwnersInv, DirectoryInv
    <3> QED
      BY <3>1, <3>3 DEF OwnersInv, ClientInv
  <2> QED
    BY <2>1, <2>2
<1> QED
  BY InitOwners, NextOwners, <1>1, PTL DEF PagingSpec

\* A page that pmm_alloc_pages hands out was in no caller's hands and held no page
\* table, and a page taken for a table was nobody's, whichever pages were taken and
\* freed before.
THEOREM PagesHandedOutOnce == PagingSpec => HandedOutOnce
<1> DEFINE Step == /\ \A count \in Counts : Allocate(count) /\ ret' # 0 =>
                        /\ Cardinality(held') = Cardinality(held) + count
                        /\ (held' \ held) \cap Tables = {}
                   /\ (Tables' \ (Tables \cup Static)) \cap (held \cup kept) = {}
<1>1. OwnersInv /\ [PagingNext]_pagingVars => [Step]_pagingVars
  <2> SUFFICES ASSUME OwnersInv, PagingNext PROVE Step
    OBVIOUS
  <2>1. ASSUME NEW count \in Counts, Allocate(count), ret' # 0
        PROVE  /\ Cardinality(held') = Cardinality(held) + count
               /\ (held' \ held) \cap Tables = {}
    <3> DEFINE p == ADDR_TO_PAGE(ret')
    <3>1. ready /\ pmm_alloc_pages(count) /\ ClientInv /\ count \in Nat
      BY <2>1, PmmAssumption DEF Allocate, AllocPages, Usual, OwnersInv
    <3>2. p \in Nat /\ count # 0 /\ AllocatedRun(count) \subseteq Managed \ bitmap
      BY <2>1, <3>1, RunAllocated
    <3>3. held' = held \cup AllocatedRun(count)
      BY <2>1 DEF Allocate, AllocatedRun
    <3>4. held \in SUBSET Bits /\ AllocatedRun(count) \in SUBSET (Bits \ held)
      BY <3>1, <3>2, FinitePages DEF ClientInv
    <3>5. Cardinality(held') = Cardinality(held) + Cardinality(AllocatedRun(count))
      BY <3>3, <3>4, CountWith
    <3>6. Cardinality(AllocatedRun(count)) = count
      <4> HIDE DEF p
      <4>1. AllocatedRun(count) = p..(p + count - 1)
        BY DEF AllocatedRun, p
      <4>2. /\ p \in Int /\ p + count - 1 \in Int /\ p <= p + count - 1
            /\ (p + count - 1) - p + 1 = count
        BY <3>1, <3>2
      <4> QED
        BY <4>1, <4>2, FS_Interval
    <3>7. ASSUME NEW t \in Tables, t \in AllocatedRun(count) PROVE FALSE
      <4>1. t \in Managed /\ t \notin bitmap /\ t \notin Static
        BY <3>1, <3>2, <3>7 DEF ClientInv
      <4>2. Tables \ Static \subseteq bitmap
        BY <3>1, StepTables DEF OwnersInv, DirectoryInv, TablesConserved
      <4> QED
        BY <3>7, <4>1, <4>2
    <3> QED
      BY <3>3, <3>5, <3>6, <3>7
  <2>2. (Tables' \ (Tables \cup Static)) \cap (held \cup kept) = {}
    BY StepTables DEF FreshPage, OwnersInv, ClientInv
  <2> QED
    BY <2>1, <2>2
<1> QED
  BY InitOwners, NextOwners, <1>1, PTL DEF PagingSpec, HandedOutOnce

\* Whatever callers allocate, free, map and unmap, what is marked used is what
\* pmm_init kept back, what callers hold and the page tables, each once.
THEOREM TablesAlwaysConserved == PagingSpec => []TablesConserved
<1>1. OwnersInv => TablesConserved
  BY DEF OwnersInv, DirectoryInv
<1> QED
  BY InitOwners, NextOwners, <1>1, PTL DEF PagingSpec

-----------------------------------------------------------------------------
(* What the processor finds                                                *)

Entries == [present : BOOLEAN, frame : Nat]
TableContents == [0..(ENTRIES - 1) -> Entries]

\* The processor finds entry at v, and at every other page what it found before.
Rewalked(v, entry) == \A u \in Nat : Walk(u)' = IF u = v THEN entry ELSE Walk(u)

\* A page no caller has moved is mapped to itself or not at all; page tables and the
\* first megabytes are mapped.
Orderly ==
  /\ \A v \in Nat : v \in moved \/ Walk(v) = Absent \/ Walk(v) = Present(v)
  /\ \A t \in Tables : Walk(t) = Present(t)
  /\ \A v \in IdentityPages : v \in moved \/ Walk(v) = Present(v)

\* Once the page of a page table has been moved, tables are looked for and written
\* elsewhere, and nothing more is known of them.
WalksInv ==
  /\ mem \in [Virtual -> TableContents]
  /\ paging = TRUE /\ Intact => Orderly

LEMMA EntriesTyped ==
  /\ Absent \in Entries /\ \A frame \in Nat : Present(frame) \in Entries
  /\ ClearTable \in TableContents /\ Garbage \in TableContents
  /\ \A frame : Present(frame) # Absent /\ Present(frame).present = TRUE /\ Present(frame).frame = frame
  /\ Absent.present = FALSE
  /\ \A e \in Entries : e.present \in BOOLEAN /\ e.frame \in Nat
BY DEF Absent, Present, Entries, ClearTable, Garbage, TableContents

LEMMA SameIndices ==
  ASSUME NEW u \in Nat, NEW v \in Nat, PAGE_DIR_INDEX(u) = PAGE_DIR_INDEX(v),
         PAGE_TABLE_INDEX(u) = PAGE_TABLE_INDEX(v)
  PROVE  u = v
BY IndexNumbers

\* With the same directory and memory the processor finds the same.
LEMMA WalkKept ==
  ASSUME UNCHANGED <<page_directory, mem>>
  PROVE  (\A u \in Nat : Walk(u)' = Walk(u)) /\ Tables' = Tables
BY DEF Walk, HasTable, TableOf, Tables

LEMMA TableNumbers ==
  ASSUME OwnersInv
  PROVE  /\ Tables \subseteq Virtual /\ Tables \subseteq Nat
         /\ \A u \in Nat : HasTable(u) => TableOf(u) \in Tables
BY VirtualNumbers DEF OwnersInv, DirectoryInv, Tables, HasTable, TableOf

LEMMA WalkTyped ==
  ASSUME OwnersInv, WalksInv, NEW u \in Nat
  PROVE  Walk(u) \in Entries
<1>1. PAGE_TABLE_INDEX(u) \in 0..(ENTRIES - 1)
  BY IndexNumbers
<1>2. HasTable(u) => mem[TableOf(u)] \in TableContents
  BY TableNumbers DEF WalksInv
<1> QED
  BY <1>1, <1>2, EntriesTyped DEF Walk, TableContents

\* Wherever a table's address leads, what is written there is an entry or a table.
LEMMA WrittenTyped ==
  ASSUME WalksInv, NEW f \in Nat,
         \/ \E k \in 0..(ENTRIES - 1), entry \in Entries : mem' = [mem EXCEPT ![f][k] = entry]
         \/ \E new \in TableContents : mem' = [mem EXCEPT ![f] = new]
  PROVE  mem' \in [Virtual -> TableContents]
<1>1. mem \in [Virtual -> TableContents]
  BY DEF WalksInv
<1>2. ASSUME NEW new \in TableContents, mem' = [mem EXCEPT ![f] = new]
      PROVE  mem' \in [Virtual -> TableContents]
  BY <1>1, <1>2
<1>3. ASSUME NEW k \in 0..(ENTRIES - 1), NEW entry \in Entries, mem' = [mem EXCEPT ![f][k] = entry]
      PROVE  mem' \in [Virtual -> TableContents]
  <2>1. CASE f \in Virtual
    <3>1. [mem[f] EXCEPT ![k] = entry] \in TableContents
      BY <1>1, <1>3, <2>1 DEF TableContents
    <3>2. mem' = [mem EXCEPT ![f] = [mem[f] EXCEPT ![k] = entry]]
      BY <1>1, <1>3, <2>1
    <3> QED
      BY <1>1, <3>1, <3>2
  <2>2. CASE f \notin Virtual
    <3>1. mem' = mem
      BY <1>1, <1>3, <2>2
    <3> QED
      BY <1>1, <3>1
  <2> QED
    BY <2>1, <2>2
<1> QED
  BY <1>2, <1>3

LEMMA ClearedWith ==
  ASSUME NEW k \in 0..(ENTRIES - 1), NEW entry \in Entries
  PROVE  /\ [ClearTable EXCEPT ![k] = entry] \in TableContents
         /\ [ClearTable EXCEPT ![k] = entry][k] = entry
         /\ \A j \in 0..(ENTRIES - 1) : j # k => [ClearTable EXCEPT ![k] = entry][j] = Absent
<1>1. ClearTable \in TableContents /\ \A j \in 0..(ENTRIES - 1) : ClearTable[j] = Absent
  BY EntriesTyped DEF ClearTable
<1> QED
  BY <1>1 DEF TableContents

LEMMA StoreTyped ==
  ASSUME OwnersInv, WalksInv, NEW v \in Nat, NEW table \in Nat, NEW entry \in Entries,
         StoreEntry(table, v, entry)
  PROVE  mem' \in [Virtual -> TableContents]
<1>1. Walk(table).frame \in Nat
  BY WalkTyped, EntriesTyped
<1> QED
  BY <1>1, IndexNumbers, WrittenTyped DEF StoreEntry, WalksInv

LEMMA MapTyped ==
  ASSUME OwnersInv, WalksInv, paging = TRUE, NEW v \in Nat, NEW entry \in Entries,
         paging_map(v, entry) \/ paging_unmap(v)
  PROVE  mem' \in [Virtual -> TableContents]
<1>1. CASE UNCHANGED mem
  BY <1>1 DEF WalksInv, TableContents, Entries, Virtual
<1>2. ASSUME HasTable(v), NEW e \in Entries, StoreEntry(TableOf(v), v, e)
      PROVE  mem' \in [Virtual -> TableContents]
  BY <1>2, TableNumbers, StoreTyped
<1>3. ASSUME pmm_alloc_page, UNCHANGED <<held, kept, usable>>, ret' # 0,
             NewTable(ADDR_TO_PAGE(ret'), v, entry)
      PROVE  mem' \in [Virtual -> TableContents]
  <2> DEFINE p == ADDR_TO_PAGE(ret')
  <2>1. p \in Nat
    BY <1>3, TablePageKeepsClients, FinitePages DEF OwnersInv, DirectoryInv
  <2>2. Walk(p).frame \in Nat
    BY <2>1, WalkTyped, EntriesTyped
  <2>3. \/ UNCHANGED mem
        \/ mem' = [mem EXCEPT ![Walk(p).frame] = [ClearTable EXCEPT ![PAGE_TABLE_INDEX(v)] = entry]]
    BY <1>3 DEF NewTable
  <2>4. [ClearTable EXCEPT ![PAGE_TABLE_INDEX(v)] = entry] \in TableContents
    BY IndexNumbers, ClearedWith
  <2> HIDE DEF p
  <2> QED
    BY <1>1, <2>2, <2>3, <2>4, WrittenTyped
<1> QED
  BY <1>1, <1>2, <1>3, EntriesTyped DEF paging_map, paging_unmap

\* The tables' account says that no page holds two of them.
LEMMA TablesApart ==
  ASSUME OwnersInv, WalksInv, paging = TRUE, Intact, fault = FALSE, NEW u \in Nat, HasTable(u)
  PROVE  /\ TableOf(u) \in Virtual /\ TableOf(u) \in Tables
         /\ Walk(TableOf(u)) = Present(TableOf(u))
         /\ \A v \in Nat : HasTable(v) /\ TableOf(v) = TableOf(u) =>
                             PAGE_DIR_INDEX(v) = PAGE_DIR_INDEX(u)
<1>1. ready /\ TablesConserved
  BY DEF OwnersInv, DirectoryInv
<1>2. TableOf(u) \in Tables /\ TableOf(u) \in Virtual
  BY TableNumbers
<1>3. Walk(TableOf(u)) = Present(TableOf(u))
  BY <1>2 DEF WalksInv, Orderly
<1>4. \A v \in Nat : HasTable(v) /\ TableOf(v) = TableOf(u) => PAGE_DIR_INDEX(v) = PAGE_DIR_INDEX(u)
  BY <1>1 DEF TablesConserved, HasTable, TableOf
<1> QED
  BY <1>2, <1>3, <1>4

LEMMA StoredEntry ==
  ASSUME OwnersInv, WalksInv, paging = TRUE, Intact, fault = FALSE, NEW v \in Nat,
         NEW entry \in Entries, HasTable(v), StoreEntry(TableOf(v), v, entry)
  PROVE  /\ Rewalked(v, entry) /\ fault' = FALSE /\ Tables' = Tables
         /\ UNCHANGED <<clientVars, page_directory>>
<1> DEFINE t == TableOf(v)
           k == PAGE_TABLE_INDEX(v)
<1>1. /\ t \in Virtual /\ Walk(t) = Present(t)
      /\ \A u \in Nat : HasTable(u) /\ TableOf(u) = t => PAGE_DIR_INDEX(u) = PAGE_DIR_INDEX(v)
  BY TablesApart
<1>2. k \in 0..(ENTRIES - 1)
  BY IndexNumbers
<1>3. /\ mem' = [mem EXCEPT ![t][k] = entry]
      /\ UNCHANGED fault /\ UNCHANGED <<clientVars, page_directory>>
  BY <1>1, EntriesTyped DEF StoreEntry
<1>4. mem \in [Virtual -> TableContents]
  BY DEF WalksInv
<1>5. Tables' = Tables
  BY <1>3 DEF Tables
<1>6. ASSUME NEW u \in Nat PROVE Walk(u)' = IF u = v THEN entry ELSE Walk(u)
  <2>1. (HasTable(u)' <=> HasTable(u)) /\ (HasTable(u) => TableOf(u)' = TableOf(u))
    BY <1>3 DEF HasTable, TableOf
  <2>2. CASE ~HasTable(u)
    BY <2>1, <2>2 DEF Walk
  <2>3. CASE HasTable(u) /\ TableOf(u) # t
    <3>1. u # v /\ TableOf(u) \in Virtual
      BY <2>3, TablesApart
    <3>2. mem'[TableOf(u)] = mem[TableOf(u)]
      BY <1>3, <1>4, <2>3, <3>1
    <3> QED
      BY <2>1, <2>3, <3>1, <3>2 DEF Walk
  <2>4. CASE HasTable(u) /\ TableOf(u) = t
    <3>1. mem'[t] = [mem[t] EXCEPT ![k] = entry] /\ mem[t] \in TableContents
      BY <1>1, <1>3, <1>4
    <3>2. mem'[t][k] = entry /\ \A j \in 0..(ENTRIES - 1) : j # k => mem'[t][j] = mem[t][j]
      BY <1>2, <3>1 DEF TableContents
    <3>3. PAGE_TABLE_INDEX(u) \in 0..(ENTRIES - 1) /\ (PAGE_TABLE_INDEX(u) = k => u = v)
      BY <1>1, <2>4, IndexNumbers, SameIndices
    <3> HIDE DEF t, k
    <3>4. Walk(u)' = mem'[t][PAGE_TABLE_INDEX(u)] /\ Walk(u) = mem[t][PAGE_TABLE_INDEX(u)]
      BY <2>1, <2>4 DEF Walk, PAGE_TABLE_INDEX
    <3>5. u = v => PAGE_TABLE_INDEX(u) = k
      BY DEF k
    <3> QED
      BY <3>2, <3>3, <3>4, <3>5
  <2> QED
    BY <2>2, <2>3, <2>4
<1> QED
  BY <1>3, <1>5, <1>6 DEF Rewalked

\* A table made at a page that was free, and that no caller has moved, holds the new
\* entry and nothing else.
LEMMA NewTableEntry ==
  ASSUME OwnersInv, WalksInv, paging = TRUE, Intact, fault = FALSE, NEW v \in Nat,
         NEW entry \in Entries, ~HasTable(v), NEW p, FreshPage(p), NewTable(p, v, entry),
         Tables' \cap moved = {}
  PROVE  \/ /\ Rewalked(v, entry) /\ fault' = FALSE
            /\ \A t \in Tables' : Walk(t) = Present(t)
         \/ UNCHANGED <<page_directory, mem>> /\ fault' = TRUE
<1> DEFINE k == PAGE_TABLE_INDEX(v)
           new == [ClearTable EXCEPT ![k] = entry]
<1> SUFFICES ASSUME Walk(p).present
             PROVE  /\ Rewalked(v, entry) /\ fault' = FALSE
                    /\ \A t \in Tables' : Walk(t) = Present(t)
  BY DEF NewTable
<1>1. ready = TRUE /\ TablesConserved
  BY DEF OwnersInv, DirectoryInv, ClientInv, PmmTypeOK
<1>2. p \in Virtual /\ p \in Nat /\ p \notin bitmap /\ p \notin Static
  BY <1>1, FinitePages, VirtualNumbers DEF FreshPage
<1>3. page_directory' = WithTable(p, v) /\ mem' = [mem EXCEPT ![Walk(p).frame] = new]
      /\ UNCHANGED fault
  BY DEF NewTable
<1>4. /\ DOMAIN page_directory' = DOMAIN page_directory \cup {PAGE_DIR_INDEX(v)}
      /\ page_directory'[PAGE_DIR_INDEX(v)] = p
      /\ \A d \in DOMAIN page_directory : /\ d # PAGE_DIR_INDEX(v)
                                          /\ page_directory'[d] = page_directory[d]
      /\ Tables' = Tables \cup {p}
  BY <1>3, DirectoryWith
<1>5. Walk(p) = Present(p)
  <2>1. p \notin moved
    BY <1>4
  <2>2. Walk(p) = Absent \/ Walk(p) = Present(p)
    BY <1>2, <2>1 DEF WalksInv, Orderly
  <2> QED
    BY <2>2, EntriesTyped
<1>6. mem \in [Virtual -> TableContents] /\ \A t \in Tables : Walk(t) = Present(t)
  BY DEF WalksInv, Orderly
<1>7. k \in 0..(ENTRIES - 1)
  BY IndexNumbers
<1>8. /\ new \in TableContents /\ new[k] = entry
      /\ \A j \in 0..(ENTRIES - 1) : j # k => new[j] = Absent
  BY <1>7, ClearedWith
<1> HIDE DEF new, k
<1>9. mem' = [mem EXCEPT ![p] = new]
  BY <1>3, <1>5, EntriesTyped
<1>10. mem'[p] = new /\ \A q \in Virtual : q # p => mem'[q] = mem[q]
  BY <1>2, <1>6, <1>9
<1>11. p \notin Tables
  BY <1>1, <1>2 DEF TablesConserved
<1>12. ASSUME NEW u \in Nat PROVE Walk(u)' = IF u = v THEN entry ELSE Walk(u)
  <2>1. CASE HasTable(u)
    <3>1. u # v /\ TableOf(u) \in Virtual /\ TableOf(u) # p
      BY <1>11, <2>1, TablesApart
    <3>2. HasTable(u)' /\ TableOf(u)' = TableOf(u)
      BY <1>4, <2>1 DEF HasTable, TableOf, PAGE_DIR_INDEX
    <3> QED
      BY <1>10, <2>1, <3>1, <3>2 DEF Walk, PAGE_TABLE_INDEX
  <2>2. CASE ~HasTable(u) /\ PAGE_DIR_INDEX(u) # PAGE_DIR_INDEX(v)
    BY <1>4, <2>2 DEF HasTable, Walk, PAGE_DIR_INDEX
  <2>3. CASE ~HasTable(u) /\ PAGE_DIR_INDEX(u) = PAGE_DIR_INDEX(v)
    <3>1. HasTable(u)' /\ TableOf(u)' = p
      BY <1>4, <2>3 DEF HasTable, TableOf, PAGE_DIR_INDEX
    <3>2. Walk(u)' = new[PAGE_TABLE_INDEX(u)] /\ Walk(u) = Absent
      BY <1>10, <2>3, <3>1 DEF Walk, PAGE_TABLE_INDEX
    <3>3. PAGE_TABLE_INDEX(u) \in 0..(ENTRIES - 1) /\ (PAGE_TABLE_INDEX(u) = k => u = v)
      BY <2>3, IndexNumbers, SameIndices DEF k
    <3>4. u = v => PAGE_TABLE_INDEX(u) = k
      BY DEF k
    <3> QED
      BY <1>8, <3>2, <3>3, <3>4
  <2> QED
    BY <2>1, <2>2, <2>3
<1> QED
  BY <1>3, <1>4, <1>5, <1>6, <1>12 DEF Rewalked

\* Nothing changed, and why.
NotMapped(v) ==
  /\ Tables' = Tables /\ \A u \in Nat : Walk(u)' = Walk(u)
  /\ NoMemory(v) \/ fault' = TRUE

\* paging_map and paging_unmap change what the processor finds at the page they
\* name; paging_map changes nothing when it needs a table and gets no page.
LEMMA MapRewalks ==
  ASSUME OwnersInv, WalksInv, paging = TRUE, Intact, fault = FALSE, NEW v \in Nat,
         NEW entry \in Entries, paging_map(v, entry), Tables' \cap moved = {}
  PROVE  \/ Rewalked(v, entry) /\ fault' = FALSE /\ \A t \in Tables' : Walk(t) = Present(t)
         \/ NotMapped(v)
<1>1. CASE HasTable(v) /\ StoreEntry(TableOf(v), v, entry)
  BY <1>1, StoredEntry DEF WalksInv, Orderly
<1>2. CASE ~HasTable(v)
  <2>1. /\ pmm_alloc_page /\ UNCHANGED <<held, kept, usable>>
        /\ IF ret' = 0 THEN UNCHANGED <<page_directory, mem, fault>>
           ELSE NewTable(ADDR_TO_PAGE(ret'), v, entry)
    BY <1>2 DEF paging_map
  <2>2. ret' # 0 => FreshPage(ADDR_TO_PAGE(ret'))
    BY <2>1, TablePageKeepsClients DEF OwnersInv, DirectoryInv, FreshPage
  <2>3. CASE ret' = 0
    BY <1>2, <2>1, <2>3, WalkKept DEF NotMapped, NoMemory
  <2>4. CASE ret' # 0
    BY <1>2, <2>1, <2>2, <2>4, NewTableEntry, WalkKept DEF NotMapped
  <2> QED
    BY <2>3, <2>4
<1> QED
  BY <1>1, <1>2 DEF paging_map

LEMMA UnmapRewalks ==
  ASSUME OwnersInv, WalksInv, paging = TRUE, Intact, fault = FALSE, NEW v \in Nat, paging_unmap(v)
  PROVE  Rewalked(v, Absent) /\ fault' = FALSE /\ Tables' = Tables
<1>1. CASE HasTable(v) /\ StoreEntry(TableOf(v), v, Absent)
  BY <1>1, EntriesTyped, StoredEntry
<1>2. CASE ~HasTable(v) /\ UNCHANGED <<clientVars, page_directory, mem, fault>>
  <2>1. Walk(v) = Absent
    BY <1>2 DEF Walk
  <2>2. (\A u \in Nat : Walk(u)' = Walk(u)) /\ Tables' = Tables
    BY <1>2, WalkKept
  <2> QED
    BY <1>2, <2>1, <2>2 DEF Rewalked
<1> QED
  BY <1>1, <1>2 DEF paging_unmap

\* The identity map's pages are those whose tables are the static ones.
LEMMA IdentityIndices ==
  ASSUME NEW v \in Nat
  PROVE  v \in IdentityPages <=> PAGE_DIR_INDEX(v) \in 0..(Len(StaticTables) - 1)
<1> DEFINE d == PAGE_DIR_INDEX(v)
           n == Len(StaticTables)
<1>1. /\ d \in Nat /\ n \in Nat /\ ENTRIES \in Nat \ {0}
      /\ PAGE_TABLE_INDEX(v) \in 0..(ENTRIES - 1) /\ v = d * ENTRIES + PAGE_TABLE_INDEX(v)
  BY IndexNumbers, StaticPages
<1>2. IdentityPages = 0..(n * ENTRIES - 1)
  BY <1>1 DEF IdentityPages
<1> HIDE DEF d, n
<1>3. d * ENTRIES \in Nat /\ n * ENTRIES \in Nat
  BY <1>1
<1>4. (d < n => d * ENTRIES + ENTRIES <= n * ENTRIES) /\ (d * ENTRIES < n * ENTRIES => d < n)
  BY <1>1, MultiplesInOrder
<1>5. v \in IdentityPages <=> v < n * ENTRIES
  BY <1>2, <1>3
<1>6. v < n * ENTRIES => d < n
  BY <1>1, <1>3, <1>4
<1>7. d < n => v < n * ENTRIES
  BY <1>1, <1>3, <1>4
<1>8. d < n <=> d \in 0..(n - 1)
  BY <1>1
<1> QED
  BY <1>5, <1>6, <1>7, <1>8 DEF d, n

\* paging_init maps the identity map's pages to themselves and nothing else.
LEMMA InitMaps ==
  ASSUME mem \in [Virtual -> TableContents], paging_init
  PROVE  /\ \A v \in Nat : Walk(v)' = IF v \in IdentityPages THEN Present(v) ELSE Absent
         /\ mem' \in [Virtual -> TableContents] /\ Tables' \subseteq IdentityPages
<1> DEFINE place(p) == CHOOSE i \in DOMAIN StaticTables : StaticTables[i] = p
           row(p) == [j \in 0..(ENTRIES - 1) |-> Present((place(p) - 1) * ENTRIES + j)]
<1>1. /\ page_directory' = [i \in 0..(Len(StaticTables) - 1) |-> StaticTables[i + 1]]
      /\ mem' = [p \in Virtual |-> IF p \in Static THEN row(p) ELSE mem[p]]
  BY DEF paging_init
<1>2. \A i \in DOMAIN StaticTables : place(StaticTables[i]) = i
  BY PagingAssumption
<1>3. ASSUME NEW p \in Static PROVE row(p) \in TableContents
  <2>1. PICK i \in DOMAIN StaticTables : StaticTables[i] = p
    BY DEF Static
  <2>2. place(p) = i /\ i \in Nat /\ i >= 1
    BY <1>2, <2>1, StaticPages
  <2> HIDE DEF place
  <2>3. (place(p) - 1) * ENTRIES \in Nat
    BY <2>2, StaticPages
  <2>4. ASSUME NEW j \in 0..(ENTRIES - 1) PROVE Present((place(p) - 1) * ENTRIES + j) \in Entries
    <3>1. (place(p) - 1) * ENTRIES + j \in Nat
      BY <2>3, StaticPages
    <3> QED
      BY <3>1, EntriesTyped
  <2> QED
    BY <2>4 DEF TableContents
<1> HIDE DEF place, row
<1>4. mem' \in [Virtual -> TableContents]
  BY <1>1, <1>3
<1>5. Tables' \subseteq IdentityPages
  <2>1. \A p \in Tables' : p \in Static
    BY <1>1, StaticPages DEF Tables
  <2>2. \A p \in Static : p \in Nat /\ p < ENTRIES * Len(StaticTables)
    <3>1. \A i \in DOMAIN StaticTables : StaticTables[i] < ENTRIES * Len(StaticTables)
      BY PagingAssumption
    <3>2. \A p \in Static : p < ENTRIES * Len(StaticTables)
      BY <3>1 DEF Static
    <3> QED
      BY <3>2, StaticPages, FinitePages
  <2>3. ENTRIES * Len(StaticTables) \in Nat
    BY StaticPages
  <2> QED
    BY <2>1, <2>2, <2>3 DEF IdentityPages
<1>6. ASSUME NEW v \in Nat PROVE Walk(v)' = IF v \in IdentityPages THEN Present(v) ELSE Absent
  <2> DEFINE d == PAGE_DIR_INDEX(v)
             k == PAGE_TABLE_INDEX(v)
  <2>1. d \in Nat /\ k \in 0..(ENTRIES - 1) /\ v = d * ENTRIES + k
    BY IndexNumbers
  <2>2. (HasTable(v)' <=> d \in DOMAIN page_directory') /\ TableOf(v)' = page_directory'[d]
    BY DEF HasTable, TableOf, PAGE_DIR_INDEX
  <2>3. Walk(v)' = IF d \in DOMAIN page_directory' THEN mem'[page_directory'[d]][k] ELSE Absent
    BY <2>2 DEF Walk, PAGE_TABLE_INDEX
  <2>4. v \in IdentityPages <=> d \in 0..(Len(StaticTables) - 1)
    BY IdentityIndices
  <2> HIDE DEF d, k
  <2>5. CASE v \notin IdentityPages
    BY <1>1, <2>3, <2>4, <2>5
  <2>6. CASE v \in IdentityPages
    <3>1. /\ page_directory'[d] = StaticTables[d + 1] /\ d + 1 \in DOMAIN StaticTables
          /\ StaticTables[d + 1] \in Static /\ StaticTables[d + 1] \in Virtual
          /\ d \in DOMAIN page_directory'
      BY <1>1, <2>4, <2>6, StaticPages, VirtualNumbers
    <3>2. place(StaticTables[d + 1]) = d + 1
      BY <1>2, <3>1
    <3>3. mem'[StaticTables[d + 1]] = row(StaticTables[d + 1])
      BY <1>1, <3>1
    <3>4. row(StaticTables[d + 1])[k] = Present(((d + 1) - 1) * ENTRIES + k)
      BY <2>1, <3>2 DEF row
    <3>5. (d + 1) - 1 = d
      BY <2>1
    <3> QED
      BY <2>1, <2>3, <2>6, <3>1, <3>3, <3>4, <3>5
  <2> QED
    BY <2>5, <2>6
<1> QED
  BY <1>4, <1>5, <1>6

LEMMA InitWalks == PagingInit => WalksInv
<1> SUFFICES ASSUME PagingInit PROVE WalksInv
  OBVIOUS
<1>1. mem \in [Virtual -> TableContents] /\ paging = FALSE
  BY EntriesTyped DEF PagingInit
<1> QED
  BY <1>1 DEF WalksInv

\* What a step that changes what the processor finds at one page must show.
LEMMA RewalkKeepsOrder ==
  ASSUME WalksInv, paging = TRUE, Intact, Intact', NEW v \in Nat, NEW entry,
         entry = Present(v) \/ v \in moved', moved \subseteq moved',
         Rewalked(v, entry), \A t \in Tables' : Walk(t) = Present(t), Tables' \subseteq Nat
  PROVE  Orderly'
<1>1. Orderly
  BY DEF WalksInv
<1>2. ASSUME NEW u \in Nat
      PROVE  /\ u \in moved' \/ Walk(u)' = Absent \/ Walk(u)' = Present(u)
             /\ u \in Tables' => Walk(u)' = Present(u)
             /\ u \in IdentityPages => u \in moved' \/ Walk(u)' = Present(u)
  <2>1. Walk(u)' = IF u = v THEN entry ELSE Walk(u)
    BY DEF Rewalked
  <2>2. CASE u = v
    BY <2>1, <2>2 DEF Intact
  <2>3. CASE u # v
    BY <1>1, <2>1, <2>3 DEF Orderly
  <2> QED
    BY <2>2, <2>3
<1> QED
  BY <1>2, VirtualNumbers DEF Orderly, Absent, Present, IdentityPages

LEMMA SameWalksKeepOrder ==
  ASSUME WalksInv, paging = TRUE, Intact, moved \subseteq moved', Tables' = Tables,
         \A u \in Nat : Walk(u)' = Walk(u), Tables \subseteq Nat
  PROVE  Orderly'
<1>1. Orderly
  BY DEF WalksInv
<1> QED
  BY <1>1, VirtualNumbers DEF Orderly, Absent, Present, IdentityPages

\* Page tables are never given up and pages never forgotten to be moved.
LEMMA MapGrows ==
  ASSUME OwnersInv, NEW v \in Nat, NEW entry, paging_map(v, entry) \/ paging_unmap(v)
  PROVE  Tables \subseteq Tables'
<1>1. CASE UNCHANGED page_directory
  BY <1>1 DEF Tables
<1>2. ASSUME NEW p, ~HasTable(v), page_directory' = WithTable(p, v)
      PROVE  Tables \subseteq Tables'
  BY <1>2, DirectoryWith
<1> QED
  BY <1>1, <1>2 DEF paging_map, paging_unmap, StoreEntry, NewTable

LEMMA MapKeepsWalks ==
  ASSUME OwnersInv, OwnersInv', WalksInv, paging = TRUE, fault = FALSE, NEW v \in Nat,
         NEW entry \in Entries, paging_map(v, entry), entry = Present(v) \/ v \in moved',
         moved \subseteq moved'
  PROVE  WalksInv'
<1>1. mem' \in [Virtual -> TableContents]
  BY MapTyped
<1>2. ASSUME Intact' PROVE Orderly'
  <2>1. Intact /\ Tables' \cap moved = {}
    BY <1>2, MapGrows DEF Intact
  <2>2. Tables \subseteq Nat /\ Tables' \subseteq Nat
    <3>1. Tables \subseteq Virtual /\ Tables' \subseteq Virtual'
      BY TableNumbers DEF OwnersInv, DirectoryInv, Tables, Virtual, Bits
    <3> QED
      BY <3>1, VirtualNumbers DEF Virtual
  <2>3. \/ Rewalked(v, entry) /\ \A t \in Tables' : Walk(t) = Present(t)
        \/ NotMapped(v)
    BY <2>1, MapRewalks
  <2>4. CASE Rewalked(v, entry) /\ \A t \in Tables' : Walk(t) = Present(t)
    BY <1>2, <2>1, <2>2, <2>4, RewalkKeepsOrder
  <2>5. CASE NotMapped(v)
    BY <2>1, <2>2, <2>5, SameWalksKeepOrder DEF NotMapped
  <2> QED
    BY <2>3, <2>4, <2>5
<1> QED
  BY <1>1, <1>2 DEF WalksInv, Virtual, TableContents, Entries

LEMMA SameMemoryKeepsWalks ==
  ASSUME OwnersInv, WalksInv, UNCHANGED <<page_directory, mem, paging>>, moved \subseteq moved'
  PROVE  WalksInv'
<1>1. Tables' = Tables /\ \A u \in Nat : Walk(u)' = Walk(u)
  BY WalkKept
<1>2. mem' \in [Virtual -> TableContents]
  BY DEF WalksInv
<1>3. ASSUME paging' = TRUE, Intact' PROVE Orderly'
  BY <1>1, <1>3, SameWalksKeepOrder, TableNumbers DEF Intact
<1> QED
  BY <1>2, <1>3 DEF WalksInv, Virtual, TableContents, Entries

LEMMA NextWalks == OwnersInv /\ OwnersInv' /\ WalksInv /\ [PagingNext]_pagingVars => WalksInv'
<1> SUFFICES ASSUME OwnersInv, OwnersInv', WalksInv, [PagingNext]_pagingVars PROVE WalksInv'
  OBVIOUS
<1>1. CASE UNCHANGED pagingVars
  BY <1>1, SameMemoryKeepsWalks DEF pagingVars, tableVars
<1>2. CASE paging_init
  <2>1. /\ \A v \in Nat : Walk(v)' = IF v \in IdentityPages THEN Present(v) ELSE Absent
        /\ mem' \in [Virtual -> TableContents] /\ Tables' \subseteq IdentityPages
    BY <1>2, InitMaps DEF WalksInv
  <2>2. Orderly'
    BY <2>1, VirtualNumbers DEF Orderly, IdentityPages, Present, Absent
  <2> QED
    BY <2>1, <2>2 DEF WalksInv, Virtual, TableContents, Entries
<1>3. CASE IdentityStep
  <2>1. /\ First(todo) \in Nat /\ paging = TRUE /\ fault = FALSE /\ UNCHANGED moved
        /\ paging_map(First(todo), Present(First(todo)))
    BY <1>3, FirstToDo DEF IdentityStep, OwnersInv, DirectoryInv
  <2> QED
    BY <2>1, EntriesTyped, MapKeepsWalks
<1>4. CASE OtherCallers
  BY <1>4, SameMemoryKeepsWalks DEF OtherCallers, tableVars
<1>5. ASSUME NEW v \in VirtPages, UnmapPage(v) PROVE WalksInv'
  <2>1. /\ v \in Nat /\ paging = TRUE /\ paging' = paging /\ fault = FALSE /\ paging_unmap(v)
        /\ moved' = moved \cup {v}
    BY <1>5, VirtualNumbers, IdleState DEF UnmapPage
  <2>2. mem' \in [Virtual -> TableContents]
    BY <2>1, EntriesTyped, MapTyped
  <2>3. ASSUME Intact' PROVE Orderly'
    <3>1. Tables \subseteq Tables'
      BY <2>1, MapGrows
    <3>2. Intact
      BY <2>1, <2>3, <3>1 DEF Intact
    <3>3. Rewalked(v, Absent) /\ Tables' = Tables
      BY <2>1, <3>2, UnmapRewalks
    <3>4. \A t \in Tables' : Walk(t) = Present(t)
      BY <2>1, <3>2, <3>3 DEF WalksInv, Orderly
    <3>5. Tables' \subseteq Nat /\ v \in moved' /\ moved \subseteq moved'
      BY <2>1, <3>3, TableNumbers
    <3> QED
      BY <2>1, <2>3, <3>2, <3>3, <3>4, <3>5, RewalkKeepsOrder
  <2> QED
    BY <2>1, <2>2, <2>3 DEF WalksInv, Virtual, TableContents, Entries
<1>6. ASSUME NEW v \in VirtPages, NEW frame \in Frames, NEW present \in BOOLEAN,
             MapPage(v, frame, present)
      PROVE  WalksInv'
  <2>1. /\ v \in Nat /\ frame \in Nat /\ paging = TRUE /\ fault = FALSE
        /\ paging_map(v, Entry(frame, present))
        /\ moved' = IF present /\ frame = v THEN moved ELSE moved \cup {v}
    BY <1>6, VirtualNumbers, IdleState, PagingAssumption DEF MapPage
  <2>2. /\ Entry(frame, present) \in Entries /\ moved \subseteq moved'
        /\ Entry(frame, present) = Present(v) \/ v \in moved'
    BY <2>1, EntriesTyped DEF Entry
  <2> HIDE DEF Entry
  <2> QED
    BY <2>1, <2>2, MapKeepsWalks
<1>7. ASSUME NEW start \in Starts, NEW size \in Lengths, IdentityMap(start, size) PROVE WalksInv'
  BY <1>7, SameMemoryKeepsWalks DEF IdentityMap
<1> QED
  BY <1>1, <1>2, <1>3, <1>4, <1>5, <1>6, <1>7 DEF PagingNext

\* paging_get_physical, which reads page tables through their addresses, agrees
\* with the processor at every page, and the first megabytes stay mapped to
\* themselves where no caller moved them, however much memory there is and wherever
\* callers map: as long as they keep the page tables where they are.
THEOREM SoftwareFollowsProcessor == PagingSpec => []SoftwareAgreesWithWalk
<1>1. OwnersInv /\ WalksInv => SoftwareAgreesWithWalk
  <2> SUFFICES ASSUME OwnersInv, WalksInv, paging, Intact
               PROVE  /\ \A v \in Virtual : paging_get_physical(v) = Walk(v)
                      /\ \A v \in IdentityPages \ moved : Walk(v) = Present(v)
    BY DEF SoftwareAgreesWithWalk
  <2>1. Orderly
    BY DEF OwnersInv, DirectoryInv, WalksInv
  <2>2. ASSUME NEW v \in Virtual PROVE paging_get_physical(v) = Walk(v)
    <3>1. v \in Nat
      BY VirtualNumbers
    <3>2. HasTable(v) => Walk(TableOf(v)) = Present(TableOf(v))
      BY <2>1, <3>1, TableNumbers DEF Orderly
    <3> QED
      BY <3>2, EntriesTyped DEF paging_get_physical, Walk, Present
  <2> QED
    BY <2>1, <2>2 DEF Orderly
<1> QED
  BY InitOwners, NextOwners, InitWalks, NextWalks, <1>1, PTL DEF PagingSpec

\* Calls that keep the page tables where they are, before they are made and after.
LEMMA IntactBefore ==
  ASSUME OwnersInv, NEW v \in Nat, NEW entry, paging_map(v, entry) \/ paging_unmap(v),
         moved \subseteq moved', Intact'
  PROVE  Intact /\ Tables' \cap moved = {}
BY MapGrows DEF Intact

\* What a call of each kind does to what the processor finds.
LEMMA MapPageRewalks ==
  ASSUME OwnersInv, WalksInv, Intact', fault' = FALSE, NEW v \in VirtPages, NEW frame \in Frames,
         NEW present \in BOOLEAN, MapPage(v, frame, present)
  PROVE  \/ Rewalked(v, Entry(frame, present))
         \/ NoMemory(v) /\ \A u \in Nat : Walk(u)' = Walk(u)
<1>1. /\ v \in Nat /\ frame \in Nat /\ paging = TRUE /\ fault = FALSE
      /\ paging_map(v, Entry(frame, present)) /\ moved \subseteq moved'
  BY VirtualNumbers, IdleState, PagingAssumption DEF MapPage
<1>2. Entry(frame, present) \in Entries
  BY <1>1, EntriesTyped DEF Entry
<1> HIDE DEF Entry
<1> QED
  BY <1>1, <1>2, IntactBefore, MapRewalks DEF NotMapped

LEMMA UnmapPageRewalks ==
  ASSUME OwnersInv, WalksInv, Intact', NEW v \in VirtPages, UnmapPage(v)
  PROVE  Rewalked(v, Absent)
<1>1. /\ v \in Nat /\ paging = TRUE /\ fault = FALSE /\ paging_unmap(v) /\ moved \subseteq moved'
  BY VirtualNumbers, IdleState DEF UnmapPage
<1> QED
  BY <1>1, IntactBefore, UnmapRewalks

LEMMA IdentityStepRewalks ==
  ASSUME OwnersInv, WalksInv, Intact', fault' = FALSE, IdentityStep
  PROVE  /\ First(todo) \in Virtual
         /\ \/ Rewalked(First(todo), Present(First(todo)))
            \/ NoMemory(First(todo)) /\ \A u \in Nat : Walk(u)' = Walk(u)
<1> DEFINE v == First(todo)
<1>1. /\ v \in Nat /\ v \in Virtual /\ paging = TRUE /\ fault = FALSE
      /\ paging_map(v, Present(v)) /\ moved \subseteq moved' /\ Present(v) \in Entries
  BY FirstToDo, EntriesTyped DEF IdentityStep, OwnersInv, DirectoryInv
<1> HIDE DEF v
<1>2. Rewalked(v, Present(v)) \/ (NoMemory(v) /\ \A u \in Nat : Walk(u)' = Walk(u))
  BY <1>1, IntactBefore, MapRewalks DEF NotMapped
<1> QED
  BY <1>1, <1>2 DEF v

\* After paging_map the processor finds the frame, or none without PAGE_PRESENT,
\* unless there was no page for a table; after paging_unmap it finds none.
THEOREM MappingsAreSeen == PagingSpec => MapIsSeen
<1> DEFINE Step == Intact' /\ ~fault' =>
                     \A v \in VirtPages :
                       /\ UnmapPage(v) => Walk(v)' = Absent
                       /\ \A frame \in Frames, present \in BOOLEAN :
                            MapPage(v, frame, present) =>
                              NoMemory(v) \/ Walk(v)' = Entry(frame, present)
<1>1. OwnersInv /\ OwnersInv' /\ WalksInv /\ [PagingNext]_pagingVars => [Step]_pagingVars
  <2> SUFFICES ASSUME OwnersInv, OwnersInv', WalksInv, Intact', ~fault', NEW v \in VirtPages
               PROVE  /\ UnmapPage(v) => Walk(v)' = Absent
                      /\ \A frame \in Frames, present \in BOOLEAN :
                           MapPage(v, frame, present) =>
                             NoMemory(v) \/ Walk(v)' = Entry(frame, present)
    OBVIOUS
  <2>1. v \in Nat /\ fault' = FALSE
    BY VirtualNumbers DEF OwnersInv, DirectoryInv
  <2> QED
    BY <2>1, MapPageRewalks, UnmapPageRewalks DEF Rewalked
<1> QED
  BY InitOwners, NextOwners, InitWalks, NextWalks, <1>1, PTL DEF PagingSpec, MapIsSeen

-----------------------------------------------------------------------------
(* Paging implements the address space                                     *)

Mapping == [v \in {u \in Virtual : Walk(u).present} |-> Walk(v).frame]

\* Entries are absent, which is one entry, or present; so is what the walk finds.
LEMMA MappingEmpty ==
  ASSUME page_directory = NoTables
  PROVE  Mapping = [v \in {} |-> v]
<1>1. \A v : Walk(v) = Absent
  BY DEF Walk, HasTable, NoTables
<1>2. {u \in Virtual : Walk(u).present} = {}
  BY <1>1, EntriesTyped
<1> QED
  BY <1>2 DEF Mapping

LEMMA RewalkMaps ==
  ASSUME NEW v \in Virtual, NEW frame \in Nat, Rewalked(v, Present(frame))
  PROVE  Mapping' = [u \in DOMAIN Mapping \cup {v} |-> IF u = v THEN frame ELSE Mapping[u]]
<1> DEFINE new == [u \in DOMAIN Mapping \cup {v} |-> IF u = v THEN frame ELSE Mapping[u]]
<1>1. \A u \in Virtual : Walk(u)' = IF u = v THEN Present(frame) ELSE Walk(u)
  BY VirtualNumbers DEF Rewalked
<1>2. Mapping' = [u \in {w \in Virtual : Walk(w)'.present} |-> Walk(u)'.frame]
  BY DEF Mapping, Virtual
<1>3. {w \in Virtual : Walk(w)'.present} = {w \in Virtual : Walk(w).present} \cup {v}
  BY <1>1, EntriesTyped
<1>4. DOMAIN Mapping = {w \in Virtual : Walk(w).present}
  BY DEF Mapping
<1>5. ASSUME NEW u \in DOMAIN Mapping \cup {v}
      PROVE  Walk(u)'.frame = IF u = v THEN frame ELSE Mapping[u]
  BY <1>1, <1>4, <1>5, EntriesTyped DEF Mapping
<1> QED
  BY <1>2, <1>3, <1>4, <1>5

LEMMA RewalkUnmaps ==
  ASSUME NEW v \in Virtual, Rewalked(v, Absent)
  PROVE  Mapping' = [u \in DOMAIN Mapping \ {v} |-> Mapping[u]]
<1>1. \A u \in Virtual : Walk(u)' = IF u = v THEN Absent ELSE Walk(u)
  BY VirtualNumbers DEF Rewalked
<1>2. Mapping' = [u \in {w \in Virtual : Walk(w)'.present} |-> Walk(u)'.frame]
  BY DEF Mapping, Virtual
<1>3. {w \in Virtual : Walk(w)'.present} = {w \in Virtual : Walk(w).present} \ {v}
  BY <1>1, EntriesTyped
<1>4. DOMAIN Mapping = {w \in Virtual : Walk(w).present}
  BY DEF Mapping
<1>5. ASSUME NEW u \in DOMAIN Mapping \ {v} PROVE Walk(u)'.frame = Mapping[u]
  BY <1>1, <1>4, <1>5 DEF Mapping
<1> QED
  BY <1>2, <1>3, <1>4, <1>5

LEMMA SameWalksSameMapping ==
  ASSUME \A u \in Nat : Walk(u)' = Walk(u)
  PROVE  Mapping' = Mapping
<1>1. \A u \in Virtual : Walk(u)' = Walk(u)
  BY VirtualNumbers
<1>2. Mapping' = [u \in {w \in Virtual : Walk(w)'.present} |-> Walk(u)'.frame]
  BY DEF Mapping, Virtual
<1>3. {w \in Virtual : Walk(w)'.present} = {w \in Virtual : Walk(w).present}
  BY <1>1
<1> QED
  BY <1>1, <1>2, <1>3 DEF Mapping

LEMMA InitMapping ==
  ASSUME \A v \in Nat : Walk(v)' = IF v \in IdentityPages THEN Present(v) ELSE Absent
  PROVE  Mapping' = [v \in IdentityPages |-> v]
<1>1. \A u \in Virtual : Walk(u)' = IF u \in IdentityPages THEN Present(u) ELSE Absent
  BY VirtualNumbers
<1>2. Mapping' = [u \in {w \in Virtual : Walk(w)'.present} |-> Walk(u)'.frame]
  BY DEF Mapping, Virtual
<1>3. {w \in Virtual : Walk(w)'.present} = IdentityPages
  BY <1>1, EntriesTyped, VirtualNumbers
<1>4. \A u \in IdentityPages : Walk(u)'.frame = u
  BY <1>1, EntriesTyped, VirtualNumbers
<1> QED
  BY <1>2, <1>3, <1>4

\* What a call of paging_map is for the address space, by its flags: without a table
\* the processor finds nothing at the page, so there is nothing to take away.
LEMMA MapStep ==
  ASSUME NEW v \in Virtual, NEW frame \in Nat, NEW present \in BOOLEAN,
         \/ Rewalked(v, Entry(frame, present))
         \/ NoMemory(v) /\ \A u \in Nat : Walk(u)' = Walk(u)
  PROVE  /\ present = TRUE => Space!Map(v, frame) \/ (NoMemory(v) /\ Space!Keep)
         /\ present = FALSE => Space!Unmap(v)
<1>1. CASE Rewalked(v, Entry(frame, present))
  BY <1>1, RewalkMaps, RewalkUnmaps DEF Entry, Space!Map, Space!Unmap, Mapping
<1>2. CASE NoMemory(v) /\ \A u \in Nat : Walk(u)' = Walk(u)
  <2>1. Walk(v) = Absent
    BY <1>2 DEF NoMemory, Walk
  <2>2. Rewalked(v, Absent)
    BY <1>2, <2>1 DEF Rewalked
  <2>3. Space!Keep /\ Space!Unmap(v)
    BY <1>2, <2>2, RewalkUnmaps, SameWalksSameMapping DEF Space!Keep, Space!Unmap, Mapping
  <2> QED
    BY <1>2, <2>3
<1> QED
  BY <1>1, <1>2

\* Page tables, the identity map's first, and the pages they are in are hidden: what
\* callers see is a map from pages to frames that each call changes at the page it
\* names and nowhere else, as long as they keep the page tables where they are.
THEOREM PagingImplementsAddressSpace == PagingSpec => ImplementsAddressSpace
<1> DEFINE Step ==
      Intact' /\ ~fault' =>
        /\ paging_init => Space!Enable
        /\ \A v \in VirtPages :
             /\ UnmapPage(v) => Space!Unmap(v)
             /\ \A frame \in Frames :
                  /\ MapPage(v, frame, TRUE) => \/ Space!Map(v, frame)
                                                \/ NoMemory(v) /\ Space!Keep
                  /\ MapPage(v, frame, FALSE) => Space!Unmap(v)
        /\ IdentityStep => \/ Space!Map(First(todo), First(todo))
                           \/ NoMemory(First(todo)) /\ Space!Keep
        /\ OtherCallers => Space!Keep
<1>1. PagingInit => Space!Init
  BY MappingEmpty DEF PagingInit, NoTables, Space!Init, Mapping
<1>2. OwnersInv /\ OwnersInv' /\ WalksInv /\ [PagingNext]_pagingVars => [Step]_pagingVars
  <2> SUFFICES ASSUME OwnersInv, OwnersInv', WalksInv, Intact', ~fault'
               PROVE  Step
    OBVIOUS
  <2>1. fault' = FALSE
    BY DEF OwnersInv, DirectoryInv
  <2>2. ASSUME paging_init PROVE Space!Enable
    BY <2>2, InitMaps, InitMapping DEF WalksInv, Space!Enable, Mapping
  <2>3. ASSUME NEW v \in VirtPages, UnmapPage(v) PROVE Space!Unmap(v)
    BY <2>3, UnmapPageRewalks, RewalkUnmaps, VirtualNumbers DEF Space!Unmap, Mapping
  <2>4. ASSUME NEW v \in VirtPages, NEW frame \in Frames, NEW present \in BOOLEAN,
               MapPage(v, frame, present)
        PROVE  /\ present = TRUE => Space!Map(v, frame) \/ (NoMemory(v) /\ Space!Keep)
               /\ present = FALSE => Space!Unmap(v)
    <3>1. v \in Virtual /\ frame \in Nat
      BY VirtualNumbers, PagingAssumption
    <3> QED
      BY <2>1, <2>4, <3>1, MapPageRewalks, MapStep
  <2>5. ASSUME IdentityStep
        PROVE  Space!Map(First(todo), First(todo)) \/ (NoMemory(First(todo)) /\ Space!Keep)
    <3> DEFINE v == First(todo)
    <3>1. /\ v \in Virtual /\ v \in Nat
          /\ Rewalked(v, Present(v)) \/ (NoMemory(v) /\ \A u \in Nat : Walk(u)' = Walk(u))
      BY <2>1, <2>5, IdentityStepRewalks, VirtualNumbers
    <3>2. Entry(v, TRUE) = Present(v)
      BY DEF Entry
    <3> HIDE DEF v
    <3>3. Space!Map(v, v) \/ (NoMemory(v) /\ Space!Keep)
      BY <3>1, <3>2, MapStep
    <3> QED
      BY <3>3 DEF v
  <2>6. ASSUME OtherCallers PROVE Space!Keep
    BY <2>6, WalkKept, SameWalksSameMapping DEF OtherCallers, tableVars, Space!Keep, Mapping
  <2> QED
    BY <2>2, <2>3, <2>4, <2>5, <2>6
<1> HIDE DEF Step
<1>3. ImplementsAddressSpace <=> Space!Init /\ [][Step]_pagingVars
  BY DEF ImplementsAddressSpace, Step
<1> QED
  BY InitOwners, NextOwners, InitWalks, NextWalks, <1>1, <1>2, <1>3, PTL DEF PagingSpec
=============================================================================
