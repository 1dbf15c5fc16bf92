----------------------------- MODULE HeapProofs -----------------------------
(***************************************************************************)
(* Theorems about Heap, for any geometry of the page tables, any programs     *)
(* linked below the kernel and any sequence of calls.  What makes the blocks   *)
(* and the lists right only holds between two calls; inside free the merged    *)
(* block is in no list yet, and may have an unused neighbour: the sets E and C *)
(* of NoPair and FilesBut name the blocks that are excepted on the way.        *)
(***************************************************************************)
EXTENDS Heap, TaskQueueProofs, FiniteSetTheorems

-----------------------------------------------------------------------------
(* Numbers, pages and page tables.  PagesOK and MemoryOK are the type of a memory. *)

HeaderType ==
  [size : Nat \ {0}, req : Nat, used : BOOLEAN, index : Classes, heap : Heaps,
   flink : Nat, blink : Nat, page_flink : Nat, page_blink : Nat]

\* Every page that is mapped has a table.
PagesOK(m) ==
  /\ m.tables \subseteq 0..SelfMap
  /\ m.mapped \subseteq Pages
  /\ \A page \in m.mapped : TableOf(page) \in m.tables

MemoryFields == {"tables", "mapped", "status", "hdr", "free_blocks", "complete_pages"}

Whole(m) == m = [field \in MemoryFields |-> m[field]]

\* What a memory is made of.
MemoryOK(m) ==
  /\ Whole(m)
  /\ m.hdr \in [DOMAIN m.hdr -> HeaderType]
  /\ DOMAIN m.hdr \subseteq Nat /\ IsFiniteSet(DOMAIN m.hdr)
  /\ m.free_blocks \in [Heaps -> [Classes -> Nat]]
  /\ m.complete_pages \in [Heaps -> [Classes -> 0..255]]
  /\ PagesOK(m)

\* The constants.
LEMMA Constants ==
  /\ TableSize \in Nat /\ TableSize >= 3
  /\ KernelEntry \in Nat /\ KernelEntry >= 1 /\ KernelEntry < SelfMap
  /\ SelfMap \in Nat /\ SelfMap = TableSize - 1
  /\ PageSize \in Nat /\ PageSize >= 1
  /\ KernelImage \in Nat /\ KernelImage >= 1
  /\ NULL = 0 /\ S = 1 /\ Classes = 0..7
<1>1. KernelEntry * TableSize \in Nat /\ KernelEntry * TableSize >= 1
  BY TablesAssumption
<1>. QED
  BY <1>1, TablesAssumption DEF SelfMap, KernelImage, NULL, S, Classes

\* Division by a number above 0.
LEMMA Division ==
  ASSUME NEW x \in Nat, NEW n \in Nat \ {0}
  PROVE  /\ x \div n \in Nat /\ x % n \in 0..(n - 1)
         /\ n * (x \div n) \in Nat /\ x = n * (x \div n) + (x % n)
         /\ n * (x \div n) <= x /\ x < n * (x \div n) + n
OBVIOUS

\* A multiple is its quotient times the number.
LEMMA Multiple ==
  ASSUME NEW x \in Nat, NEW n \in Nat \ {0}, x % n = 0
  PROVE  x \div n \in Nat /\ n * (x \div n) \in Nat /\ x = n * (x \div n)
<1>. DEFINE d == x \div n
            e == x % n
<1>1. d \in Nat /\ n * d \in Nat /\ x = n * d + e
  BY Division
<1>2. e = 0
  OBVIOUS
<1>. HIDE DEF d, e
<1>3. x = n * d
  BY <1>1, <1>2
<1>. QED
  BY <1>1, <1>3 DEF d

\* A product grows with a factor.
LEMMA ProductMonotone ==
  ASSUME NEW n \in Nat, NEW x \in Nat, NEW y \in Nat, x <= y
  PROVE  n * x \in Nat /\ n * y \in Nat /\ n * x <= n * y
OBVIOUS

\* The quotient is the only one.
LEMMA Quotient ==
  ASSUME NEW x \in Nat, NEW n \in Nat \ {0}, NEW q \in Nat, n * q <= x, x < n * q + n
  PROVE  x \div n = q /\ x % n = x - n * q
<1>. DEFINE d == x \div n
<1>1. d \in Nat /\ n * d <= x /\ x < n * d + n /\ x % n = x - n * d
  OBVIOUS
<1>. HIDE DEF d
<1>2. ~ (d + 1 <= q)
  <2>1. n * (d + 1) = n * d + n
    BY <1>1
  <2>. QED
    BY <1>1, <2>1, ProductMonotone
<1>3. ~ (q + 1 <= d)
  <2>1. n * (q + 1) = n * q + n
    OBVIOUS
  <2>. QED
    BY <1>1, <2>1, ProductMonotone
<1>4. d = q
  BY <1>1, <1>2, <1>3
<1>. QED
  BY <1>1, <1>4 DEF d

\* A quotient grows with what is divided.
LEMMA QuotientMonotone ==
  ASSUME NEW x \in Nat, NEW y \in Nat, x <= y, NEW n \in Nat \ {0}
  PROVE  x \div n <= y \div n
OBVIOUS

\* A page is one of the machine's if its table is.
LEMMA PagesOfTables ==
  ASSUME NEW page \in Nat
  PROVE  /\ TableOf(page) \in Nat
         /\ page \in Pages <=> TableOf(page) <= SelfMap
<1>. DEFINE d == TableOf(page)
<1>1. d \in Nat /\ TableSize * d <= page /\ page < TableSize * d + TableSize
  BY Constants, Division DEF TableOf
<1>. HIDE DEF d
<1>2. SelfMap \in Nat /\ TableSize \in Nat /\ TableSize * TableSize = TableSize * SelfMap + TableSize
  BY Constants
<1>3. ASSUME d <= SelfMap PROVE page < TableSize * TableSize
  <2>1. TableSize * d <= TableSize * SelfMap
    BY <1>1, <1>2, <1>3, ProductMonotone
  <2>. QED
    BY <1>1, <1>2, <2>1
<1>4. ASSUME page < TableSize * TableSize PROVE d <= SelfMap
  <2>. SUFFICES ASSUME SelfMap + 1 <= d PROVE FALSE
    BY <1>1, <1>2
  <2>1. TableSize * (SelfMap + 1) <= TableSize * d
    BY <1>1, <1>2, ProductMonotone
  <2>2. TableSize * (SelfMap + 1) = TableSize * SelfMap + TableSize
    BY <1>2
  <2>. QED
    BY <1>1, <1>2, <1>4, <2>1, <2>2
<1>. QED
  BY <1>1, <1>2, <1>3, <1>4 DEF Pages, d

\* What FiniteSetsExt's Min is.
LEMMA MinOf ==
  ASSUME NEW N, N \subseteq Nat, N # {}
  PROVE  Min(N) \in N /\ \A x \in N : Min(N) <= x
BY LeastElement DEF Min

\* What page_map leaves of the rest of the memory.
LEMMA PageMapAtKeeps ==
  ASSUME NEW m, MemoryOK(m), NEW page \in Pages, NEW n \in Nat
  PROVE  LET r == PageMapAt(m, page, n) IN
         /\ MemoryOK(r)
         /\ r.hdr = m.hdr /\ r.free_blocks = m.free_blocks
         /\ r.complete_pages = m.complete_pages
         /\ m.mapped \subseteq r.mapped /\ r.mapped \subseteq m.mapped \cup Run(page, n)
         /\ r.status \in {m.status, "fault"}
<1>. DEFINE ready == PdAssignTable(m, TableOf(page))
            bad == {q \in Run(page, n) : q \in m.mapped \/ TableOf(q) \notin ready.tables}
            new == IF bad = {} THEN Run(page, n) ELSE page..(Min(bad) - 1)
            mapped == [ready EXCEPT !.mapped = @ \cup new]
            r == PageMapAt(m, page, n)
<1>1. r = IF bad # {} /\ Min(bad) \notin m.mapped THEN Stop(mapped, "fault") ELSE mapped
  BY DEF PageMapAt
<1>2. ready = [m EXCEPT !.tables = @ \cup {TableOf(page)}]
  BY DEF PdAssignTable
<1>3. page \in Nat /\ Run(page, n) = page..(page + n - 1) /\ Run(page, n) \subseteq Nat
  BY Constants DEF Pages, Run
<1>4. /\ \A q \in new : q \in Run(page, n) /\ q \notin bad
  <2>1. bad \subseteq Nat
    BY <1>3
  <2>. HIDE DEF bad
  <2>2. CASE bad = {}
    BY <2>2
  <2>3. CASE bad # {}
    <3>1. Min(bad) \in bad /\ \A x \in bad : Min(bad) <= x
      BY <2>1, <2>3, MinOf
    <3>2. Min(bad) \in Run(page, n)
      BY <3>1 DEF bad
    <3>3. \A q \in page..(Min(bad) - 1) : q \in Run(page, n) /\ ~(Min(bad) <= q)
      BY <1>3, <3>2
    <3>. QED
      BY <2>3, <3>1, <3>3
  <2>. QED
    BY <2>2, <2>3
<1>5. /\ ready.tables = m.tables \cup {TableOf(page)}
      /\ ready.mapped = m.mapped /\ ready.status = m.status /\ ready.hdr = m.hdr
      /\ ready.free_blocks = m.free_blocks /\ ready.complete_pages = m.complete_pages
      /\ Whole(ready)
  BY <1>2 DEF MemoryOK, Whole, MemoryFields
<1>6. \A q \in new : TableOf(q) \in ready.tables
  BY <1>4
<1>. HIDE DEF ready, bad, new
<1>7. /\ mapped.tables = m.tables \cup {TableOf(page)}
      /\ mapped.mapped = m.mapped \cup new /\ mapped.status = m.status /\ mapped.hdr = m.hdr
      /\ mapped.free_blocks = m.free_blocks /\ mapped.complete_pages = m.complete_pages
      /\ Whole(mapped)
  BY <1>5 DEF Whole, MemoryFields
<1>8. TableOf(page) \in 0..SelfMap
  BY <1>3, PagesOfTables, Constants
<1>9. m.tables \subseteq 0..SelfMap /\ m.mapped \subseteq Pages /\ \A q \in m.mapped : TableOf(q) \in m.tables
  BY DEF MemoryOK, PagesOK
<1>10. ASSUME NEW q \in new PROVE q \in Pages /\ TableOf(q) \in mapped.tables
  BY <1>3, <1>4, <1>5, <1>6, <1>7, <1>8, <1>9, PagesOfTables, Constants
<1>. HIDE DEF mapped
<1>11. PagesOK(mapped)
  BY <1>7, <1>8, <1>9, <1>10 DEF PagesOK
<1>12. MemoryOK(mapped)
  BY <1>7, <1>11 DEF MemoryOK
<1>13. /\ r.tables = mapped.tables /\ r.mapped = mapped.mapped /\ r.hdr = m.hdr
       /\ r.free_blocks = m.free_blocks /\ r.complete_pages = m.complete_pages
       /\ r.status \in {m.status, "fault"}
       /\ Whole(r)
  BY <1>1, <1>7 DEF Stop, Whole, MemoryFields
<1>. HIDE DEF r
<1>14. MemoryOK(r)
  BY <1>12, <1>13 DEF MemoryOK, PagesOK
<1>. QED
  BY <1>4, <1>7, <1>13, <1>14 DEF r

\* Where page_get_free_addr finds room, it finds pages of one table that nobody has.
LEMMA RoomFound ==
  ASSUME NEW m, MemoryOK(m), m.status = "running", NEW n \in 1..TableSize,
         NEW kernel \in BOOLEAN,
         PageGetFreeAddr(m, n, kernel).m.status = "running"
  PROVE  LET free == PageGetFreeAddr(m, n, kernel) IN
         /\ free.m = m /\ free.page \in Pages
         /\ kernel => KernelImage <= free.page
         /\ Run(free.page, n) \cap m.mapped = {}
         /\ \A page \in Run(free.page, n) : TableOf(page) = TableOf(free.page)
<1>. DEFINE tables == TablesWithRoom(m, n, kernel)
            d == Min(tables)
            rooms == Rooms(m, d, n)
            lo == IF kernel THEN KernelEntry ELSE 0
<1>1. TableSize \in Nat /\ TableSize >= 3 /\ SelfMap = TableSize - 1 /\ n \in Nat /\ lo \in Nat
  BY Constants
<1>2. tables # {} /\ PageGetFreeAddr(m, n, kernel) = [m |-> m, page |-> Min(rooms)]
  <2>1. ~ (n > TableSize)
    BY <1>1
  <2>2. m.status = "running" => Stop(m, "selfmap").status # "running"
    BY DEF Stop, MemoryOK, Whole, MemoryFields
  <2>. QED
    BY <2>1, <2>2 DEF PageGetFreeAddr
<1>3. d \in tables
  <2>1. tables \subseteq Nat
    BY <1>1 DEF TablesWithRoom
  <2>. QED
    BY <1>2, <2>1, MinOf
<1>. HIDE DEF d
<1>4. d \in lo..(SelfMap - 1) /\ rooms # {} /\ d \in Nat
  BY <1>1, <1>3 DEF TablesWithRoom
<1>. HIDE DEF tables
<1>5. d * TableSize \in Nat /\ d * TableSize = TableSize * d
  BY <1>1, <1>4
<1>. DEFINE first == d * TableSize
<1>6. \A page \in first..(first + TableSize - 1) : page \in Pages /\ TableOf(page) = d
  <2>. TAKE page \in first..(first + TableSize - 1)
  <2>1. page \in Nat /\ TableSize * d <= page /\ page < TableSize * d + TableSize
    BY <1>1, <1>5
  <2>2. page \div TableSize = d
    <3>. HIDE DEF first
    <3>1. TableSize \in Nat \ {0} /\ d \in Nat
      BY <1>1, <1>4
    <3>. QED
      BY <2>1, <3>1, Quotient
  <2>. QED
    BY <1>1, <1>4, <2>1, <2>2, PagesOfTables DEF TableOf
<1>7. ASSUME NEW page \in rooms
      PROVE  /\ page \in first..(first + TableSize - 1)
             /\ page + n <= first + TableSize
             /\ Run(page, n) \cap m.mapped = {}
  <2>1. CASE PageIsEmpty(m, d)
    <3>1. page = first
      BY <2>1 DEF Rooms
    <3>2. \A q \in m.mapped : TableOf(q) # d
      BY <2>1 DEF PageIsEmpty, MemoryOK, PagesOK
    <3>. QED
      BY <1>1, <1>5, <1>6, <3>1, <3>2 DEF Run
  <2>2. CASE ~PageIsEmpty(m, d)
    <3>1. page \in first..(first + (TableSize - n + 1) - 1) /\ Run(page, n) \cap m.mapped = {}
      BY <2>2 DEF Rooms, Run
    <3>. QED
      BY <1>1, <1>5, <3>1
  <2>. QED
    BY <2>1, <2>2
<1>8. Min(rooms) \in rooms
  <2>1. rooms \subseteq Nat
    BY <1>1, <1>5, <1>7
  <2>. QED
    BY <1>4, <2>1, MinOf
<1>. DEFINE page == Min(rooms)
<1>. HIDE DEF rooms
<1>9. kernel => KernelImage <= first
  <2>1. kernel => TableSize * KernelEntry <= TableSize * d
    BY <1>1, <1>4, Constants, ProductMonotone
  <2>2. KernelImage = TableSize * KernelEntry
    BY Constants DEF KernelImage
  <2>. QED
    BY <1>5, <2>1, <2>2
<1>10. page \in first..(first + TableSize - 1) /\ page + n <= first + TableSize
       /\ Run(page, n) \cap m.mapped = {}
  BY <1>7, <1>8
<1>11. page \in Pages /\ TableOf(page) = d
  BY <1>6, <1>10
<1>12. \A q \in Run(page, n) : q \in first..(first + TableSize - 1)
  BY <1>1, <1>5, <1>10 DEF Run
<1>13. \A q \in Run(page, n) : TableOf(q) = TableOf(page)
  BY <1>6, <1>11, <1>12
<1>14. kernel => KernelImage <= page
  BY <1>5, <1>9, <1>10, Constants
<1>. HIDE DEF page
<1>. QED
  BY <1>2, <1>10, <1>11, <1>13, <1>14 DEF page

\* There, page_map maps all the pages.
LEMMA RoomMapped ==
  ASSUME NEW m, MemoryOK(m), NEW page \in Pages, NEW n \in Nat,
         Run(page, n) \cap m.mapped = {},
         \A q \in Run(page, n) : TableOf(q) = TableOf(page)
  PROVE  LET r == PageMapAt(m, page, n) IN
         r.status = m.status /\ r.mapped = m.mapped \cup Run(page, n)
<1>. DEFINE ready == PdAssignTable(m, TableOf(page))
            bad == {q \in Run(page, n) : q \in m.mapped \/ TableOf(q) \notin ready.tables}
<1>1. ready.tables = m.tables \cup {TableOf(page)} /\ ready.mapped = m.mapped /\ ready.status = m.status
      /\ Whole(ready)
  BY DEF PdAssignTable, MemoryOK, Whole, MemoryFields
<1>2. bad = {}
  BY <1>1
<1>3. PageMapAt(m, page, n) = [ready EXCEPT !.mapped = @ \cup Run(page, n)]
  BY <1>2 DEF PageMapAt
<1>. HIDE DEF ready
<1>. QED
  BY <1>1, <1>3 DEF Whole, MemoryFields

\* What page_unmap leaves.
LEMMA PageUnmapKeeps ==
  ASSUME NEW m, MemoryOK(m), NEW page \in Nat, NEW n \in Nat
  PROVE  LET r == PageUnmap(m, page, n) IN
         /\ MemoryOK(r)
         /\ r.hdr = m.hdr /\ r.free_blocks = m.free_blocks
         /\ r.complete_pages = m.complete_pages
         /\ r.status \in {m.status, "fault"}
         /\ r.mapped \subseteq m.mapped
<1>. DEFINE cleared == [m EXCEPT !.mapped = @ \ Run(page, n)]
            d == TableOf(page)
            removed == [cleared EXCEPT !.tables = @ \ {d}, !.mapped = {q \in @ : TableOf(q) # d}]
            stopped == [cleared EXCEPT !.status = "fault"]
            r == PageUnmap(m, page, n)
<1>1. r \in {cleared, removed, stopped}
  BY DEF PageUnmap, PdRemoveEntry, Stop
<1>2. /\ cleared.hdr = m.hdr /\ cleared.free_blocks = m.free_blocks
      /\ cleared.complete_pages = m.complete_pages /\ cleared.tables = m.tables
      /\ cleared.mapped = m.mapped \ Run(page, n) /\ cleared.status = m.status
      /\ Whole(cleared)
  BY DEF MemoryOK, Whole, MemoryFields
<1>3. MemoryOK(cleared)
  BY <1>2 DEF MemoryOK, PagesOK
<1>. HIDE DEF cleared
<1>4. /\ removed.hdr = m.hdr /\ removed.free_blocks = m.free_blocks
      /\ removed.complete_pages = m.complete_pages /\ removed.tables = cleared.tables \ {d}
      /\ removed.mapped = {q \in cleared.mapped : TableOf(q) # d} /\ removed.status = m.status
      /\ Whole(removed)
  BY <1>2 DEF Whole, MemoryFields
<1>5. MemoryOK(removed)
  BY <1>3, <1>4 DEF MemoryOK, PagesOK
<1>6. /\ stopped.hdr = m.hdr /\ stopped.free_blocks = m.free_blocks
      /\ stopped.complete_pages = m.complete_pages /\ stopped.tables = cleared.tables
      /\ stopped.mapped = cleared.mapped /\ stopped.status = "fault"
      /\ Whole(stopped)
  BY <1>2 DEF Whole, MemoryFields
<1>7. MemoryOK(stopped)
  BY <1>3, <1>6 DEF MemoryOK, PagesOK
<1>. HIDE DEF removed, stopped, r
<1>. QED
  BY <1>1, <1>2, <1>3, <1>4, <1>5, <1>6, <1>7 DEF r

\* page_unmap takes its pages away, and at most the table they are in.
LEMMA PageUnmapLoses ==
  ASSUME NEW m, MemoryOK(m), NEW page, NEW n, NEW r, r = PageUnmap(m, page, n)
  PROVE  \A q \in m.mapped \ r.mapped :
           q \in Run(page, n) \/ (TableOf(q) = TableOf(page) /\ TableOf(page) \notin r.tables)
<1>. DEFINE cleared == [m EXCEPT !.mapped = @ \ Run(page, n)]
            d == TableOf(page)
            removed == [cleared EXCEPT !.tables = @ \ {d}, !.mapped = {q \in @ : TableOf(q) # d}]
            stopped == [cleared EXCEPT !.status = "fault"]
<1>1. r \in {cleared, removed, stopped}
  BY DEF PageUnmap, PdRemoveEntry, Stop
<1>2. cleared.mapped = m.mapped \ Run(page, n) /\ Whole(cleared)
  BY DEF MemoryOK, Whole, MemoryFields
<1>. HIDE DEF cleared
<1>3. /\ removed.tables = cleared.tables \ {d}
      /\ removed.mapped = {q \in cleared.mapped : TableOf(q) # d}
  BY <1>2 DEF Whole, MemoryFields
<1>4. stopped.mapped = cleared.mapped
  BY <1>2 DEF Whole, MemoryFields
<1>. HIDE DEF removed, stopped
<1>. QED
  BY <1>1, <1>2, <1>3, <1>4

-----------------------------------------------------------------------------
(* What the helpers of the heaps write, field by field. *)

\* Two memories with the same pages and counters.
SamePages(r, m) ==
  /\ r.tables = m.tables /\ r.mapped = m.mapped /\ r.status = m.status
  /\ r.complete_pages = m.complete_pages

\* Two memories with the same blocks, which may be in other lists.
SameBlocks(r, m) ==
  /\ DOMAIN r.hdr = DOMAIN m.hdr
  /\ \A x \in DOMAIN m.hdr :
       /\ r.hdr[x].size = m.hdr[x].size /\ r.hdr[x].req = m.hdr[x].req
       /\ r.hdr[x].used = m.hdr[x].used /\ r.hdr[x].heap = m.hdr[x].heap
       /\ r.hdr[x].page_flink = m.hdr[x].page_flink
       /\ r.hdr[x].page_blink = m.hdr[x].page_blink

\* A memory whose headers are replaced.
LEMMA WithHeaders ==
  ASSUME NEW m, MemoryOK(m), NEW f, f \in [DOMAIN f -> HeaderType],
         DOMAIN f \subseteq Nat, IsFiniteSet(DOMAIN f)
  PROVE  LET r == [m EXCEPT !.hdr = f] IN
         /\ MemoryOK(r) /\ r.hdr = f /\ SamePages(r, m) /\ r.free_blocks = m.free_blocks
<1>. DEFINE r == [m EXCEPT !.hdr = f]
<1>1. /\ Whole(r) /\ r.hdr = f /\ r.tables = m.tables /\ r.mapped = m.mapped
      /\ r.status = m.status /\ r.complete_pages = m.complete_pages /\ r.free_blocks = m.free_blocks
  BY DEF MemoryOK, Whole, MemoryFields
<1>. HIDE DEF r
<1>2. MemoryOK(r)
  BY <1>1 DEF MemoryOK, PagesOK
<1>. QED
  BY <1>1, <1>2 DEF r, SamePages

\* A memory whose lists are replaced.
LEMMA WithLists ==
  ASSUME NEW m, MemoryOK(m), NEW l \in [Heaps -> [Classes -> Nat]]
  PROVE  LET r == [m EXCEPT !.free_blocks = l] IN
         /\ MemoryOK(r) /\ r.hdr = m.hdr /\ SamePages(r, m) /\ r.free_blocks = l
<1>. DEFINE r == [m EXCEPT !.free_blocks = l]
<1>1. /\ Whole(r) /\ r.hdr = m.hdr /\ r.tables = m.tables /\ r.mapped = m.mapped
      /\ r.status = m.status /\ r.complete_pages = m.complete_pages /\ r.free_blocks = l
  BY DEF MemoryOK, Whole, MemoryFields
<1>. HIDE DEF r
<1>2. MemoryOK(r)
  BY <1>1 DEF MemoryOK, PagesOK
<1>. QED
  BY <1>1, <1>2 DEF r, SamePages

\* A memory whose counters are replaced.
LEMMA WithCounters ==
  ASSUME NEW m, MemoryOK(m), NEW c \in [Heaps -> [Classes -> 0..255]]
  PROVE  LET r == [m EXCEPT !.complete_pages = c] IN
         /\ MemoryOK(r) /\ r.hdr = m.hdr /\ r.free_blocks = m.free_blocks
         /\ r.tables = m.tables /\ r.mapped = m.mapped /\ r.status = m.status
         /\ r.complete_pages = c
<1>. DEFINE r == [m EXCEPT !.complete_pages = c]
<1>1. /\ Whole(r) /\ r.hdr = m.hdr /\ r.tables = m.tables /\ r.mapped = m.mapped
      /\ r.status = m.status /\ r.complete_pages = c /\ r.free_blocks = m.free_blocks
  BY DEF MemoryOK, Whole, MemoryFields
<1>. HIDE DEF r
<1>2. MemoryOK(r)
  BY <1>1 DEF MemoryOK, PagesOK
<1>. QED
  BY <1>1, <1>2 DEF r

\* A memory that stops.
LEMMA Stopped ==
  ASSUME NEW m, MemoryOK(m), NEW status
  PROVE  LET r == Stop(m, status) IN
         /\ MemoryOK(r) /\ r.hdr = m.hdr /\ r.free_blocks = m.free_blocks
         /\ r.tables = m.tables /\ r.mapped = m.mapped
         /\ r.complete_pages = m.complete_pages
         /\ r.status = IF m.status = "running" THEN status ELSE m.status
<1>. DEFINE r == Stop(m, status)
<1>1. /\ Whole(r) /\ r.hdr = m.hdr /\ r.tables = m.tables /\ r.mapped = m.mapped
      /\ r.complete_pages = m.complete_pages /\ r.free_blocks = m.free_blocks
      /\ r.status = IF m.status = "running" THEN status ELSE m.status
  BY DEF MemoryOK, Whole, MemoryFields, Stop
<1>. HIDE DEF r
<1>2. MemoryOK(r)
  BY <1>1 DEF MemoryOK, PagesOK
<1>. QED
  BY <1>1, <1>2 DEF r

Links == {"flink", "blink", "page_flink", "page_blink"}

\* r is m, but for what a pointer to p writes to a field.
Writes(r, m, p, field, v) ==
  /\ SamePages(r, m) /\ r.free_blocks = m.free_blocks
  /\ DOMAIN r.hdr = DOMAIN m.hdr
  /\ \A x \in DOMAIN m.hdr : \A g \in DOMAIN m.hdr[x] :
       r.hdr[x][g] = IF x = p /\ p # NULL /\ g = field THEN v ELSE m.hdr[x][g]

\* What writing through a pointer changes.
LEMMA SetFields ==
  ASSUME NEW m, MemoryOK(m), NEW p \in Nat, NEW field \in Links, NEW v \in Nat
  PROVE  MemoryOK(Set(m, p, field, v)) /\ Writes(Set(m, p, field, v), m, p, field, v)
<1>. DEFINE f == [m.hdr EXCEPT ![p] = [@ EXCEPT ![field] = v]]
<1>1. CASE p = NULL
  BY <1>1 DEF Set, SamePages, Writes
<1>2. CASE p # NULL
  <2>1. Set(m, p, field, v) = [m EXCEPT !.hdr = f]
    BY <1>2 DEF Set
  <2>2. m.hdr \in [DOMAIN m.hdr -> HeaderType]
    BY DEF MemoryOK
  <2>3. DOMAIN f = DOMAIN m.hdr
    OBVIOUS
  <2>4. ASSUME NEW x \in DOMAIN m.hdr
        PROVE  /\ f[x] \in HeaderType
               /\ \A g \in DOMAIN m.hdr[x] :
                    f[x][g] = IF x = p /\ g = field THEN v ELSE m.hdr[x][g]
    <3>1. m.hdr[x] \in HeaderType
      BY <2>2
    <3>2. f[x] = IF x = p THEN [m.hdr[x] EXCEPT ![field] = v] ELSE m.hdr[x]
      OBVIOUS
    <3>3. [m.hdr[x] EXCEPT ![field] = v] \in HeaderType
      BY <3>1 DEF HeaderType, Links
    <3>. QED
      BY <3>1, <3>2, <3>3
  <2>. HIDE DEF f
  <2>5. f \in [DOMAIN f -> HeaderType]
    <3>1. f = [x \in DOMAIN f |-> f[x]]
      BY DEF f
    <3>. QED
      BY <2>3, <2>4, <3>1
  <2>6. DOMAIN f \subseteq Nat /\ IsFiniteSet(DOMAIN f)
    BY <2>3 DEF MemoryOK
  <2>. QED
    BY <1>2, <2>1, <2>3, <2>4, <2>5, <2>6, WithHeaders DEF Writes
<1>. QED
  BY <1>1, <1>2

\* The fields of a header.
LEMMA HeaderFields ==
  ASSUME NEW b \in HeaderType
  PROVE  /\ DOMAIN b = {"size", "req", "used", "index", "heap", "flink", "blink",
                        "page_flink", "page_blink"}
         /\ b.size \in Nat \ {0} /\ b.req \in Nat /\ b.used \in BOOLEAN /\ b.index \in Classes
         /\ b.heap \in Heaps /\ b.flink \in Nat /\ b.blink \in Nat
         /\ b.page_flink \in Nat /\ b.page_blink \in Nat
BY DEF HeaderType

\* The fields of the header of a block.
LEMMA HeadersOf ==
  ASSUME NEW m, MemoryOK(m), NEW x \in DOMAIN m.hdr
  PROVE  /\ x \in Nat /\ m.hdr[x] \in HeaderType
         /\ DOMAIN m.hdr[x] = {"size", "req", "used", "index", "heap", "flink", "blink",
                        "page_flink", "page_blink"}
         /\ m.hdr[x].size \in Nat \ {0} /\ m.hdr[x].req \in Nat /\ m.hdr[x].used \in BOOLEAN
         /\ m.hdr[x].index \in Classes /\ m.hdr[x].heap \in Heaps
         /\ m.hdr[x].flink \in Nat /\ m.hdr[x].blink \in Nat
         /\ m.hdr[x].page_flink \in Nat /\ m.hdr[x].page_blink \in Nat
BY HeaderFields DEF MemoryOK

\* n is m, but for the block at a that is taken out of its list.
Unlists(n, m, h, a) ==
  LET b == m.hdr[a] IN
  /\ SamePages(n, m) /\ SameBlocks(n, m)
  /\ n.free_blocks = [m.free_blocks EXCEPT ![h][b.index] = IF @ = a THEN b.flink ELSE @]
  /\ \A x \in DOMAIN m.hdr :
       /\ n.hdr[x].index = m.hdr[x].index
       /\ n.hdr[x].flink = IF x = a THEN NULL
                           ELSE IF x = b.blink /\ x # NULL THEN b.flink
                           ELSE m.hdr[x].flink
       /\ n.hdr[x].blink = IF x = a THEN NULL
                           ELSE IF x = b.flink /\ x # NULL THEN b.blink
                           ELSE m.hdr[x].blink

\* What heap_remove_header changes.
LEMMA RemoveFields ==
  ASSUME NEW m, MemoryOK(m), NEW h \in Heaps, NEW a \in DOMAIN m.hdr
  PROVE  MemoryOK(HeapRemoveHeader(m, h, a)) /\ Unlists(HeapRemoveHeader(m, h, a), m, h, a)
<1>. DEFINE b == m.hdr[a]
            first == Set(m, b.flink, "blink", b.blink)
            linked == Set(first, b.blink, "flink", b.flink)
            f == [linked.hdr EXCEPT ![a] = [@ EXCEPT !.flink = NULL, !.blink = NULL]]
            l == [m.free_blocks EXCEPT ![h][b.index] = IF @ = a THEN b.flink ELSE @]
            mid == [linked EXCEPT !.hdr = f]
            n == [mid EXCEPT !.free_blocks = l]
<1>1. b.flink \in Nat /\ b.blink \in Nat /\ b.index \in Classes
  BY HeadersOf
<1>. HIDE DEF b
<1>2. MemoryOK(first) /\ Writes(first, m, b.flink, "blink", b.blink)
  <2>1. "blink" \in Links
    BY DEF Links
  <2>. QED
    BY <1>1, <2>1, SetFields
<1>. HIDE DEF first
<1>3. MemoryOK(linked) /\ Writes(linked, first, b.blink, "flink", b.flink)
  <2>1. "flink" \in Links
    BY DEF Links
  <2>. QED
    BY <1>1, <1>2, <2>1, SetFields
<1>. HIDE DEF linked
<1>4. ASSUME NEW x \in DOMAIN m.hdr
      PROVE  /\ linked.hdr[x] \in HeaderType
             /\ linked.hdr[x].size = m.hdr[x].size /\ linked.hdr[x].req = m.hdr[x].req
             /\ linked.hdr[x].used = m.hdr[x].used /\ linked.hdr[x].heap = m.hdr[x].heap
             /\ linked.hdr[x].index = m.hdr[x].index
             /\ linked.hdr[x].page_flink = m.hdr[x].page_flink
             /\ linked.hdr[x].page_blink = m.hdr[x].page_blink
             /\ linked.hdr[x].flink = IF x = b.blink /\ x # NULL THEN b.flink ELSE m.hdr[x].flink
             /\ linked.hdr[x].blink = IF x = b.flink /\ x # NULL THEN b.blink ELSE m.hdr[x].blink
  <2>. DEFINE G == {"size", "req", "used", "index", "heap", "flink", "blink",
                        "page_flink", "page_blink"}
  <2>1. DOMAIN m.hdr[x] = G
    BY HeadersOf
  <2>2. DOMAIN first.hdr[x] = G
    BY <1>2, HeadersOf DEF Writes
  <2>3. linked.hdr[x] \in HeaderType
    BY <1>2, <1>3, HeadersOf DEF Writes
  <2>4. \A g \in G : first.hdr[x][g] = IF x = b.flink /\ b.flink # NULL /\ g = "blink" THEN b.blink ELSE m.hdr[x][g]
    BY <1>2, <2>1 DEF Writes
  <2>5. \A g \in G : linked.hdr[x][g] = IF x = b.blink /\ b.blink # NULL /\ g = "flink" THEN b.flink ELSE first.hdr[x][g]
    BY <1>2, <1>3, <2>2 DEF Writes
  <2>. QED
    BY <2>3, <2>4, <2>5
<1>5. DOMAIN linked.hdr = DOMAIN m.hdr /\ linked.free_blocks = m.free_blocks /\ SamePages(linked, m)
  BY <1>2, <1>3 DEF SamePages, Writes
<1>6. DOMAIN f = DOMAIN m.hdr
  BY <1>5
<1>7. ASSUME NEW x \in DOMAIN m.hdr
      PROVE  /\ f[x] \in HeaderType
             /\ x # a => f[x] = linked.hdr[x]
             /\ f[x].size = m.hdr[x].size /\ f[x].req = m.hdr[x].req
             /\ f[x].used = m.hdr[x].used /\ f[x].heap = m.hdr[x].heap
             /\ f[x].index = m.hdr[x].index
             /\ f[x].page_flink = m.hdr[x].page_flink
             /\ f[x].page_blink = m.hdr[x].page_blink
             /\ x = a => f[x].flink = NULL /\ f[x].blink = NULL
  <2>1. f[x] = IF x = a THEN [linked.hdr[x] EXCEPT !.flink = NULL, !.blink = NULL] ELSE linked.hdr[x]
    BY <1>5
  <2>2. linked.hdr[x] \in HeaderType
    BY <1>4
  <2>3. LET c == [linked.hdr[x] EXCEPT !.flink = NULL, !.blink = NULL] IN
        c \in HeaderType /\ c.flink = NULL /\ c.blink = NULL /\ c.size = linked.hdr[x].size
        /\ c.req = linked.hdr[x].req /\ c.used = linked.hdr[x].used /\ c.heap = linked.hdr[x].heap
        /\ c.index = linked.hdr[x].index /\ c.page_flink = linked.hdr[x].page_flink
        /\ c.page_blink = linked.hdr[x].page_blink
    BY <2>2, Constants DEF HeaderType
  <2>. HIDE DEF f
  <2>4. CASE x = a
    BY <1>4, <2>1, <2>3, <2>4
  <2>5. CASE x # a
    <3>1. f[x] = linked.hdr[x]
      BY <2>1, <2>5
    <3>. QED
      BY <1>4, <2>5, <3>1
  <2>. QED
    BY <2>4, <2>5
<1>. HIDE DEF f
<1>8. f \in [DOMAIN f -> HeaderType] /\ DOMAIN f \subseteq Nat /\ IsFiniteSet(DOMAIN f)
  <2>1. f = [x \in DOMAIN f |-> f[x]]
    BY DEF f
  <2>. QED
    BY <1>6, <1>7, <2>1 DEF MemoryOK
<1>9. MemoryOK(mid) /\ mid.hdr = f /\ SamePages(mid, linked) /\ mid.free_blocks = linked.free_blocks
  BY <1>3, <1>8, WithHeaders
<1>10. l \in [Heaps -> [Classes -> Nat]]
  <2>1. m.free_blocks \in [Heaps -> [Classes -> Nat]]
    BY DEF MemoryOK
  <2>. DEFINE c == [m.free_blocks[h] EXCEPT ![b.index] = IF @ = a THEN b.flink ELSE @]
  <2>2. c \in [Classes -> Nat]
    BY <1>1, <2>1
  <2>3. l = [m.free_blocks EXCEPT ![h] = c]
    BY <2>1
  <2>. HIDE DEF c, l
  <2>. QED
    BY <2>1, <2>2, <2>3
<1>. HIDE DEF l, mid
<1>11. MemoryOK(n) /\ n.hdr = f /\ SamePages(n, mid) /\ n.free_blocks = l
  BY Zenon, <1>9, <1>10, WithLists
<1>12. HeapRemoveHeader(m, h, a) = n
  BY ZenonT(30), <1>3, <1>5 DEF HeapRemoveHeader, n, mid, l, f, linked, first, b, MemoryOK, Whole, MemoryFields
<1>. HIDE DEF n
<1>13. SamePages(n, m) /\ SameBlocks(n, m)
  BY <1>5, <1>6, <1>7, <1>9, <1>11 DEF SamePages, SameBlocks
<1>14. ASSUME NEW x \in DOMAIN m.hdr
       PROVE  /\ n.hdr[x].index = m.hdr[x].index
              /\ n.hdr[x].flink = IF x = a THEN NULL
                                  ELSE IF x = b.blink /\ x # NULL THEN b.flink
                                  ELSE m.hdr[x].flink
              /\ n.hdr[x].blink = IF x = a THEN NULL
                                  ELSE IF x = b.flink /\ x # NULL THEN b.blink
                                  ELSE m.hdr[x].blink
  BY <1>4, <1>7, <1>11
<1>. QED
  BY <1>11, <1>12, <1>13, <1>14 DEF b, l, Unlists

\* n is m, but for the block at a that is put first in a list.
Lists(n, m, h, a, index) ==
  LET head == m.free_blocks[h][index] IN
  /\ SamePages(n, m) /\ SameBlocks(n, m)
  /\ n.free_blocks = [m.free_blocks EXCEPT ![h][index] = a]
  /\ \A x \in DOMAIN m.hdr :
       /\ n.hdr[x].index = IF x = a THEN index ELSE m.hdr[x].index
       /\ n.hdr[x].flink = IF x = a THEN head ELSE m.hdr[x].flink
       /\ n.hdr[x].blink = IF x = head /\ x # NULL THEN a ELSE m.hdr[x].blink

\* What heap_insert_unused_header changes.
LEMMA InsertFields ==
  ASSUME NEW m, MemoryOK(m), NEW h \in Heaps, NEW a \in DOMAIN m.hdr,
         HeapGetIndex(m.hdr[a].size - S) \in Classes
  PROVE  /\ MemoryOK(HeapInsertUnused(m, h, a))
         /\ SamePages(HeapInsertUnused(m, h, a), m)
         /\ m.hdr[a].heap = h =>
              Lists(HeapInsertUnused(m, h, a), m, h, a, HeapGetIndex(m.hdr[a].size - S))
<1>. DEFINE index == HeapGetIndex(m.hdr[a].size - S)
            head == m.free_blocks[h][index]
            first == Set(m, head, "blink", a)
            f == [first.hdr EXCEPT ![a] = [@ EXCEPT !.index = index, !.flink = head, !.heap = h]]
            l == [m.free_blocks EXCEPT ![h][index] = a]
            mid == [first EXCEPT !.hdr = f]
            n == [mid EXCEPT !.free_blocks = l]
<1>1. index \in Classes /\ index \in Nat /\ index # NoClass
  BY DEF Classes, NoClass
<1>. HIDE DEF index
<1>2. head \in Nat /\ m.free_blocks \in [Heaps -> [Classes -> Nat]] /\ a \in Nat
  BY <1>1 DEF MemoryOK
<1>. HIDE DEF head
<1>3. MemoryOK(first) /\ Writes(first, m, head, "blink", a)
  <2>1. "blink" \in Links
    BY DEF Links
  <2>. QED
    BY <1>2, <2>1, SetFields
<1>. HIDE DEF first
<1>4. DOMAIN first.hdr = DOMAIN m.hdr
  BY <1>3 DEF Writes
<1>5. ASSUME NEW x \in DOMAIN m.hdr
      PROVE  /\ first.hdr[x] \in HeaderType
             /\ first.hdr[x].size = m.hdr[x].size /\ first.hdr[x].req = m.hdr[x].req
             /\ first.hdr[x].used = m.hdr[x].used /\ first.hdr[x].heap = m.hdr[x].heap
             /\ first.hdr[x].index = m.hdr[x].index
             /\ first.hdr[x].page_flink = m.hdr[x].page_flink
             /\ first.hdr[x].page_blink = m.hdr[x].page_blink
             /\ first.hdr[x].flink = m.hdr[x].flink
             /\ first.hdr[x].blink = IF x = head /\ x # NULL THEN a ELSE m.hdr[x].blink
  <2>1. DOMAIN m.hdr[x] = {"size", "req", "used", "index", "heap", "flink", "blink",
                        "page_flink", "page_blink"}
    BY HeadersOf
  <2>2. \A g \in DOMAIN m.hdr[x] :
          first.hdr[x][g] = IF x = head /\ head # NULL /\ g = "blink" THEN a ELSE m.hdr[x][g]
    BY <1>3 DEF Writes
  <2>3. first.hdr[x] \in HeaderType
    BY <1>3, <1>4, HeadersOf
  <2>. QED
    BY <2>1, <2>2, <2>3
<1>6. DOMAIN f = DOMAIN m.hdr
  BY <1>4
<1>7. ASSUME NEW x \in DOMAIN m.hdr
      PROVE  /\ f[x] \in HeaderType
             /\ f[x].size = m.hdr[x].size /\ f[x].req = m.hdr[x].req
             /\ f[x].used = m.hdr[x].used
             /\ m.hdr[a].heap = h => f[x].heap = m.hdr[x].heap
             /\ f[x].page_flink = m.hdr[x].page_flink
             /\ f[x].page_blink = m.hdr[x].page_blink
             /\ f[x].index = IF x = a THEN index ELSE m.hdr[x].index
             /\ f[x].flink = IF x = a THEN head ELSE m.hdr[x].flink
             /\ f[x].blink = IF x = head /\ x # NULL THEN a ELSE m.hdr[x].blink
  <2>1. f[x] = IF x = a THEN [first.hdr[x] EXCEPT !.index = index, !.flink = head, !.heap = h] ELSE first.hdr[x]
    BY <1>4
  <2>2. first.hdr[x] \in HeaderType
    BY <1>5
  <2>3. LET c == [first.hdr[x] EXCEPT !.index = index, !.flink = head, !.heap = h] IN
        c \in HeaderType /\ c.index = index /\ c.flink = head /\ c.heap = h
        /\ c.size = first.hdr[x].size
        /\ c.req = first.hdr[x].req /\ c.used = first.hdr[x].used
        /\ c.blink = first.hdr[x].blink /\ c.page_flink = first.hdr[x].page_flink
        /\ c.page_blink = first.hdr[x].page_blink
    BY <1>1, <1>2, <2>2 DEF HeaderType
  <2>. HIDE DEF f
  <2>4. CASE x = a
    BY <1>5, <2>1, <2>3, <2>4
  <2>5. CASE x # a
    <3>1. f[x] = first.hdr[x]
      BY <2>1, <2>5
    <3>. QED
      BY <1>5, <2>5, <3>1
  <2>. QED
    BY <2>4, <2>5
<1>. HIDE DEF f
<1>8. f \in [DOMAIN f -> HeaderType] /\ DOMAIN f \subseteq Nat /\ IsFiniteSet(DOMAIN f)
  <2>1. f = [x \in DOMAIN f |-> f[x]]
    BY DEF f
  <2>. QED
    BY <1>6, <1>7, <2>1 DEF MemoryOK
<1>9. MemoryOK(mid) /\ mid.hdr = f /\ SamePages(mid, first) /\ mid.free_blocks = first.free_blocks
  BY <1>3, <1>8, WithHeaders
<1>10. l \in [Heaps -> [Classes -> Nat]]
  <2>. DEFINE c == [m.free_blocks[h] EXCEPT ![index] = a]
  <2>1. c \in [Classes -> Nat]
    BY <1>1, <1>2
  <2>2. l = [m.free_blocks EXCEPT ![h] = c]
    BY <1>2
  <2>. HIDE DEF c, l
  <2>. QED
    BY <1>2, <2>1, <2>2
<1>11. first.free_blocks = m.free_blocks /\ SamePages(first, m)
  BY <1>3 DEF Writes
<1>. HIDE DEF l, mid
<1>12. MemoryOK(n) /\ n.hdr = f /\ SamePages(n, mid) /\ n.free_blocks = l
  BY <1>9, <1>10, WithLists
<1>13. HeapInsertUnused(m, h, a) = n
  <2>1. HeapInsertUnused(m, h, a) =
          [first EXCEPT !.hdr[a].index = index, !.hdr[a].flink = head, !.hdr[a].heap = h,
                        !.free_blocks[h][index] = a]
    BY <1>1 DEF HeapInsertUnused, first, head, index
  <2>2. first = [field \in MemoryFields |-> first[field]]
    BY <1>3 DEF MemoryOK, Whole
  <2>. DEFINE h1 == [first.hdr EXCEPT ![a].index = index]
              h2 == [h1 EXCEPT ![a].flink = head]
              h3 == [h2 EXCEPT ![a].heap = h]
  <2>3. f = h3
    <3>1. a \in DOMAIN first.hdr /\ first.hdr[a] \in HeaderType
      BY <1>4, <1>5
    <3>. QED
      BY <3>1 DEF f, HeaderType
  <2>4. n = [first EXCEPT !.hdr = f, !.free_blocks = l]
    BY <2>2 DEF n, mid, MemoryFields
  <2>5. l = [first.free_blocks EXCEPT ![h][index] = a]
    BY <1>11 DEF l
  <2>6. [first EXCEPT !.hdr[a].index = index, !.hdr[a].flink = head, !.hdr[a].heap = h,
                        !.free_blocks[h][index] = a]
        = [first EXCEPT !.hdr = h3, !.free_blocks = [first.free_blocks EXCEPT ![h][index] = a]]
    <3>. DEFINE e1 == [first EXCEPT !.hdr[a].index = index]
                e2 == [e1 EXCEPT !.hdr[a].flink = head]
                e3 == [e2 EXCEPT !.hdr[a].heap = h]
                e4 == [e3 EXCEPT !.free_blocks[h][index] = a]
    <3>1. [first EXCEPT !.hdr[a].index = index, !.hdr[a].flink = head, !.hdr[a].heap = h,
                        !.free_blocks[h][index] = a] = e4
      OBVIOUS
    <3>2. e1 = [first EXCEPT !.hdr = h1]
      BY <2>2 DEF MemoryFields
    <3>. HIDE DEF e1, h1
    <3>3. e1.hdr = h1 /\ e2 = [first EXCEPT !.hdr = h2]
      BY <2>2, <3>2 DEF MemoryFields
    <3>. HIDE DEF e2, h2
    <3>4. e2.hdr = h2 /\ e3 = [first EXCEPT !.hdr = h3]
      BY <2>2, <3>3 DEF MemoryFields
    <3>. HIDE DEF e3, h3
    <3>5. e3.free_blocks = first.free_blocks
          /\ e4 = [first EXCEPT !.hdr = h3, !.free_blocks = [first.free_blocks EXCEPT ![h][index] = a]]
      BY <2>2, <3>4 DEF MemoryFields
    <3>. QED
      BY <3>1, <3>5
  <2>. QED
    BY Zenon, <2>1, <2>3, <2>4, <2>5, <2>6
<1>. HIDE DEF n
<1>14. SamePages(n, m)
  BY <1>9, <1>11, <1>12 DEF SamePages
<1>15. m.hdr[a].heap = h => SameBlocks(n, m)
  BY <1>6, <1>7, <1>12 DEF SameBlocks
<1>. QED
  BY <1>7, <1>12, <1>13, <1>14, <1>15 DEF head, l, Lists, index

\* r is m, but for the block at a that has taken the one at b.
Absorbs(r, m, a, b) ==
  LET right == m.hdr[b].page_flink IN
  /\ SamePages(r, m) /\ r.free_blocks = m.free_blocks
  /\ DOMAIN r.hdr = DOMAIN m.hdr \ {b}
  /\ \A x \in DOMAIN m.hdr \ {b} :
       /\ r.hdr[x].req = m.hdr[x].req /\ r.hdr[x].used = m.hdr[x].used
       /\ r.hdr[x].index = m.hdr[x].index /\ r.hdr[x].heap = m.hdr[x].heap
       /\ r.hdr[x].flink = m.hdr[x].flink /\ r.hdr[x].blink = m.hdr[x].blink
       /\ r.hdr[x].size = IF x = a THEN m.hdr[a].size + m.hdr[b].size ELSE m.hdr[x].size
       /\ r.hdr[x].page_flink = IF x = a THEN right ELSE m.hdr[x].page_flink
       /\ r.hdr[x].page_blink = IF x = right /\ x # NULL THEN a ELSE m.hdr[x].page_blink

\* What merging two blocks changes.
LEMMA AbsorbFields ==
  ASSUME NEW m, MemoryOK(m), NEW a \in DOMAIN m.hdr, NEW b \in DOMAIN m.hdr, a # b
  PROVE  MemoryOK(Absorb(m, a, b)) /\ Absorbs(Absorb(m, a, b), m, a, b)
<1>. DEFINE right == m.hdr[b].page_flink
            size == m.hdr[b].size
            first == Set(m, right, "page_blink", a)
            f == [first.hdr EXCEPT ![a] =
                    [first.hdr[a] EXCEPT !.size = first.hdr[a].size + size, !.page_flink = right]]
            g == [x \in DOMAIN f \ {b} |-> f[x]]
            r == [first EXCEPT !.hdr = g]
<1>1. right \in Nat /\ size \in Nat \ {0} /\ a \in Nat
  BY HeadersOf
<1>. HIDE DEF right, size
<1>2. MemoryOK(first) /\ Writes(first, m, right, "page_blink", a)
  <2>1. "page_blink" \in Links
    BY DEF Links
  <2>. QED
    BY <1>1, <2>1, SetFields
<1>. HIDE DEF first
<1>3. DOMAIN first.hdr = DOMAIN m.hdr /\ first.free_blocks = m.free_blocks /\ SamePages(first, m)
  BY <1>2 DEF Writes
<1>4. ASSUME NEW x \in DOMAIN m.hdr
      PROVE  /\ first.hdr[x] \in HeaderType
             /\ first.hdr[x].size = m.hdr[x].size /\ first.hdr[x].req = m.hdr[x].req
             /\ first.hdr[x].used = m.hdr[x].used /\ first.hdr[x].heap = m.hdr[x].heap
             /\ first.hdr[x].index = m.hdr[x].index
             /\ first.hdr[x].flink = m.hdr[x].flink
             /\ first.hdr[x].blink = m.hdr[x].blink
             /\ first.hdr[x].page_flink = m.hdr[x].page_flink
             /\ first.hdr[x].page_blink = IF x = right /\ x # NULL THEN a ELSE m.hdr[x].page_blink
  <2>1. DOMAIN m.hdr[x] = {"size", "req", "used", "index", "heap", "flink", "blink",
                        "page_flink", "page_blink"}
    BY HeadersOf
  <2>2. \A i \in DOMAIN m.hdr[x] :
          first.hdr[x][i] = IF x = right /\ right # NULL /\ i = "page_blink" THEN a ELSE m.hdr[x][i]
    BY <1>2 DEF Writes
  <2>3. first.hdr[x] \in HeaderType
    BY <1>2, <1>3, HeadersOf
  <2>. QED
    BY <2>1, <2>2, <2>3
<1>5. DOMAIN f = DOMAIN m.hdr
  BY <1>3
<1>6. ASSUME NEW x \in DOMAIN m.hdr
      PROVE  /\ f[x] \in HeaderType
             /\ f[x].req = m.hdr[x].req /\ f[x].used = m.hdr[x].used
             /\ f[x].index = m.hdr[x].index /\ f[x].heap = m.hdr[x].heap
             /\ f[x].flink = m.hdr[x].flink /\ f[x].blink = m.hdr[x].blink
             /\ f[x].size = IF x = a THEN m.hdr[a].size + size ELSE m.hdr[x].size
             /\ f[x].page_flink = IF x = a THEN right ELSE m.hdr[x].page_flink
             /\ f[x].page_blink = IF x = right /\ x # NULL THEN a ELSE m.hdr[x].page_blink
  <2>1. f[x] = IF x = a THEN [first.hdr[x] EXCEPT !.size = first.hdr[x].size + size, !.page_flink = right]
                  ELSE first.hdr[x]
    BY <1>3
  <2>2. first.hdr[x] \in HeaderType
    BY <1>4
  <2>6. first.hdr[x].size + size \in Nat \ {0}
    BY <1>1, <2>2 DEF HeaderType
  <2>3. LET c == [first.hdr[x] EXCEPT !.size = first.hdr[x].size + size, !.page_flink = right] IN
        c \in HeaderType /\ c.index = first.hdr[x].index /\ c.flink = first.hdr[x].flink
        /\ c.heap = first.hdr[x].heap /\ c.size = first.hdr[x].size + size
        /\ c.req = first.hdr[x].req /\ c.used = first.hdr[x].used
        /\ c.blink = first.hdr[x].blink /\ c.page_flink = right
        /\ c.page_blink = first.hdr[x].page_blink
    BY <1>1, <2>2, <2>6 DEF HeaderType
  <2>. HIDE DEF f
  <2>4. CASE x = a
    BY <1>4, <2>1, <2>3, <2>4
  <2>5. CASE x # a
    <3>1. f[x] = first.hdr[x]
      BY <2>1, <2>5
    <3>. QED
      BY <1>4, <2>5, <3>1
  <2>. QED
    BY <2>4, <2>5
<1>. HIDE DEF f
<1>7. DOMAIN g = DOMAIN m.hdr \ {b} /\ \A x \in DOMAIN m.hdr \ {b} : g[x] = f[x]
  BY <1>5
<1>8. g \in [DOMAIN g -> HeaderType] /\ DOMAIN g \subseteq Nat /\ IsFiniteSet(DOMAIN g)
  <2>1. IsFiniteSet(DOMAIN m.hdr \ {b})
    BY FS_Subset DEF MemoryOK
  <2>. QED
    BY <1>5, <1>6, <2>1 DEF MemoryOK
<1>. HIDE DEF g
<1>9. MemoryOK(r) /\ r.hdr = g /\ SamePages(r, first) /\ r.free_blocks = first.free_blocks
  BY <1>2, <1>8, WithHeaders
<1>10. Absorb(m, a, b) = r
  <2>. DEFINE joined == [first EXCEPT !.hdr[a].size = first.hdr[a].size + size,
                                      !.hdr[a].page_flink = right]
              h1 == [first.hdr EXCEPT ![a].size = first.hdr[a].size + size]
              h2 == [h1 EXCEPT ![a].page_flink = right]
  <2>1. Absorb(m, a, b) = [joined EXCEPT !.hdr = [x \in DOMAIN joined.hdr \ {b} |-> joined.hdr[x]]]
    BY DEF Absorb, first, right, size
  <2>2. first = [field \in MemoryFields |-> first[field]]
    BY <1>2 DEF MemoryOK, Whole
  <2>3. joined = [first EXCEPT !.hdr = h2]
    BY <2>2 DEF MemoryFields
  <2>4. f = h2
    <3>1. a \in DOMAIN first.hdr /\ first.hdr[a] \in HeaderType
      BY <1>3, <1>4
    <3>. QED
      BY <3>1 DEF f, HeaderType
  <2>. HIDE DEF joined, h2
  <2>5. joined = [first EXCEPT !.hdr = f] /\ joined.hdr = f
    BY <2>2, <2>3, <2>4 DEF MemoryFields
  <2>6. [joined EXCEPT !.hdr = g] = r
    BY <2>2, <2>5 DEF MemoryFields, r
  <2>. QED
    BY <2>1, <2>5, <2>6 DEF g
<1>. HIDE DEF r
<1>11. SamePages(r, m) /\ r.free_blocks = m.free_blocks
  BY <1>3, <1>9 DEF SamePages
<1>. QED
  BY <1>6, <1>7, <1>9, <1>10, <1>11 DEF Absorbs, right, size

\* A memory one of whose headers is replaced.
LEMMA OneHeader ==
  ASSUME NEW m, MemoryOK(m), NEW a \in DOMAIN m.hdr, NEW c \in HeaderType
  PROVE  LET r == [m EXCEPT !.hdr = [m.hdr EXCEPT ![a] = c]] IN
         /\ MemoryOK(r) /\ SamePages(r, m) /\ r.free_blocks = m.free_blocks
         /\ DOMAIN r.hdr = DOMAIN m.hdr
         /\ \A x \in DOMAIN m.hdr : r.hdr[x] = IF x = a THEN c ELSE m.hdr[x]
<1>. DEFINE f == [m.hdr EXCEPT ![a] = c]
<1>1. DOMAIN f = DOMAIN m.hdr /\ \A x \in DOMAIN m.hdr : f[x] = IF x = a THEN c ELSE m.hdr[x]
  OBVIOUS
<1>2. f \in [DOMAIN f -> HeaderType] /\ DOMAIN f \subseteq Nat /\ IsFiniteSet(DOMAIN f)
  BY DEF MemoryOK
<1>. HIDE DEF f
<1>3. LET r == [m EXCEPT !.hdr = f] IN
      MemoryOK(r) /\ r.hdr = f /\ SamePages(r, m) /\ r.free_blocks = m.free_blocks
  BY <1>2, WithHeaders
<1>. QED
  BY <1>1, <1>3 DEF f

\* r is m, but for the use of the block at a.
Marks(r, m, a, used, req) ==
  /\ SamePages(r, m) /\ r.free_blocks = m.free_blocks
  /\ DOMAIN r.hdr = DOMAIN m.hdr
  /\ \A x \in DOMAIN m.hdr :
       /\ r.hdr[x].size = m.hdr[x].size
       /\ r.hdr[x].req = IF x = a THEN req ELSE m.hdr[x].req
       /\ r.hdr[x].used = IF x = a THEN used ELSE m.hdr[x].used
       /\ r.hdr[x].index = m.hdr[x].index /\ r.hdr[x].heap = m.hdr[x].heap
       /\ r.hdr[x].flink = m.hdr[x].flink /\ r.hdr[x].blink = m.hdr[x].blink
       /\ r.hdr[x].page_flink = m.hdr[x].page_flink
       /\ r.hdr[x].page_blink = m.hdr[x].page_blink

\* What kmalloc writes to a block it takes.
LEMMA MarkUsed ==
  ASSUME NEW m, MemoryOK(m), NEW a \in DOMAIN m.hdr, NEW size \in Nat
  PROVE  /\ MemoryOK([m EXCEPT !.hdr[a].used = TRUE, !.hdr[a].req = size])
         /\ Marks([m EXCEPT !.hdr[a].used = TRUE, !.hdr[a].req = size], m, a, TRUE, size)
<1>. DEFINE c == [m.hdr[a] EXCEPT !.used = TRUE, !.req = size]
            r == [m EXCEPT !.hdr = [m.hdr EXCEPT ![a] = c]]
            h1 == [m.hdr EXCEPT ![a].used = TRUE]
            e1 == [m EXCEPT !.hdr[a].used = TRUE]
            e2 == [e1 EXCEPT !.hdr[a].req = size]
<1>1. m.hdr[a] \in HeaderType
  BY HeadersOf
<1>2. c \in HeaderType
  BY <1>1 DEF HeaderType
<1>3. /\ c.used = TRUE /\ c.req = size /\ c.size = m.hdr[a].size /\ c.index = m.hdr[a].index
      /\ c.heap = m.hdr[a].heap /\ c.flink = m.hdr[a].flink /\ c.blink = m.hdr[a].blink
      /\ c.page_flink = m.hdr[a].page_flink /\ c.page_blink = m.hdr[a].page_blink
  BY <1>1 DEF HeaderType
<1>4. m = [field \in MemoryFields |-> m[field]]
  BY DEF MemoryOK, Whole
<1>5. e1 = [m EXCEPT !.hdr = h1] /\ e1.hdr = h1
  BY <1>4 DEF MemoryFields
<1>6. [h1 EXCEPT ![a].req = size] = [m.hdr EXCEPT ![a] = c]
  BY <1>1 DEF HeaderType
<1>. HIDE DEF h1, e1, c
<1>7. e2 = r
  BY <1>4, <1>5, <1>6 DEF MemoryFields
<1>8. [m EXCEPT !.hdr[a].used = TRUE, !.hdr[a].req = size] = r
  BY <1>7 DEF e1
<1>. HIDE DEF e2
<1>9. /\ MemoryOK(r) /\ SamePages(r, m) /\ r.free_blocks = m.free_blocks
      /\ DOMAIN r.hdr = DOMAIN m.hdr
      /\ \A x \in DOMAIN m.hdr : r.hdr[x] = IF x = a THEN c ELSE m.hdr[x]
  BY <1>2, OneHeader
<1>. HIDE DEF r
<1>10. Marks(r, m, a, TRUE, size)
  <2>1. ASSUME NEW x \in DOMAIN m.hdr, x # a PROVE r.hdr[x] = m.hdr[x]
    BY <1>9, <2>1
  <2>2. r.hdr[a] = c
    BY <1>9
  <2>. QED
    BY <1>3, <1>9, <2>1, <2>2 DEF Marks
<1>. QED
  BY <1>8, <1>9, <1>10, Zenon

\* What free writes first.
LEMMA MarkUnused ==
  ASSUME NEW m, MemoryOK(m), NEW a \in DOMAIN m.hdr
  PROVE  /\ MemoryOK([m EXCEPT !.hdr[a].used = FALSE])
         /\ Marks([m EXCEPT !.hdr[a].used = FALSE], m, a, FALSE, m.hdr[a].req)
<1>. DEFINE c == [m.hdr[a] EXCEPT !.used = FALSE]
            r == [m EXCEPT !.hdr = [m.hdr EXCEPT ![a] = c]]
<1>1. m.hdr[a] \in HeaderType
  BY HeadersOf
<1>2. c \in HeaderType
  BY <1>1 DEF HeaderType
<1>3. /\ c.used = FALSE /\ c.req = m.hdr[a].req /\ c.size = m.hdr[a].size /\ c.index = m.hdr[a].index
      /\ c.heap = m.hdr[a].heap /\ c.flink = m.hdr[a].flink /\ c.blink = m.hdr[a].blink
      /\ c.page_flink = m.hdr[a].page_flink /\ c.page_blink = m.hdr[a].page_blink
  BY <1>1 DEF HeaderType
<1>4. [m EXCEPT !.hdr[a].used = FALSE] = r
  OBVIOUS
<1>. HIDE DEF c
<1>5. /\ MemoryOK(r) /\ SamePages(r, m) /\ r.free_blocks = m.free_blocks
      /\ DOMAIN r.hdr = DOMAIN m.hdr
      /\ \A x \in DOMAIN m.hdr : r.hdr[x] = IF x = a THEN c ELSE m.hdr[x]
  BY <1>2, OneHeader
<1>. HIDE DEF r
<1>6. Marks(r, m, a, FALSE, m.hdr[a].req)
  <2>1. ASSUME NEW x \in DOMAIN m.hdr, x # a PROVE r.hdr[x] = m.hdr[x]
    BY <1>5, <2>1
  <2>2. r.hdr[a] = c
    BY <1>5
  <2>. QED
    BY <1>3, <1>5, <2>1, <2>2 DEF Marks
<1>. QED
  BY <1>4, <1>5, <1>6, Zenon

\* A header is written where there was none.
LEMMA NewHeader ==
  ASSUME NEW m, MemoryOK(m), NEW a \in Nat, NEW c \in HeaderType
  PROVE  LET r == WithHeader(m, a, c) IN
         /\ MemoryOK(r) /\ SamePages(r, m) /\ r.free_blocks = m.free_blocks
         /\ DOMAIN r.hdr = DOMAIN m.hdr \cup {a}
         /\ r.hdr[a] = c
         /\ \A x \in DOMAIN m.hdr \ {a} : r.hdr[x] = m.hdr[x]
<1>. DEFINE f == [x \in {a} \cup DOMAIN m.hdr |-> IF x = a THEN c ELSE m.hdr[x]]
<1>1. DOMAIN f = DOMAIN m.hdr \cup {a} /\ f[a] = c /\ \A x \in DOMAIN m.hdr \ {a} : f[x] = m.hdr[x]
  OBVIOUS
<1>2. f \in [DOMAIN f -> HeaderType] /\ DOMAIN f \subseteq Nat
  BY DEF MemoryOK
<1>3. IsFiniteSet(DOMAIN f)
  BY <1>1, FS_AddElement DEF MemoryOK
<1>4. WithHeader(m, a, c) = [m EXCEPT !.hdr = f]
  BY DEF WithHeader
<1>. HIDE DEF f
<1>. QED
  BY <1>1, <1>2, <1>3, <1>4, WithHeaders

\* A header is forgotten.
LEMMA HeaderGone ==
  ASSUME NEW m, MemoryOK(m), NEW a
  PROVE  LET r == [m EXCEPT !.hdr = [x \in DOMAIN @ \ {a} |-> @[x]]] IN
         /\ MemoryOK(r) /\ SamePages(r, m) /\ r.free_blocks = m.free_blocks
         /\ DOMAIN r.hdr = DOMAIN m.hdr \ {a}
         /\ \A x \in DOMAIN m.hdr \ {a} : r.hdr[x] = m.hdr[x]
<1>. DEFINE f == [x \in DOMAIN m.hdr \ {a} |-> m.hdr[x]]
<1>1. DOMAIN f = DOMAIN m.hdr \ {a} /\ \A x \in DOMAIN m.hdr \ {a} : f[x] = m.hdr[x]
  OBVIOUS
<1>2. f \in [DOMAIN f -> HeaderType] /\ DOMAIN f \subseteq Nat
  BY DEF MemoryOK
<1>3. IsFiniteSet(DOMAIN f)
  BY <1>1, FS_Subset DEF MemoryOK
<1>4. [m EXCEPT !.hdr = [x \in DOMAIN @ \ {a} |-> @[x]]] = [m EXCEPT !.hdr = f]
  OBVIOUS
<1>. HIDE DEF f
<1>. QED
  BY <1>1, <1>2, <1>3, <1>4, WithHeaders

\* A block before heap_split_header queues what it cuts off.
Cut(m, h, a) ==
  LET b == m.hdr[a]
      rest == b.size - b.req - S
      new == a + S + b.req
      split == WithHeader(Set(m, b.page_flink, "page_blink", new), new,
                          Header(rest, rest - S, a, b.page_flink, 0, h, FALSE))
  IN [split EXCEPT !.hdr[a].page_flink = new, !.hdr[a].size = @ - rest]

\* r is m, but for the block at a, whose end is a block of its own.
Cuts(r, m, h, a) ==
  LET b == m.hdr[a]
      rest == b.size - b.req - S
      new == a + S + b.req
  IN
  /\ SamePages(r, m) /\ r.free_blocks = m.free_blocks
  /\ DOMAIN r.hdr = DOMAIN m.hdr \cup {new}
  /\ r.hdr[new] = Header(rest, rest - S, a, b.page_flink, 0, h, FALSE)
  /\ \A x \in DOMAIN m.hdr :
       /\ r.hdr[x].req = m.hdr[x].req /\ r.hdr[x].used = m.hdr[x].used
       /\ r.hdr[x].index = m.hdr[x].index /\ r.hdr[x].heap = m.hdr[x].heap
       /\ r.hdr[x].flink = m.hdr[x].flink /\ r.hdr[x].blink = m.hdr[x].blink
       /\ r.hdr[x].size = IF x = a THEN S + b.req ELSE m.hdr[x].size
       /\ r.hdr[x].page_flink = IF x = a THEN new ELSE m.hdr[x].page_flink
       /\ r.hdr[x].page_blink = IF x = b.page_flink /\ x # NULL THEN new ELSE m.hdr[x].page_blink

\* What cutting off the end of a block changes.
LEMMA CutFields ==
  ASSUME NEW m, MemoryOK(m), NEW h \in Heaps, NEW a \in DOMAIN m.hdr,
         m.hdr[a].size - m.hdr[a].req - S >= S,
         a + S + m.hdr[a].req \notin DOMAIN m.hdr
  PROVE  MemoryOK(Cut(m, h, a)) /\ Cuts(Cut(m, h, a), m, h, a)
<1>. DEFINE b == m.hdr[a]
            rest == b.size - b.req - S
            new == a + S + b.req
            c == Header(rest, rest - S, a, b.page_flink, 0, h, FALSE)
            first == Set(m, b.page_flink, "page_blink", new)
            split == WithHeader(first, new, c)
            d == [split.hdr[a] EXCEPT !.page_flink = new, !.size = split.hdr[a].size - rest]
            r == [split EXCEPT !.hdr = [split.hdr EXCEPT ![a] = d]]
<1>1. /\ b.size \in Nat \ {0} /\ b.req \in Nat /\ b.page_flink \in Nat /\ a \in Nat
      /\ S = 1 /\ b \in HeaderType
  BY HeadersOf, Constants
<1>2. rest \in Nat \ {0} /\ rest - S \in Nat /\ new \in Nat /\ new \notin DOMAIN m.hdr /\ new # a
      /\ b.size - rest = S + b.req /\ S + b.req \in Nat \ {0}
  BY <1>1
<1>. HIDE DEF b, rest, new
<1>3. c \in HeaderType
  BY <1>1, <1>2, Constants DEF HeaderType, Header
<1>. HIDE DEF c
<1>4. MemoryOK(first) /\ Writes(first, m, b.page_flink, "page_blink", new)
  <2>1. "page_blink" \in Links
    BY DEF Links
  <2>. QED
    BY <1>1, <1>2, <2>1, SetFields
<1>. HIDE DEF first
<1>5. DOMAIN first.hdr = DOMAIN m.hdr /\ first.free_blocks = m.free_blocks /\ SamePages(first, m)
  BY <1>4 DEF Writes
<1>6. ASSUME NEW x \in DOMAIN m.hdr
      PROVE  /\ first.hdr[x] \in HeaderType
             /\ first.hdr[x].size = m.hdr[x].size /\ first.hdr[x].req = m.hdr[x].req
             /\ first.hdr[x].used = m.hdr[x].used /\ first.hdr[x].heap = m.hdr[x].heap
             /\ first.hdr[x].index = m.hdr[x].index
             /\ first.hdr[x].flink = m.hdr[x].flink
             /\ first.hdr[x].blink = m.hdr[x].blink
             /\ first.hdr[x].page_flink = m.hdr[x].page_flink
             /\ first.hdr[x].page_blink =
                  IF x = b.page_flink /\ x # NULL THEN new ELSE m.hdr[x].page_blink
  <2>1. DOMAIN m.hdr[x] = {"size", "req", "used", "index", "heap", "flink", "blink",
                        "page_flink", "page_blink"}
    BY HeadersOf
  <2>2. \A i \in DOMAIN m.hdr[x] :
          first.hdr[x][i] = IF x = b.page_flink /\ b.page_flink # NULL /\ i = "page_blink"
                            THEN new ELSE m.hdr[x][i]
    BY <1>4 DEF Writes
  <2>3. first.hdr[x] \in HeaderType
    BY <1>4, <1>5, HeadersOf
  <2>. QED
    BY <2>1, <2>2, <2>3
<1>7. /\ MemoryOK(split) /\ SamePages(split, first) /\ split.free_blocks = first.free_blocks
      /\ DOMAIN split.hdr = DOMAIN first.hdr \cup {new}
      /\ split.hdr[new] = c
      /\ \A x \in DOMAIN first.hdr \ {new} : split.hdr[x] = first.hdr[x]
  BY ZenonT(30), <1>2, <1>3, <1>4, NewHeader
<1>. HIDE DEF split
<1>8. a \in DOMAIN split.hdr /\ split.hdr[a] = first.hdr[a] /\ split.hdr[a] \in HeaderType
  BY <1>2, <1>5, <1>6, <1>7
<1>9. split.hdr[a].size - rest = S + b.req
  BY <1>2, <1>6, <1>8 DEF b
<1>10. d \in HeaderType
  BY <1>2, <1>8, <1>9 DEF HeaderType
<1>11. /\ d.req = first.hdr[a].req /\ d.used = first.hdr[a].used /\ d.index = first.hdr[a].index
       /\ d.heap = first.hdr[a].heap /\ d.flink = first.hdr[a].flink
       /\ d.blink = first.hdr[a].blink /\ d.size = S + b.req /\ d.page_flink = new
       /\ d.page_blink = first.hdr[a].page_blink
  BY <1>8, <1>9 DEF HeaderType
<1>12. Cut(m, h, a) = r
  <2>. DEFINE h1 == [split.hdr EXCEPT ![a].page_flink = new]
              e1 == [split EXCEPT !.hdr[a].page_flink = new]
              e2 == [e1 EXCEPT !.hdr[a].size = split.hdr[a].size - rest]
  <2>1. Cut(m, h, a) = e2
    BY DEF Cut, split, first, c, b, rest, new
  <2>2. split = [field \in MemoryFields |-> split[field]]
    BY <1>7 DEF MemoryOK, Whole
  <2>3. e1 = [split EXCEPT !.hdr = h1] /\ e1.hdr = h1
    BY <2>2 DEF MemoryFields
  <2>4. h1[a].size = split.hdr[a].size
        /\ [h1 EXCEPT ![a].size = split.hdr[a].size - rest] = [split.hdr EXCEPT ![a] = d]
    BY <1>8 DEF HeaderType
  <2>. HIDE DEF e1, h1, d
  <2>5. e2 = r
    BY <2>2, <2>3, <2>4 DEF MemoryFields
  <2>. QED
    BY <2>1, <2>5
<1>. HIDE DEF d
<1>13. /\ MemoryOK(r) /\ SamePages(r, split) /\ r.free_blocks = split.free_blocks
       /\ DOMAIN r.hdr = DOMAIN split.hdr
       /\ \A x \in DOMAIN split.hdr : r.hdr[x] = IF x = a THEN d ELSE split.hdr[x]
  BY <1>7, <1>8, <1>10, OneHeader
<1>. HIDE DEF r
<1>14. SamePages(r, m) /\ r.free_blocks = m.free_blocks /\ DOMAIN r.hdr = DOMAIN m.hdr \cup {new}
       /\ r.hdr[new] = c
  BY <1>2, <1>5, <1>7, <1>13 DEF SamePages
<1>15. ASSUME NEW x \in DOMAIN m.hdr
       PROVE  /\ r.hdr[x].req = m.hdr[x].req /\ r.hdr[x].used = m.hdr[x].used
              /\ r.hdr[x].index = m.hdr[x].index /\ r.hdr[x].heap = m.hdr[x].heap
              /\ r.hdr[x].flink = m.hdr[x].flink /\ r.hdr[x].blink = m.hdr[x].blink
              /\ r.hdr[x].size = IF x = a THEN S + b.req ELSE m.hdr[x].size
              /\ r.hdr[x].page_flink = IF x = a THEN new ELSE m.hdr[x].page_flink
              /\ r.hdr[x].page_blink = IF x = b.page_flink /\ x # NULL THEN new ELSE m.hdr[x].page_blink
  <2>1. CASE x = a
    <3>1. r.hdr[x] = d
      BY <1>8, <1>13, <2>1
    <3>. QED
      BY <1>6, <1>11, <2>1, <3>1
  <2>2. CASE x # a
    <3>1. r.hdr[x] = first.hdr[x]
      BY <1>2, <1>5, <1>7, <1>13, <2>2
    <3>. QED
      BY <1>6, <2>2, <3>1
  <2>. QED
    BY <2>1, <2>2
<1>. QED
  BY <1>12, <1>13, <1>14, <1>15 DEF Cuts, b, rest, new, c

-----------------------------------------------------------------------------
(* The blocks of a run of pages lie side by side.  RunsAs is needed because address 0
   is NULL: it says where the block there may be cut. *)

\* Blocks do not overlap, and their neighbour links are those of their places.
Tiled(m) ==
  \A a \in DOMAIN m.hdr :
    /\ \A other \in DOMAIN m.hdr : other \notin (a + 1)..(a + m.hdr[a].size - 1)
    /\ m.hdr[a].page_flink = NULL => (a + m.hdr[a].size) % PageSize = 0
    /\ m.hdr[a].page_flink # NULL =>
         /\ m.hdr[a].page_flink = a + m.hdr[a].size
         /\ m.hdr[a].page_flink \in DOMAIN m.hdr
         /\ m.hdr[m.hdr[a].page_flink].page_blink = a
         /\ m.hdr[m.hdr[a].page_flink].heap = m.hdr[a].heap
    /\ m.hdr[a].page_blink # NULL =>
         /\ a # NULL
         /\ m.hdr[a].page_blink \in DOMAIN m.hdr
         /\ m.hdr[m.hdr[a].page_blink].page_flink = a
    /\ m.hdr[a].page_blink = NULL =>
         a % PageSize = 0 \/ (NULL \in DOMAIN m.hdr /\ m.hdr[NULL].page_flink = a)

LongestRun == 127 * PageSize

\* A block belongs to the pages that were mapped for it, which begin at run[a].
\* In those at address 0 every other block lies inside the last page.
RunsAs(m, run) ==
  \A a \in DOMAIN m.hdr :
    /\ run[a] <= a /\ a + m.hdr[a].size <= run[a] + LongestRun
    /\ m.hdr[a].page_flink # NULL => run[m.hdr[a].page_flink] = run[a]
    /\ a # NULL /\ run[a] = NULL => a % PageSize # 0 /\ (a % PageSize) + m.hdr[a].size <= PageSize

Runs(m) == \E run \in [DOMAIN m.hdr -> Nat] : RunsAs(m, run)

\* The kernel's blocks lie in the kernel's tables.
High(m) == \A a \in DOMAIN m.hdr : m.hdr[a].heap = "kernel" => KernelImage <= a

Blocks(m) == MemoryOK(m) /\ Tiled(m) /\ Runs(m) /\ High(m)

\* No unused blocks side by side, but for those of E, and next to address 0.
NoPair(m, E) ==
  \A a \in DOMAIN m.hdr \ {NULL} :
    /\ m.hdr[a].page_flink # NULL
    /\ ~m.hdr[a].used
    /\ ~m.hdr[m.hdr[a].page_flink].used
    => a \in E \/ m.hdr[a].page_flink \in E

UnitsOf(m) == UNION {a..(a + m.hdr[a].size - 1) : a \in DOMAIN m.hdr}

\* A unit is one of a block's.
LEMMA UnitOf ==
  ASSUME NEW m, NEW u
  PROVE  u \in UnitsOf(m) <=> \E a \in DOMAIN m.hdr : u \in a..(a + m.hdr[a].size - 1)
BY DEF UnitsOf

\* The left neighbour of a block.
LEMMA LeftOf ==
  ASSUME NEW m, MemoryOK(m), Tiled(m), NEW a \in DOMAIN m.hdr, m.hdr[a].page_blink # NULL
  PROVE  LET p == m.hdr[a].page_blink IN
         /\ p \in DOMAIN m.hdr /\ m.hdr[p].page_flink = a /\ p + m.hdr[p].size = a
         /\ p < a /\ a # NULL /\ m.hdr[p].heap = m.hdr[a].heap
<1>. DEFINE p == m.hdr[a].page_blink
<1>1. p \in DOMAIN m.hdr /\ m.hdr[p].page_flink = a /\ a # NULL
  BY DEF Tiled
<1>. HIDE DEF p
<1>2. m.hdr[p].page_flink = p + m.hdr[p].size /\ m.hdr[m.hdr[p].page_flink].heap = m.hdr[p].heap
  BY <1>1 DEF Tiled
<1>3. p \in Nat /\ m.hdr[p].size \in Nat \ {0} /\ a \in Nat
  BY <1>1, HeadersOf
<1>4. p + m.hdr[p].size = a /\ p < a /\ m.hdr[p].heap = m.hdr[a].heap
  BY <1>1, <1>2, <1>3
<1>. QED
  BY <1>1, <1>4 DEF p

\* And the right one.
LEMMA RightOf ==
  ASSUME NEW m, MemoryOK(m), Tiled(m), NEW a \in DOMAIN m.hdr, m.hdr[a].page_flink # NULL
  PROVE  LET p == m.hdr[a].page_flink IN
         /\ p \in DOMAIN m.hdr /\ m.hdr[p].page_blink = a /\ p = a + m.hdr[a].size
         /\ a < p /\ m.hdr[p].heap = m.hdr[a].heap
<1>. DEFINE p == m.hdr[a].page_flink
<1>1. p \in DOMAIN m.hdr /\ m.hdr[p].page_blink = a /\ p = a + m.hdr[a].size
      /\ m.hdr[p].heap = m.hdr[a].heap
  BY DEF Tiled
<1>2. m.hdr[a].size \in Nat \ {0} /\ a \in Nat
  BY HeadersOf
<1>. QED
  BY <1>1, <1>2

\* What only the lists or the use of blocks tell apart.
LEMMA SameTiled ==
  ASSUME NEW m, Blocks(m), NEW r, MemoryOK(r),
         DOMAIN r.hdr = DOMAIN m.hdr,
         \A x \in DOMAIN m.hdr :
           /\ r.hdr[x].size = m.hdr[x].size /\ r.hdr[x].heap = m.hdr[x].heap
           /\ r.hdr[x].page_flink = m.hdr[x].page_flink
           /\ r.hdr[x].page_blink = m.hdr[x].page_blink
  PROVE  Blocks(r) /\ UnitsOf(r) = UnitsOf(m)
<1>1. Tiled(r)
  <2>. SUFFICES ASSUME NEW a \in DOMAIN m.hdr
       PROVE
    /\ \A other \in DOMAIN m.hdr : other \notin (a + 1)..(a + r.hdr[a].size - 1)
    /\ r.hdr[a].page_flink = NULL => (a + r.hdr[a].size) % PageSize = 0
    /\ r.hdr[a].page_flink # NULL =>
         /\ r.hdr[a].page_flink = a + r.hdr[a].size
         /\ r.hdr[a].page_flink \in DOMAIN m.hdr
         /\ r.hdr[r.hdr[a].page_flink].page_blink = a
         /\ r.hdr[r.hdr[a].page_flink].heap = r.hdr[a].heap
    /\ r.hdr[a].page_blink # NULL =>
         /\ a # NULL
         /\ r.hdr[a].page_blink \in DOMAIN m.hdr
         /\ r.hdr[r.hdr[a].page_blink].page_flink = a
    /\ r.hdr[a].page_blink = NULL =>
         a % PageSize = 0 \/ (NULL \in DOMAIN m.hdr /\ r.hdr[NULL].page_flink = a)
    BY DEF Tiled
  <2>1. r.hdr[a].size = m.hdr[a].size /\ r.hdr[a].page_flink = m.hdr[a].page_flink
        /\ r.hdr[a].page_blink = m.hdr[a].page_blink /\ r.hdr[a].heap = m.hdr[a].heap
    OBVIOUS
  <2>. QED
    BY <2>1 DEF Blocks, Tiled
<1>2. Runs(r)
  <2>1. PICK run \in [DOMAIN m.hdr -> Nat] : RunsAs(m, run)
    BY DEF Blocks, Runs
  <2>2. RunsAs(r, run)
    BY <2>1 DEF RunsAs
  <2>. QED
    BY <2>2 DEF Runs
<1>3. High(r)
  BY DEF Blocks, High
<1>4. UnitsOf(r) = UnitsOf(m)
  BY DEF UnitsOf
<1>. QED
  BY <1>1, <1>2, <1>3, <1>4 DEF Blocks

\* What only the lists tell apart lies in the same places.
LEMMA SameBlocksTiled ==
  ASSUME NEW m, Blocks(m), NEW r, MemoryOK(r), SameBlocks(r, m)
  PROVE  /\ Blocks(r) /\ UnitsOf(r) = UnitsOf(m)
         /\ \A E : NoPair(m, E) => NoPair(r, E)
<1>1. Blocks(r) /\ UnitsOf(r) = UnitsOf(m)
  BY SameTiled DEF SameBlocks
<1>2. ASSUME NEW E, NoPair(m, E) PROVE NoPair(r, E)
  <2>. SUFFICES ASSUME NEW a \in DOMAIN m.hdr \ {NULL}, r.hdr[a].page_flink # NULL,
                       ~r.hdr[a].used, ~r.hdr[r.hdr[a].page_flink].used
                PROVE  a \in E \/ r.hdr[a].page_flink \in E
    BY DEF NoPair, SameBlocks
  <2>1. r.hdr[a].page_flink = m.hdr[a].page_flink /\ r.hdr[a].used = m.hdr[a].used
    BY DEF SameBlocks
  <2>2. m.hdr[a].page_flink \in DOMAIN m.hdr
    BY <2>1, RightOf DEF Blocks
  <2>3. ~m.hdr[m.hdr[a].page_flink].used
    BY <2>1, <2>2 DEF SameBlocks
  <2>. QED
    BY <1>2, <2>1, <2>3 DEF NoPair
<1>. QED
  BY <1>1, <1>2

\* So does what only the use of a block tells apart; only that block may have an
\* unused neighbour then.
LEMMA MarksTiled ==
  ASSUME NEW m, Blocks(m), NEW r, MemoryOK(r), NEW a, NEW used \in BOOLEAN, NEW req,
         Marks(r, m, a, used, req), NoPair(m, {})
  PROVE  /\ Blocks(r) /\ UnitsOf(r) = UnitsOf(m)
         /\ NoPair(r, {a})
         /\ used => NoPair(r, {})
<1>1. Blocks(r) /\ UnitsOf(r) = UnitsOf(m)
  BY SameTiled DEF Marks
<1>2. ASSUME NEW x \in DOMAIN m.hdr \ {NULL}, r.hdr[x].page_flink # NULL,
             ~r.hdr[x].used, ~r.hdr[r.hdr[x].page_flink].used
      PROVE  ~used /\ (x = a \/ r.hdr[x].page_flink = a)
  <2>1. r.hdr[x].page_flink = m.hdr[x].page_flink
    BY DEF Marks
  <2>2. m.hdr[x].page_flink \in DOMAIN m.hdr
    BY <1>2, <2>1, RightOf DEF Blocks
  <2>. DEFINE y == m.hdr[x].page_flink
  <2>3. r.hdr[y].used = IF y = a THEN used ELSE m.hdr[y].used
    BY <2>2 DEF Marks
  <2>4. r.hdr[x].used = IF x = a THEN used ELSE m.hdr[x].used
    BY DEF Marks
  <2>5. ~(~m.hdr[x].used /\ ~m.hdr[y].used)
    BY <1>2, <2>1 DEF NoPair
  <2>. QED
    BY <1>2, <2>1, <2>3, <2>4, <2>5
<1>3. NoPair(r, {a}) /\ (used => NoPair(r, {}))
  BY <1>2 DEF NoPair, Marks
<1>. QED
  BY <1>1, <1>3

\* A remainder, a little further on.
LEMMA Remainder ==
  ASSUME NEW x \in Nat, NEW n \in Nat \ {0}, NEW k \in Nat
  PROVE  /\ (x % n) + k < n => (x + k) % n = (x % n) + k
         /\ (x % n) + k = n => (x + k) % n = 0
<1>. DEFINE q == x \div n
            y == x + k
<1>1. q \in Nat /\ n * q \in Nat /\ x = n * q + (x % n) /\ x % n \in 0..(n - 1)
  BY Division
<1>. HIDE DEF q
<1>2. ASSUME (x % n) + k < n PROVE y % n = y - n * q
  <2>1. y \in Nat /\ n * q <= y /\ y < n * q + n
    BY <1>1, <1>2
  <2>. HIDE DEF y
  <2>. QED
    BY <1>1, <2>1, Quotient
<1>3. ASSUME (x % n) + k = n PROVE y % n = y - n * (q + 1)
  <2>1. n * (q + 1) = n * q + n /\ n * (q + 1) \in Nat /\ q + 1 \in Nat
    BY <1>1
  <2>2. y \in Nat /\ n * (q + 1) <= y /\ y < n * (q + 1) + n
    BY <1>1, <1>3, <2>1
  <2>. HIDE DEF y
  <2>. QED
    BY <2>1, <2>2, Quotient
<1>4. n * (q + 1) = n * q + n
  BY <1>1
<1>. QED
  BY <1>1, <1>2, <1>3, <1>4

\* A block takes its right neighbour: the blocks are still in their places.
LEMMA AbsorbTiled ==
  ASSUME NEW m, Blocks(m), NEW a \in DOMAIN m.hdr, NEW b, b = m.hdr[a].page_flink, b # NULL,
         NEW r, MemoryOK(r), Absorbs(r, m, a, b)
  PROVE  Blocks(r) /\ UnitsOf(r) = UnitsOf(m)
<1>. DEFINE D == DOMAIN m.hdr
            right == m.hdr[b].page_flink
<1>1. /\ b \in D /\ m.hdr[b].page_blink = a /\ b = a + m.hdr[a].size /\ a < b
      /\ m.hdr[b].heap = m.hdr[a].heap
  BY RightOf DEF Blocks
<1>2. right # NULL => /\ right \in D /\ m.hdr[right].page_blink = b
                      /\ right = b + m.hdr[b].size /\ b < right
                      /\ m.hdr[right].heap = m.hdr[b].heap
  BY <1>1, RightOf DEF Blocks
<1>3. a \in Nat /\ b \in Nat /\ m.hdr[a].size \in Nat \ {0} /\ m.hdr[b].size \in Nat \ {0}
      /\ right \in Nat
  BY <1>1, HeadersOf DEF Blocks
<1>4. /\ DOMAIN r.hdr = D \ {b} /\ a \in DOMAIN r.hdr
      /\ r.hdr[a].size = m.hdr[a].size + m.hdr[b].size
      /\ r.hdr[a].page_flink = right
      /\ \A x \in D \ {b} :
           /\ r.hdr[x].heap = m.hdr[x].heap
           /\ x # a => r.hdr[x].size = m.hdr[x].size /\ r.hdr[x].page_flink = m.hdr[x].page_flink
           /\ r.hdr[x].page_blink = IF x = right /\ x # NULL THEN a ELSE m.hdr[x].page_blink
  BY <1>1, <1>3 DEF Absorbs
<1>. HIDE DEF D, right
<1>5. Tiled(r)
  <2>. SUFFICES ASSUME NEW x \in D \ {b}
       PROVE
    /\ \A other \in D \ {b} : other \notin (x + 1)..(x + r.hdr[x].size - 1)
    /\ r.hdr[x].page_flink = NULL => (x + r.hdr[x].size) % PageSize = 0
    /\ r.hdr[x].page_flink # NULL =>
         /\ r.hdr[x].page_flink = x + r.hdr[x].size
         /\ r.hdr[x].page_flink \in D \ {b}
         /\ r.hdr[r.hdr[x].page_flink].page_blink = x
         /\ r.hdr[r.hdr[x].page_flink].heap = r.hdr[x].heap
    /\ r.hdr[x].page_blink # NULL =>
         /\ x # NULL
         /\ r.hdr[x].page_blink \in D \ {b}
         /\ r.hdr[r.hdr[x].page_blink].page_flink = x
    /\ r.hdr[x].page_blink = NULL =>
         x % PageSize = 0 \/ (NULL \in D \ {b} /\ r.hdr[NULL].page_flink = x)
    BY <1>4 DEF Tiled
  <2>1. \A other \in D \ {b} : other \notin (x + 1)..(x + r.hdr[x].size - 1)
    <3>1. CASE x = a
      <4>1. \A other \in D : other \notin (a + 1)..(a + m.hdr[a].size - 1)
            /\ other \notin (b + 1)..(b + m.hdr[b].size - 1)
        BY <1>1 DEF Blocks, Tiled, D
      <4>2. \A other \in D : other \in Nat
        BY HeadersOf DEF Blocks, D
      <4>. QED
        BY <1>1, <1>3, <1>4, <3>1, <4>1, <4>2
    <3>2. CASE x # a
      <4>1. r.hdr[x].size = m.hdr[x].size
        BY <1>4, <3>2
      <4>. QED
        BY <4>1 DEF Blocks, Tiled, D
    <3>. QED
      BY <3>1, <3>2
  <2>2. r.hdr[x].page_flink = NULL => (x + r.hdr[x].size) % PageSize = 0
    <3>1. CASE x = a
      <4>1. right = NULL => (b + m.hdr[b].size) % PageSize = 0
        BY <1>1 DEF Blocks, Tiled, D, right
      <4>2. a + r.hdr[a].size = b + m.hdr[b].size
        BY <1>1, <1>3, <1>4
      <4>. QED
        BY <1>4, <3>1, <4>1, <4>2
    <3>2. CASE x # a
      BY <1>4, <3>2 DEF Blocks, Tiled, D
    <3>. QED
      BY <3>1, <3>2
  <2>3. ASSUME r.hdr[x].page_flink # NULL
        PROVE
         /\ r.hdr[x].page_flink = x + r.hdr[x].size
         /\ r.hdr[x].page_flink \in D \ {b}
         /\ r.hdr[r.hdr[x].page_flink].page_blink = x
         /\ r.hdr[r.hdr[x].page_flink].heap = r.hdr[x].heap
    <3>1. CASE x = a
      BY <1>1, <1>2, <1>3, <1>4, <2>3, <3>1
    <3>2. CASE x # a
      <4>. DEFINE y == m.hdr[x].page_flink
      <4>1. r.hdr[x].page_flink = y /\ r.hdr[x].size = m.hdr[x].size /\ y # NULL
        BY <1>4, <2>3, <3>2
      <4>2. y \in D /\ m.hdr[y].page_blink = x /\ y = x + m.hdr[x].size /\ m.hdr[y].heap = m.hdr[x].heap
        BY <4>1 DEF Blocks, Tiled, D
      <4>3. y # b /\ y # right
        BY <1>1, <1>2, <3>2, <4>1, <4>2
      <4>. QED
        BY <1>4, <4>1, <4>2, <4>3
    <3>. QED
      BY <3>1, <3>2
  <2>4. CASE x = right /\ right # NULL
    <3>1. r.hdr[x].page_blink = a
      BY <1>4, <2>4
    <3>. QED
      BY <1>1, <1>4, <2>1, <2>2, <2>3, <2>4, <3>1
  <2>5. CASE ~(x = right /\ right # NULL)
    <3>. DEFINE p == m.hdr[x].page_blink
    <3>1. r.hdr[x].page_blink = p
      BY <1>4, <2>5
    <3>2. ASSUME p # NULL
          PROVE x # NULL /\ p \in D \ {b} /\ r.hdr[p].page_flink = x
      <4>1. p \in D /\ m.hdr[p].page_flink = x /\ x # NULL
        BY <3>2, LeftOf DEF Blocks, D
      <4>2. p # b /\ p # a
        BY <2>5, <4>1 DEF right
      <4>. QED
        BY <1>4, <4>1, <4>2
    <3>3. ASSUME p = NULL
          PROVE x % PageSize = 0 \/ (NULL \in D \ {b} /\ r.hdr[NULL].page_flink = x)
      <4>1. x % PageSize = 0 \/ (NULL \in D /\ m.hdr[NULL].page_flink = x)
        BY <3>3 DEF Blocks, Tiled, D
      <4>2. NULL \in D /\ m.hdr[NULL].page_flink = x => NULL # a /\ NULL # b
        OBVIOUS
      <4>. QED
        BY <1>4, <4>1, <4>2
    <3>. HIDE DEF p
    <3>. QED
      BY <2>1, <2>2, <2>3, <3>1, <3>2, <3>3
  <2>. QED
    BY <2>4, <2>5
<1>6. Runs(r)
  <2>1. PICK run \in [D -> Nat] : RunsAs(m, run)
    BY DEF Blocks, Runs, D
  <2>. DEFINE new == [x \in D \ {b} |-> run[x]]
  <2>2. new \in [D \ {b} -> Nat] /\ \A x \in D \ {b} : new[x] = run[x] /\ run[x] \in Nat
    BY <2>1
  <2>3. run[b] = run[a] /\ run[a] \in Nat /\ LongestRun \in Nat
    <3>1. LongestRun \in Nat
      BY Constants DEF LongestRun
    <3>2. run[b] = run[a]
      BY <2>1 DEF RunsAs
    <3>. QED
      BY <2>1, <3>1, <3>2 DEF D
  <2>. HIDE DEF new
  <2>4. ASSUME NEW x \in D \ {b}
        PROVE  /\ new[x] <= x /\ x + r.hdr[x].size <= new[x] + LongestRun
               /\ r.hdr[x].page_flink # NULL => new[r.hdr[x].page_flink] = new[x]
               /\ x # NULL /\ new[x] = NULL =>
                    x % PageSize # 0 /\ (x % PageSize) + r.hdr[x].size <= PageSize
    <3>1. CASE x = a
      <4>1. run[a] <= a /\ b + m.hdr[b].size <= run[a] + LongestRun
        BY <1>1, <2>1, <2>3, <3>1 DEF RunsAs, D
      <4>2. right # NULL => run[right] = run[a]
        BY <1>1, <2>1, <2>3 DEF RunsAs, D, right
      <4>3. ASSUME a # NULL, run[a] = NULL
            PROVE  a % PageSize # 0 /\ (a % PageSize) + m.hdr[a].size + m.hdr[b].size <= PageSize
        <5>1. a % PageSize # 0 /\ (a % PageSize) + m.hdr[a].size <= PageSize
              /\ b % PageSize # 0 /\ (b % PageSize) + m.hdr[b].size <= PageSize
          BY <1>1, <2>1, <2>3, <3>1, <4>3 DEF RunsAs, D
        <5>2. PageSize \in Nat \ {0} /\ a % PageSize \in Nat
          BY <1>3, Constants, Division
        <5>3. b % PageSize = (a % PageSize) + m.hdr[a].size
          BY <1>1, <1>3, <5>1, <5>2, Remainder
        <5>. QED
          BY <5>1, <5>3
      <4>4. a + r.hdr[a].size = b + m.hdr[b].size
        BY <1>1, <1>3, <1>4
      <4>5. PageSize \in Nat \ {0} /\ a % PageSize \in Nat
        BY <1>3, Constants, Division
      <4>. QED
        BY <1>2, <1>3, <1>4, <2>2, <2>3, <3>1, <4>1, <4>2, <4>3, <4>4, <4>5
    <3>2. CASE x # a
      <4>1. r.hdr[x].size = m.hdr[x].size /\ r.hdr[x].page_flink = m.hdr[x].page_flink
        BY <1>4, <3>2
      <4>2. m.hdr[x].page_flink # NULL => m.hdr[x].page_flink \in D \ {b}
        BY <1>1, <3>2, RightOf DEF Blocks, D
      <4>. QED
        BY <2>1, <2>2, <4>1, <4>2 DEF RunsAs, D
    <3>. QED
      BY <3>1, <3>2
  <2>. QED
    BY <1>4, <2>2, <2>4 DEF RunsAs, Runs
<1>7. High(r)
  BY <1>4 DEF Blocks, High, D
<1>8. UnitsOf(r) = UnitsOf(m)
  <2>1. ASSUME NEW u, NEW x \in D, u \in x..(x + m.hdr[x].size - 1)
        PROVE  \E y \in D \ {b} : u \in y..(y + r.hdr[y].size - 1)
    <3>1. CASE x # a /\ x # b
      BY <1>4, <2>1, <3>1
    <3>2. CASE x = a \/ x = b
      <4>1. u \in a..(a + r.hdr[a].size - 1)
        BY <1>1, <1>3, <1>4, <2>1, <3>2
      <4>. QED
        BY <1>4, <4>1
    <3>. QED
      BY <3>1, <3>2
  <2>2. ASSUME NEW u, NEW x \in D \ {b}, u \in x..(x + r.hdr[x].size - 1)
        PROVE  \E y \in D : u \in y..(y + m.hdr[y].size - 1)
    <3>1. CASE x # a
      BY <1>4, <2>2, <3>1
    <3>2. CASE x = a
      <4>2. u \in Int /\ a <= u /\ u <= a + (m.hdr[a].size + m.hdr[b].size) - 1
        BY <1>3, <1>4, <2>2, <3>2
      <4>3. a + m.hdr[a].size = b
        BY <1>1
      <4>4. ASSUME u < b PROVE u \in a..(a + m.hdr[a].size - 1)
        BY <1>3, <4>2, <4>3, <4>4
      <4>5. ASSUME b <= u PROVE u \in b..(b + m.hdr[b].size - 1)
        BY <1>3, <4>2, <4>3, <4>5
      <4>1. u \in a..(a + m.hdr[a].size - 1) \/ u \in b..(b + m.hdr[b].size - 1)
        BY <1>3, <4>2, <4>4, <4>5
      <4>. QED
        BY <1>1, <1>4, <4>1
    <3>. QED
      BY <3>1, <3>2
  <2>3. \A u : u \in UnitsOf(r) <=> u \in UnitsOf(m)
    BY <1>4, <2>1, <2>2, UnitOf DEF D
  <2>. QED
    BY <2>3
<1>. QED
  BY <1>5, <1>6, <1>7, <1>8 DEF Blocks

\* A block takes its neighbour: only it may have an unused neighbour still.
LEMMA AbsorbNoPair ==
  ASSUME NEW m, Blocks(m), NEW a \in DOMAIN m.hdr, NEW b, b = m.hdr[a].page_flink, b # NULL,
         NEW r, Absorbs(r, m, a, b), NEW E, E \subseteq {a, b}, NoPair(m, E)
  PROVE  NoPair(r, {a})
<1>1. b \in DOMAIN m.hdr /\ m.hdr[b].page_blink = a
  BY RightOf DEF Blocks
<1>. SUFFICES ASSUME NEW x \in (DOMAIN m.hdr \ {b}) \ {NULL}, r.hdr[x].page_flink # NULL,
                     ~r.hdr[x].used, ~r.hdr[r.hdr[x].page_flink].used,
                     x # a, r.hdr[x].page_flink # a
              PROVE  FALSE
  BY DEF NoPair, Absorbs
<1>. DEFINE y == m.hdr[x].page_flink
<1>2. r.hdr[x].page_flink = y /\ r.hdr[x].used = m.hdr[x].used
  BY DEF Absorbs
<1>3. y \in DOMAIN m.hdr /\ m.hdr[y].page_blink = x
  BY <1>2, RightOf DEF Blocks
<1>4. y # b
  BY <1>1, <1>3
<1>5. r.hdr[y].used = m.hdr[y].used
  BY <1>3, <1>4 DEF Absorbs
<1>. QED
  BY <1>2, <1>4, <1>5 DEF NoPair

\* A block whose neighbours are in use needs no exception.
LEMMA NoPairAt ==
  ASSUME NEW m, Blocks(m), NEW a \in DOMAIN m.hdr, NoPair(m, {a}),
         m.hdr[a].page_flink # NULL => m.hdr[m.hdr[a].page_flink].used,
         m.hdr[a].page_blink # NULL => m.hdr[m.hdr[a].page_blink].used
  PROVE  NoPair(m, {})
<1>. SUFFICES ASSUME NEW x \in DOMAIN m.hdr \ {NULL}, m.hdr[x].page_flink # NULL,
                     ~m.hdr[x].used, ~m.hdr[m.hdr[x].page_flink].used
              PROVE  FALSE
  BY DEF NoPair
<1>1. x = a \/ m.hdr[x].page_flink = a
  BY DEF NoPair
<1>2. m.hdr[m.hdr[x].page_flink].page_blink = x
  BY RightOf DEF Blocks
<1>. QED
  BY <1>1, <1>2

\* What is cut off begins where no block does.
LEMMA CutPlace ==
  ASSUME NEW m, Blocks(m), NEW a \in DOMAIN m.hdr, m.hdr[a].size - m.hdr[a].req - S >= S
  PROVE  a + S + m.hdr[a].req \notin DOMAIN m.hdr
<1>1. a \in Nat /\ m.hdr[a].size \in Nat /\ m.hdr[a].req \in Nat /\ S = 1
  BY HeadersOf, Constants DEF Blocks
<1>2. a + S + m.hdr[a].req \in (a + 1)..(a + m.hdr[a].size - 1)
  BY <1>1
<1>. QED
  BY <1>2 DEF Blocks, Tiled

\* The end of a block is cut off: the blocks are still in their places.  At address 0
\* the cut has to be inside the last page.
LEMMA CutTiled ==
  ASSUME NEW m, Blocks(m), NEW a \in DOMAIN m.hdr, NEW h, m.hdr[a].heap = h,
         NEW rest, rest = m.hdr[a].size - m.hdr[a].req - S, rest >= S,
         NEW new, new = a + S + m.hdr[a].req,
         a = NULL => new % PageSize # 0 /\ (new % PageSize) + rest <= PageSize,
         NEW r, MemoryOK(r), Cuts(r, m, h, a)
  PROVE  Blocks(r) /\ UnitsOf(r) = UnitsOf(m)
<1>. DEFINE D == DOMAIN m.hdr
            size == m.hdr[a].size
            right == m.hdr[a].page_flink
            req == m.hdr[a].req
<1>1. /\ a \in Nat /\ size \in Nat \ {0} /\ right \in Nat /\ req \in Nat /\ S = 1 /\ NULL = 0
      /\ D \subseteq Nat
  BY HeadersOf, Constants DEF Blocks
<1>2. right # NULL => right \in D /\ m.hdr[right].page_blink = a /\ right = a + size
                      /\ a < right /\ m.hdr[right].heap = h
  BY RightOf DEF Blocks
<1>3. /\ new \in Nat /\ a < new /\ new < a + size /\ rest \in Nat \ {0} /\ new + rest = a + size
      /\ S + req \in Nat \ {0} /\ a + (S + req) = new
  BY <1>1
<1>4. new \notin D
  BY CutPlace DEF D
<1>5. /\ DOMAIN r.hdr = D \cup {new}
      /\ r.hdr[new].size = rest /\ r.hdr[new].page_blink = a /\ r.hdr[new].page_flink = right
      /\ r.hdr[new].heap = h
      /\ r.hdr[a].size = S + req /\ r.hdr[a].page_flink = new
      /\ \A x \in D :
           /\ r.hdr[x].heap = m.hdr[x].heap
           /\ x # a => r.hdr[x].size = m.hdr[x].size /\ r.hdr[x].page_flink = m.hdr[x].page_flink
           /\ r.hdr[x].page_blink = IF x = right /\ x # NULL THEN new ELSE m.hdr[x].page_blink
  BY DEF Cuts, Header
<1>. HIDE DEF D, right, size, req
<1>6. \A x \in D : \A other \in D : other \notin (x + 1)..(x + m.hdr[x].size - 1)
  BY DEF Blocks, Tiled, D
<1>7. Tiled(r)
  <2>. SUFFICES ASSUME NEW x \in D \cup {new}
       PROVE
    /\ \A other \in D \cup {new} : other \notin (x + 1)..(x + r.hdr[x].size - 1)
    /\ r.hdr[x].page_flink = NULL => (x + r.hdr[x].size) % PageSize = 0
    /\ r.hdr[x].page_flink # NULL =>
         /\ r.hdr[x].page_flink = x + r.hdr[x].size
         /\ r.hdr[x].page_flink \in D \cup {new}
         /\ r.hdr[r.hdr[x].page_flink].page_blink = x
         /\ r.hdr[r.hdr[x].page_flink].heap = r.hdr[x].heap
    /\ r.hdr[x].page_blink # NULL =>
         /\ x # NULL
         /\ r.hdr[x].page_blink \in D \cup {new}
         /\ r.hdr[r.hdr[x].page_blink].page_flink = x
    /\ r.hdr[x].page_blink = NULL =>
         x % PageSize = 0 \/ (NULL \in D \cup {new} /\ r.hdr[NULL].page_flink = x)
    BY <1>5 DEF Tiled
  <2>1. \A other \in D \cup {new} : other \notin (x + 1)..(x + r.hdr[x].size - 1)
    <3>1. CASE x = a
      <4>1. \A other \in D : other \notin (a + 1)..(a + size - 1)
        BY <1>6 DEF size, D
      <4>. QED
        BY <1>1, <1>3, <1>5, <3>1, <4>1
    <3>2. CASE x = new
      <4>1. \A other \in D : other \notin (a + 1)..(a + size - 1)
        BY <1>6 DEF size, D
      <4>. QED
        BY <1>1, <1>3, <1>5, <3>2, <4>1
    <3>3. CASE x \in D \ {a}
      <4>1. r.hdr[x].size = m.hdr[x].size /\ m.hdr[x].size \in Nat
        BY <1>5, <3>3, HeadersOf DEF Blocks, D
      <4>2. a \notin (x + 1)..(x + m.hdr[x].size - 1) /\ x \notin (a + 1)..(a + size - 1)
        BY <1>6, <3>3 DEF size, D
      <4>3. new \notin (x + 1)..(x + m.hdr[x].size - 1)
        BY <1>1, <1>3, <3>3, <4>1, <4>2
      <4>. QED
        BY <1>6, <3>3, <4>1, <4>3
    <3>. QED
      BY <3>1, <3>2, <3>3
  <2>2. r.hdr[x].page_flink = NULL => (x + r.hdr[x].size) % PageSize = 0
    <3>1. CASE x = a
      BY <1>1, <1>3, <1>5, <3>1
    <3>2. CASE x = new
      <4>1. right = NULL => (a + size) % PageSize = 0
        BY DEF Blocks, Tiled, D, right, size
      <4>. QED
        BY <1>3, <1>5, <3>2, <4>1
    <3>3. CASE x \in D \ {a}
      BY <1>5, <3>3 DEF Blocks, Tiled, D
    <3>. QED
      BY <3>1, <3>2, <3>3
  <2>3. ASSUME r.hdr[x].page_flink # NULL
        PROVE
         /\ r.hdr[x].page_flink = x + r.hdr[x].size
         /\ r.hdr[x].page_flink \in D \cup {new}
         /\ r.hdr[r.hdr[x].page_flink].page_blink = x
         /\ r.hdr[r.hdr[x].page_flink].heap = r.hdr[x].heap
    <3>1. CASE x = a
      <4>1. r.hdr[a].heap = h
        BY <1>5 DEF D
      <4>. QED
        BY <1>3, <1>5, <3>1, <4>1
    <3>2. CASE x = new
      BY <1>2, <1>3, <1>5, <2>3, <3>2
    <3>3. CASE x \in D \ {a}
      <4>. DEFINE y == m.hdr[x].page_flink
      <4>1. r.hdr[x].page_flink = y /\ r.hdr[x].size = m.hdr[x].size /\ y # NULL
        BY <1>5, <2>3, <3>3
      <4>2. y \in D /\ m.hdr[y].page_blink = x /\ y = x + m.hdr[x].size /\ m.hdr[y].heap = m.hdr[x].heap
        BY <3>3, <4>1 DEF Blocks, Tiled, D
      <4>3. y # right
        BY <1>2, <3>3, <4>1, <4>2
      <4>. HIDE DEF y
      <4>. QED
        BY <1>5, <3>3, <4>1, <4>2, <4>3
    <3>. QED
      BY <3>1, <3>2, <3>3
  <2>4. /\ r.hdr[x].page_blink # NULL =>
             /\ x # NULL
             /\ r.hdr[x].page_blink \in D \cup {new}
             /\ r.hdr[r.hdr[x].page_blink].page_flink = x
        /\ r.hdr[x].page_blink = NULL =>
             x % PageSize = 0 \/ (NULL \in D \cup {new} /\ r.hdr[NULL].page_flink = x)
    <3>1. CASE x = new
      BY <1>1, <1>3, <1>5, <3>1 DEF D
    <3>2. CASE x = right /\ right # NULL /\ x \in D
      BY <1>1, <1>3, <1>5, <3>2
    <3>3. CASE x \in D /\ ~(x = right /\ right # NULL)
      <4>. DEFINE p == m.hdr[x].page_blink
      <4>1. r.hdr[x].page_blink = p
        BY <1>5, <3>3
      <4>2. ASSUME p # NULL
            PROVE x # NULL /\ p \in D /\ r.hdr[p].page_flink = x
        <5>1. p \in D /\ m.hdr[p].page_flink = x /\ x # NULL
          BY <3>3, <4>2, LeftOf DEF Blocks, D
        <5>2. p # a
          BY <3>3, <5>1 DEF right
        <5>. QED
          BY <1>5, <5>1, <5>2
      <4>3. ASSUME p = NULL
            PROVE x % PageSize = 0 \/ (NULL \in D /\ r.hdr[NULL].page_flink = x)
        <5>1. x % PageSize = 0 \/ (NULL \in D /\ m.hdr[NULL].page_flink = x)
          BY <3>3, <4>3 DEF Blocks, Tiled, D
        <5>2. CASE x % PageSize = 0
          BY <5>2
        <5>3. CASE x % PageSize # 0
          <6>1. x # NULL
            BY <1>1, <5>3, Constants
          <6>2. NULL # a
            BY <3>3, <5>1, <5>3, <6>1 DEF right
          <6>. QED
            BY <1>5, <5>1, <5>3, <6>2
        <5>. QED
          BY <5>2, <5>3
      <4>. HIDE DEF p
      <4>. QED
        BY <4>1, <4>2, <4>3
    <3>. QED
      BY Zenon, <3>1, <3>2, <3>3
  <2>. QED
    BY <2>1, <2>2, <2>3, <2>4
<1>8. Runs(r)
  <2>1. PICK run \in [D -> Nat] : RunsAs(m, run)
    BY DEF Blocks, Runs, D
  <2>. DEFINE run2 == [x \in D \cup {new} |-> IF x = new THEN run[a] ELSE run[x]]
  <2>2. a \in D /\ run[a] \in Nat
    BY <2>1 DEF D
  <2>3. /\ run2 \in [D \cup {new} -> Nat] /\ run2[new] = run[a]
        /\ \A x \in D : run2[x] = run[x]
    BY <1>4, <2>1, <2>2
  <2>. HIDE DEF run2
  <2>4. /\ run[a] <= a /\ a + size <= run[a] + LongestRun /\ LongestRun \in Nat
        /\ right # NULL => run[right] = run[a]
        /\ a # NULL /\ run[a] = NULL => a % PageSize # 0 /\ (a % PageSize) + size <= PageSize
    <3>1. LongestRun \in Nat
      BY Constants DEF LongestRun
    <3>. QED
      BY <2>1, <2>2, <3>1 DEF RunsAs, D, size, right
  <2>5. PageSize \in Nat \ {0} /\ a % PageSize \in Nat
    <3>1. PageSize \in Nat \ {0} /\ a \in Nat
      BY <1>1, Constants
    <3>. QED
      BY <3>1
  <2>6. ASSUME run[a] = NULL
        PROVE  new % PageSize # 0 /\ (new % PageSize) + rest <= PageSize
    <3>1. CASE a = NULL
      BY <3>1
    <3>2. CASE a # NULL
      <4>1. (a % PageSize) + (S + req) < PageSize
        BY <1>1, <1>3, <2>4, <2>5, <2>6, <3>2
      <4>2. new % PageSize = (a % PageSize) + (S + req)
        <5>. DEFINE k == S + req
        <5>1. k \in Nat /\ a + k = new /\ (a % PageSize) + k < PageSize
          BY <1>3, <4>1
        <5>. HIDE DEF k
        <5>2. (a + k) % PageSize = (a % PageSize) + k
          BY <1>1, <2>5, <5>1, Remainder
        <5>3. new % PageSize = (a % PageSize) + k
          BY <5>1, <5>2
        <5>. QED
          BY <5>3 DEF k
      <4>. QED
        BY <1>1, <1>3, <2>4, <2>5, <2>6, <3>2, <4>2
    <3>. QED
      BY <3>1, <3>2
  <2>7. ASSUME NEW x \in D \cup {new}
        PROVE  /\ run2[x] <= x /\ x + r.hdr[x].size <= run2[x] + LongestRun
               /\ r.hdr[x].page_flink # NULL => run2[r.hdr[x].page_flink] = run2[x]
               /\ x # NULL /\ run2[x] = NULL =>
                    x % PageSize # 0 /\ (x % PageSize) + r.hdr[x].size <= PageSize
    <3>1. CASE x = a
      BY SMTT(30), <1>1, <1>3, <1>5, <2>2, <2>3, <2>4, <2>5, <3>1
    <3>2. CASE x = new
      BY <1>1, <1>2, <1>3, <1>5, <2>2, <2>3, <2>4, <2>6, <3>2
    <3>3. CASE x \in D \ {a}
      <4>1. r.hdr[x].size = m.hdr[x].size /\ r.hdr[x].page_flink = m.hdr[x].page_flink
        BY <1>5, <3>3
      <4>2. m.hdr[x].page_flink # NULL => m.hdr[x].page_flink \in D
        BY <3>3, RightOf DEF Blocks, D
      <4>. QED
        BY <2>1, <2>3, <3>3, <4>1, <4>2 DEF RunsAs, D
    <3>. QED
      BY <3>1, <3>2, <3>3
  <2>. QED
    BY <1>5, <2>3, <2>7 DEF RunsAs, Runs
<1>9. High(r)
  <2>1. h = "kernel" => KernelImage <= a /\ KernelImage \in Nat
    BY Constants DEF Blocks, High, D
  <2>. QED
    BY <1>1, <1>3, <1>5, <2>1 DEF Blocks, High, D
<1>10. UnitsOf(r) = UnitsOf(m)
  <2>1. ASSUME NEW u, NEW x \in D, u \in x..(x + m.hdr[x].size - 1)
        PROVE  \E y \in D \cup {new} : u \in y..(y + r.hdr[y].size - 1)
    <3>1. CASE x # a
      BY <1>5, <2>1, <3>1
    <3>2. CASE x = a
      <4>1. u \in Int /\ a <= u /\ u <= new + rest - 1
        BY <1>1, <1>3, <2>1, <3>2 DEF size
      <4>2. ASSUME u < new PROVE u \in a..(a + r.hdr[a].size - 1)
        BY <1>1, <1>3, <1>5, <4>1, <4>2
      <4>3. ASSUME new <= u PROVE u \in new..(new + r.hdr[new].size - 1)
        BY <1>1, <1>3, <1>5, <4>1, <4>3
      <4>. QED
        BY <1>3, <4>1, <4>2, <4>3 DEF D
    <3>. QED
      BY <3>1, <3>2
  <2>2. ASSUME NEW u, NEW x \in D \cup {new}, u \in x..(x + r.hdr[x].size - 1)
        PROVE  \E y \in D : u \in y..(y + m.hdr[y].size - 1)
    <3>1. CASE x \in D \ {a}
      BY <1>5, <2>2, <3>1
    <3>2. CASE x = a \/ x = new
      <4>1. u \in a..(a + size - 1)
        BY <1>1, <1>3, <1>5, <2>2, <3>2
      <4>. QED
        BY <4>1 DEF size, D
    <3>. QED
      BY <3>1, <3>2
  <2>3. \A u : u \in UnitsOf(r) <=> u \in UnitsOf(m)
    BY <1>5, <2>1, <2>2, UnitOf DEF D
  <2>. QED
    BY <2>3
<1>. QED
  BY <1>7, <1>8, <1>9, <1>10 DEF Blocks

\* How many pages a size takes.
LEMMA PagesNeeded ==
  ASSUME NEW size \in Nat
  PROVE  /\ SizeToPages(size) \in Nat
         /\ PageSize * SizeToPages(size) \in Nat
         /\ size <= PageSize * SizeToPages(size)
         /\ PageSize * SizeToPages(size) < size + PageSize
<1>. DEFINE x == size + PageSize - 1
            n == SizeToPages(size)
<1>1. PageSize \in Nat \ {0} /\ x \in Nat
  BY Constants
<1>2. n = x \div PageSize
  BY DEF SizeToPages
<1>. HIDE DEF x, n
<1>3. n \in Nat /\ PageSize * n \in Nat /\ PageSize * n <= x /\ x < PageSize * n + PageSize
  BY <1>1, <1>2, Division
<1>. QED
  BY <1>1, <1>3 DEF x, n

\* It is the least number.
LEMMA PagesLeast ==
  ASSUME NEW size \in Nat, NEW n \in Nat, size <= PageSize * n
  PROVE  SizeToPages(size) <= n
<1>. DEFINE k == SizeToPages(size)
<1>1. k \in Nat /\ PageSize * k \in Nat /\ PageSize * k < size + PageSize
  BY PagesNeeded
<1>. HIDE DEF k
<1>2. PageSize \in Nat /\ PageSize * n \in Nat
  BY Constants
<1>3. ASSUME n + 1 <= k PROVE FALSE
  <2>1. PageSize * (n + 1) <= PageSize * k
    BY <1>1, <1>2, <1>3, ProductMonotone
  <2>2. PageSize * (n + 1) = PageSize * n + PageSize
    BY <1>2
  <2>. QED
    BY <1>1, <1>2, <2>1, <2>2
<1>. QED
  BY <1>1, <1>3 DEF k

\* The sizes that have a class.
LEMMA ClassOf ==
  ASSUME NEW size \in Nat \ {0}, SizeToPages(size) <= 127
  PROVE  HeapGetIndex(size) \in Classes /\ HeapGetIndex(size) \in Nat
<1>. DEFINE p == SizeToPages(size)
<1>1. p \in 1..127
  <2>1. p \in Nat /\ size <= PageSize * p
    BY PagesNeeded
  <2>. HIDE DEF p
  <2>2. p # 0
    <3>1. PageSize * 0 = 0
      BY Constants
    <3>. QED
      BY <2>1, <3>1
  <2>. QED
    BY <2>1, <2>2 DEF p
<1>. HIDE DEF p
<1>2. 2^0 = 1 /\ 2^1 = 2 /\ 2^2 = 4 /\ 2^3 = 8 /\ 2^4 = 16 /\ 2^5 = 32 /\ 2^6 = 64 /\ 2^7 = 128
  OBVIOUS
<1>3. \E k \in Classes : 2^k <= p /\ p < 2^(k + 1)
  <2>1. CASE p < 2
    BY <1>1, <1>2, <2>1 DEF Classes
  <2>2. CASE 2 <= p /\ p < 4
    BY <1>1, <1>2, <2>2 DEF Classes
  <2>3. CASE 4 <= p /\ p < 8
    BY <1>1, <1>2, <2>3 DEF Classes
  <2>4. CASE 8 <= p /\ p < 16
    BY <1>1, <1>2, <2>4 DEF Classes
  <2>5. CASE 16 <= p /\ p < 32
    BY <1>1, <1>2, <2>5 DEF Classes
  <2>6. CASE 32 <= p /\ p < 64
    BY <1>1, <1>2, <2>6 DEF Classes
  <2>7. CASE 64 <= p
    BY <1>1, <1>2, <2>7 DEF Classes
  <2>. QED
    BY <1>1, <2>1, <2>2, <2>3, <2>4, <2>5, <2>6, <2>7
<1>4. HeapGetIndex(size) = CHOOSE k \in Classes : 2^k <= p /\ p < 2^(k + 1)
  BY DEF HeapGetIndex, p
<1>5. HeapGetIndex(size) \in Classes
  BY <1>3, <1>4
<1>. QED
  BY <1>5 DEF Classes

\* The units of some pages.
LEMMA UnitsOfPages ==
  ASSUME NEW u \in Nat, NEW page \in Nat, NEW n \in Nat
  PROVE  u \in (PageSize * page)..(PageSize * page + PageSize * n - 1)
           <=> u \div PageSize \in Run(page, n)
<1>. DEFINE q == u \div PageSize
<1>1. PageSize \in Nat \ {0}
  BY Constants
<1>2. q \in Nat /\ PageSize * q \in Nat /\ PageSize * q <= u /\ u < PageSize * q + PageSize
  BY <1>1, Division
<1>. HIDE DEF q
<1>3. PageSize * page \in Nat /\ PageSize * n \in Nat
      /\ PageSize * (page + n) = PageSize * page + PageSize * n
  BY <1>1
<1>4. ASSUME q \in page..(page + n - 1)
      PROVE  u \in (PageSize * page)..(PageSize * page + PageSize * n - 1)
  <2>1. PageSize * page <= PageSize * q /\ PageSize * (q + 1) <= PageSize * (page + n)
    BY <1>1, <1>2, <1>4, ProductMonotone
  <2>2. PageSize * (q + 1) = PageSize * q + PageSize
    BY <1>1, <1>2
  <2>. QED
    BY <1>1, <1>2, <1>3, <2>1, <2>2
<1>5. ASSUME u \in (PageSize * page)..(PageSize * page + PageSize * n - 1)
      PROVE  q \in page..(page + n - 1)
  <2>1. page <= q
    <3>. SUFFICES ASSUME q + 1 <= page PROVE FALSE
      BY <1>2
    <3>1. PageSize * (q + 1) <= PageSize * page
      BY <1>1, <1>2, ProductMonotone
    <3>2. PageSize * (q + 1) = PageSize * q + PageSize
      BY <1>1, <1>2
    <3>. QED
      BY <1>1, <1>2, <1>3, <1>5, <3>1, <3>2
  <2>2. q < page + n
    <3>. SUFFICES ASSUME page + n <= q PROVE FALSE
      BY <1>2
    <3>1. PageSize * (page + n) <= PageSize * q
      BY <1>1, <1>2, ProductMonotone
    <3>. QED
      BY <1>1, <1>2, <1>3, <1>5, <3>1
  <2>. QED
    BY <1>2, <2>1, <2>2
<1>. QED
  BY <1>4, <1>5 DEF Run, q

\* r has a run of n pages at a as well.
RunAdded(r, m, a, n) ==
  /\ Blocks(r) /\ UnitsOf(r) = UnitsOf(m) \cup a..(a + PageSize * n - 1)
  /\ a \notin DOMAIN m.hdr
  /\ \A E : NoPair(m, E) => NoPair(r, E)

\* Pages without a block get one.
LEMMA AllocTiled ==
  ASSUME NEW m, Blocks(m), NEW page \in Nat, NEW n \in 1..127, NEW h \in Heaps,
         h = "kernel" => KernelImage <= page,
         \A u \in UnitsOf(m) : u \div PageSize \notin Run(page, n),
         NEW a, a = PageSize * page, NEW c \in HeaderType,
         c.size = PageSize * n, c.page_flink = NULL, c.page_blink = NULL, c.heap = h,
         NEW r, MemoryOK(r), DOMAIN r.hdr = DOMAIN m.hdr \cup {a}, r.hdr[a] = c,
         \A x \in DOMAIN m.hdr \ {a} : r.hdr[x] = m.hdr[x]
  PROVE  RunAdded(r, m, a, n)
<1>. DEFINE D == DOMAIN m.hdr
            size == PageSize * n
<1>1. PageSize \in Nat \ {0} /\ a \in Nat /\ size \in Nat \ {0} /\ n \in Nat /\ NULL = 0
  <2>1. PageSize \in Nat \ {0} /\ NULL = 0 /\ a \in Nat /\ size \in Nat
    BY Constants
  <2>2. size # 0
    BY <2>1
  <2>. QED
    BY <2>1, <2>2
<1>2. D \subseteq Nat
  BY DEF Blocks, MemoryOK
<1>3. \A u \in Nat : u \in a..(a + size - 1) => u \notin UnitsOf(m)
  BY <1>1, UnitsOfPages
<1>4. a % PageSize = 0 /\ (a + size) % PageSize = 0
  <2>1. PageSize * (page + n) = a + size /\ page + n \in Nat
    BY <1>1
  <2>2. \A k \in Nat : (PageSize * k) \in Nat /\ (PageSize * k) % PageSize = 0
    <3>. TAKE k \in Nat
    <3>. DEFINE y == PageSize * k
    <3>1. y \in Nat /\ PageSize * k <= y /\ y < PageSize * k + PageSize /\ y - PageSize * k = 0
      BY <1>1
    <3>2. y % PageSize = y - PageSize * k
      <4>. HIDE DEF y
      <4>. QED
        BY ZenonT(30), <1>1, <3>1, Quotient
    <3>. QED
      BY <3>1, <3>2
  <2>. HIDE DEF size
  <2>. QED
    BY <2>1, <2>2
<1>. HIDE DEF D, size
<1>5. \A x \in D : m.hdr[x].size \in Nat \ {0} /\ \A u \in x..(x + m.hdr[x].size - 1) : u \in UnitsOf(m)
  BY HeadersOf, UnitOf DEF Blocks, D
<1>6. a \notin D
  BY <1>1, <1>2, <1>3, <1>5
<1>7. \A x \in D : r.hdr[x] = m.hdr[x]
  BY <1>6 DEF D
<1>8. Tiled(r)
  <2>. SUFFICES ASSUME NEW x \in D \cup {a}
       PROVE
    /\ \A other \in D \cup {a} : other \notin (x + 1)..(x + r.hdr[x].size - 1)
    /\ r.hdr[x].page_flink = NULL => (x + r.hdr[x].size) % PageSize = 0
    /\ r.hdr[x].page_flink # NULL =>
         /\ r.hdr[x].page_flink = x + r.hdr[x].size
         /\ r.hdr[x].page_flink \in D \cup {a}
         /\ r.hdr[r.hdr[x].page_flink].page_blink = x
         /\ r.hdr[r.hdr[x].page_flink].heap = r.hdr[x].heap
    /\ r.hdr[x].page_blink # NULL =>
         /\ x # NULL
         /\ r.hdr[x].page_blink \in D \cup {a}
         /\ r.hdr[r.hdr[x].page_blink].page_flink = x
    /\ r.hdr[x].page_blink = NULL =>
         x % PageSize = 0 \/ (NULL \in D \cup {a} /\ r.hdr[NULL].page_flink = x)
    BY DEF Tiled, D
  <2>1. CASE x = a
    <3>1. ASSUME NEW other \in D \cup {a} PROVE other \notin (a + 1)..(a + size - 1)
      <4>1. CASE other \in D
        <5>2. other \in Nat /\ m.hdr[other].size \in Nat \ {0}
          BY <1>2, <1>5, <4>1
        <5>3. other \in other..(other + m.hdr[other].size - 1)
          BY <5>2
        <5>1. other \in UnitsOf(m) /\ other \in Nat
          BY <1>5, <4>1, <5>2, <5>3
        <5>. QED
          BY <1>1, <1>3, <5>1
      <4>2. CASE other = a
        BY <1>1, <4>2
      <4>. QED
        BY <4>1, <4>2
    <3>. QED
      BY <1>4, <2>1, <3>1 DEF size
  <2>2. CASE x \in D
    <3>1. r.hdr[x] = m.hdr[x]
      BY <1>7, <2>2
    <3>2. a \notin (x + 1)..(x + m.hdr[x].size - 1)
      <4>1. \A u \in x..(x + m.hdr[x].size - 1) : u \in UnitsOf(m)
        BY <1>5, <2>2
      <4>2. a \notin UnitsOf(m)
        BY <1>1, <1>3
      <4>. QED
        BY <1>1, <1>2, <2>2, <4>1, <4>2
    <3>3. \A other \in D : other \notin (x + 1)..(x + m.hdr[x].size - 1)
      BY <2>2 DEF Blocks, Tiled, D
    <3>4. /\ m.hdr[x].page_flink = NULL => (x + m.hdr[x].size) % PageSize = 0
          /\ m.hdr[x].page_flink # NULL =>
               /\ m.hdr[x].page_flink = x + m.hdr[x].size
               /\ m.hdr[x].page_flink \in D
               /\ m.hdr[m.hdr[x].page_flink].page_blink = x
               /\ m.hdr[m.hdr[x].page_flink].heap = m.hdr[x].heap
      BY <2>2 DEF Blocks, Tiled, D
    <3>5. /\ m.hdr[x].page_blink # NULL =>
               /\ x # NULL
               /\ m.hdr[x].page_blink \in D
               /\ m.hdr[m.hdr[x].page_blink].page_flink = x
          /\ m.hdr[x].page_blink = NULL =>
               x % PageSize = 0 \/ (NULL \in D /\ m.hdr[NULL].page_flink = x)
      BY <2>2 DEF Blocks, Tiled, D
    <3>6. m.hdr[x].page_flink # NULL => r.hdr[m.hdr[x].page_flink] = m.hdr[m.hdr[x].page_flink]
      BY <1>7, <3>4
    <3>7. /\ m.hdr[x].page_blink # NULL => r.hdr[m.hdr[x].page_blink] = m.hdr[m.hdr[x].page_blink]
          /\ NULL \in D => r.hdr[NULL] = m.hdr[NULL]
      BY <1>7, <3>5
    <3>. QED
      BY <3>1, <3>2, <3>3, <3>4, <3>5, <3>6, <3>7
  <2>. QED
    BY <2>1, <2>2
<1>9. Runs(r)
  <2>1. PICK run \in [D -> Nat] : RunsAs(m, run)
    BY DEF Blocks, Runs, D
  <2>. DEFINE run2 == [x \in D \cup {a} |-> IF x = a THEN a ELSE run[x]]
  <2>2. run2 \in [D \cup {a} -> Nat] /\ run2[a] = a /\ \A x \in D : run2[x] = run[x]
    BY <1>1, <1>6, <2>1
  <2>. HIDE DEF run2
  <2>3. size <= LongestRun /\ LongestRun \in Nat
    <3>1. PageSize * n <= PageSize * 127
      BY <1>1, ProductMonotone
    <3>. QED
      BY <1>1, <3>1 DEF LongestRun, size
  <2>4. ASSUME NEW x \in D \cup {a}
        PROVE  /\ run2[x] <= x /\ x + r.hdr[x].size <= run2[x] + LongestRun
               /\ r.hdr[x].page_flink # NULL => run2[r.hdr[x].page_flink] = run2[x]
               /\ x # NULL /\ run2[x] = NULL =>
                    x % PageSize # 0 /\ (x % PageSize) + r.hdr[x].size <= PageSize
    <3>1. CASE x = a
      BY <1>1, <2>2, <2>3, <3>1 DEF size
    <3>2. CASE x \in D
      <4>1. r.hdr[x] = m.hdr[x] /\ run2[x] = run[x]
        BY <1>7, <2>2, <3>2
      <4>2. m.hdr[x].page_flink # NULL => m.hdr[x].page_flink \in D
        BY <3>2, RightOf DEF Blocks, D
      <4>. QED
        BY <2>1, <2>2, <3>2, <4>1, <4>2 DEF RunsAs, D
    <3>. QED
      BY <3>1, <3>2
  <2>5. DOMAIN r.hdr = D \cup {a}
    BY DEF D
  <2>. QED
    BY <2>2, <2>4, <2>5 DEF RunsAs, Runs
<1>10. High(r)
  <2>1. h = "kernel" => KernelImage <= a
    <3>1. page <= a /\ KernelImage \in Nat
      <4>1. PageSize >= 1
        BY <1>1
      <4>2. page * 1 <= page * PageSize
        BY <1>1, <4>1, ProductMonotone
      <4>3. page * PageSize = PageSize * page
        BY <1>1
      <4>. QED
        BY <4>2, <4>3, Constants
    <3>. QED
      BY <1>1, <3>1
  <2>. QED
    BY <1>7, <2>1 DEF Blocks, High, D
<1>11. UnitsOf(r) = UnitsOf(m) \cup a..(a + size - 1)
  <2>1. \A u : u \in UnitsOf(r) <=> u \in UnitsOf(m) \/ u \in a..(a + size - 1)
    BY <1>7, UnitOf DEF D, size
  <2>. QED
    BY <2>1
<1>12. ASSUME NEW E, NoPair(m, E) PROVE NoPair(r, E)
  <2>. SUFFICES ASSUME NEW x \in (D \cup {a}) \ {NULL}, r.hdr[x].page_flink # NULL,
                       ~r.hdr[x].used, ~r.hdr[r.hdr[x].page_flink].used
                PROVE  x \in E \/ r.hdr[x].page_flink \in E
    BY DEF NoPair, D
  <2>1. x \in D
    OBVIOUS
  <2>2. r.hdr[x] = m.hdr[x] /\ m.hdr[x].page_flink \in D
    BY <1>7, <2>1, RightOf DEF Blocks, D
  <2>3. r.hdr[m.hdr[x].page_flink] = m.hdr[m.hdr[x].page_flink]
    BY <1>7, <2>2
  <2>. QED
    BY <1>12, <2>1, <2>2, <2>3 DEF NoPair, D
<1>. QED
  BY <1>6, <1>8, <1>9, <1>10, <1>11, <1>12 DEF Blocks, D, size, RunAdded

\* A run of pages that was one block loses it.
LEMMA GoneTiled ==
  ASSUME NEW m, Blocks(m), NEW a \in DOMAIN m.hdr, Standalone(m, a), a % PageSize = 0,
         NEW r, MemoryOK(r), DOMAIN r.hdr = DOMAIN m.hdr \ {a},
         \A x \in DOMAIN m.hdr \ {a} : r.hdr[x] = m.hdr[x]
  PROVE  /\ Blocks(r) /\ UnitsOf(r) \subseteq UnitsOf(m)
         /\ NoPair(m, {a}) => NoPair(r, {})
<1>. DEFINE D == DOMAIN m.hdr
<1>1. PICK run \in [D -> Nat] : RunsAs(m, run)
  BY DEF Blocks, Runs
<1>2. ASSUME NEW x \in D, m.hdr[x].page_flink # NULL
      PROVE  m.hdr[x].page_flink \in D \ {a}
  <2>1. m.hdr[x].page_flink \in D /\ m.hdr[m.hdr[x].page_flink].page_blink = x
    BY <1>2, RightOf DEF Blocks
  <2>2. ASSUME m.hdr[x].page_flink = a PROVE FALSE
    <3>1. x = NULL
      BY <2>1, <2>2 DEF Standalone
    <3>2. run[a] = run[NULL] /\ run[NULL] \in Nat /\ run[NULL] <= NULL /\ a # NULL
      BY <1>1, <1>2, <2>2, <3>1 DEF RunsAs
    <3>. QED
      BY <1>1, <3>2, Constants DEF RunsAs
  <2>. QED
    BY <2>1, <2>2
<1>3. ASSUME NEW x \in D, m.hdr[x].page_blink # NULL
      PROVE  m.hdr[x].page_blink \in D \ {a}
  BY <1>3, LeftOf DEF Blocks, Standalone
<1>. HIDE DEF D
<1>4. Tiled(r)
  <2>. SUFFICES ASSUME NEW x \in D \ {a}
       PROVE
    /\ \A other \in D \ {a} : other \notin (x + 1)..(x + r.hdr[x].size - 1)
    /\ r.hdr[x].page_flink = NULL => (x + r.hdr[x].size) % PageSize = 0
    /\ r.hdr[x].page_flink # NULL =>
         /\ r.hdr[x].page_flink = x + r.hdr[x].size
         /\ r.hdr[x].page_flink \in D \ {a}
         /\ r.hdr[r.hdr[x].page_flink].page_blink = x
         /\ r.hdr[r.hdr[x].page_flink].heap = r.hdr[x].heap
    /\ r.hdr[x].page_blink # NULL =>
         /\ x # NULL
         /\ r.hdr[x].page_blink \in D \ {a}
         /\ r.hdr[r.hdr[x].page_blink].page_flink = x
    /\ r.hdr[x].page_blink = NULL =>
         x % PageSize = 0 \/ (NULL \in D \ {a} /\ r.hdr[NULL].page_flink = x)
    BY DEF Tiled, D
  <2>1. r.hdr[x] = m.hdr[x]
    BY DEF D
  <2>2. /\ m.hdr[x].page_flink # NULL => r.hdr[m.hdr[x].page_flink] = m.hdr[m.hdr[x].page_flink]
        /\ m.hdr[x].page_blink # NULL => r.hdr[m.hdr[x].page_blink] = m.hdr[m.hdr[x].page_blink]
    BY <1>2, <1>3 DEF D
  <2>3. /\ \A other \in D : other \notin (x + 1)..(x + m.hdr[x].size - 1)
        /\ m.hdr[x].page_flink = NULL => (x + m.hdr[x].size) % PageSize = 0
        /\ m.hdr[x].page_flink # NULL =>
             /\ m.hdr[x].page_flink = x + m.hdr[x].size
             /\ m.hdr[m.hdr[x].page_flink].page_blink = x
             /\ m.hdr[m.hdr[x].page_flink].heap = m.hdr[x].heap
        /\ m.hdr[x].page_blink # NULL => x # NULL /\ m.hdr[m.hdr[x].page_blink].page_flink = x
        /\ m.hdr[x].page_blink = NULL =>
             x % PageSize = 0 \/ (NULL \in D /\ m.hdr[NULL].page_flink = x)
    BY DEF Blocks, Tiled, D
  <2>4. ASSUME m.hdr[x].page_blink = NULL, x % PageSize # 0
        PROVE  NULL \in D \ {a} /\ r.hdr[NULL].page_flink = x
    <3>1. NULL \in D /\ m.hdr[NULL].page_flink = x
      BY <2>3, <2>4
    <3>2. NULL # a
      <4>. SUFFICES ASSUME NULL = a PROVE FALSE
        OBVIOUS
      <4>1. x = NULL
        BY <3>1 DEF Standalone
      <4>. QED
        BY <4>1
    <3>. QED
      BY <3>1, <3>2 DEF D
  <2>. QED
    BY <1>2, <1>3, <2>1, <2>2, <2>3, <2>4
<1>5. Runs(r)
  <2>. DEFINE run2 == [x \in D \ {a} |-> run[x]]
  <2>1. run2 \in [D \ {a} -> Nat] /\ \A x \in D \ {a} : run2[x] = run[x]
    BY <1>1
  <2>. HIDE DEF run2
  <2>2. ASSUME NEW x \in D \ {a}
        PROVE  /\ run2[x] <= x /\ x + r.hdr[x].size <= run2[x] + LongestRun
               /\ r.hdr[x].page_flink # NULL => run2[r.hdr[x].page_flink] = run2[x]
               /\ x # NULL /\ run2[x] = NULL =>
                    x % PageSize # 0 /\ (x % PageSize) + r.hdr[x].size <= PageSize
    <3>1. r.hdr[x] = m.hdr[x]
      BY DEF D
    <3>. QED
      BY <1>1, <1>2, <2>1, <3>1 DEF RunsAs, D
  <2>. QED
    BY <2>1, <2>2 DEF RunsAs, Runs, D
<1>6. High(r)
  BY DEF Blocks, High
<1>7. UnitsOf(r) \subseteq UnitsOf(m)
  BY UnitOf
<1>8. ASSUME NoPair(m, {a}) PROVE NoPair(r, {})
  <2>. SUFFICES ASSUME NEW x \in (D \ {a}) \ {NULL}, r.hdr[x].page_flink # NULL,
                       ~r.hdr[x].used, ~r.hdr[r.hdr[x].page_flink].used
                PROVE  FALSE
    BY DEF NoPair, D
  <2>1. r.hdr[x] = m.hdr[x] /\ m.hdr[x].page_flink \in D \ {a}
    BY <1>2 DEF D
  <2>2. r.hdr[m.hdr[x].page_flink] = m.hdr[m.hdr[x].page_flink]
    BY <2>1 DEF D
  <2>. QED
    BY <1>8, <2>1, <2>2 DEF NoPair, D
<1>. QED
  BY <1>4, <1>5, <1>6, <1>7, <1>8 DEF Blocks

\* The pages of the blocks.
PagesOf(m) == {u \div PageSize : u \in UnitsOf(m)}

\* What r has lost of the pages of m was under one table that is gone, but for pages
\* that no block has any more.
OneTable(r, m) ==
  \E d : \A q \in m.mapped \ r.mapped :
    (TableOf(q) = d /\ d \notin r.tables) \/ q \in PagesOf(m) \ PagesOf(r)

\* Blocks do not share a unit.
LEMMA UnitsApart ==
  ASSUME NEW m, Blocks(m), NEW a \in DOMAIN m.hdr, NEW x \in DOMAIN m.hdr \ {a}, NEW u,
         u \in a..(a + m.hdr[a].size - 1), u \in x..(x + m.hdr[x].size - 1)
  PROVE  FALSE
<1>1. /\ a \in Nat /\ x \in Nat /\ x # a /\ m.hdr[a].size \in Nat /\ m.hdr[x].size \in Nat
  BY HeadersOf DEF Blocks
<1>2. /\ x \notin (a + 1)..(a + m.hdr[a].size - 1)
      /\ a \notin (x + 1)..(x + m.hdr[x].size - 1)
  BY DEF Blocks, Tiled
<1>. QED
  BY <1>1, <1>2

\* The pages that go with a run of pages were its block's only.
LEMMA GonePages ==
  ASSUME NEW m, Blocks(m), NEW a \in DOMAIN m.hdr, Standalone(m, a), a % PageSize = 0,
         NEW r, DOMAIN r.hdr = DOMAIN m.hdr \ {a},
         \A x \in DOMAIN m.hdr \ {a} : r.hdr[x] = m.hdr[x],
         NEW q \in Run(a \div PageSize, SizeToPages(m.hdr[a].size))
  PROVE  q \in PagesOf(m) \ PagesOf(r)
<1>. DEFINE size == m.hdr[a].size
            page == a \div PageSize
            end == (a + size) \div PageSize
            pages == SizeToPages(size)
<1>1. PageSize \in Nat \ {0} /\ a \in Nat /\ size \in Nat
  BY HeadersOf, Constants DEF Blocks
<1>2. (a + size) % PageSize = 0
  BY DEF Blocks, Tiled, Standalone
<1>3. page \in Nat /\ PageSize * page \in Nat /\ a = PageSize * page
  BY <1>1, Multiple
<1>4. end \in Nat /\ PageSize * end \in Nat /\ a + size = PageSize * end
  <2>1. a + size \in Nat
    BY <1>1
  <2>. HIDE DEF size
  <2>. QED
    BY <1>1, <1>2, <2>1, Multiple
<1>5. pages \in Nat
  BY <1>1, PagesNeeded
<1>6. q \in page..(page + pages - 1)
  BY DEF Run
<1>. HIDE DEF size, page, end, pages
<1>7. page <= end
  <2>1. page \in Nat /\ end \in Nat /\ PageSize * page <= PageSize * end
    BY <1>1, <1>3, <1>4
  <2>2. ASSUME end + 1 <= page PROVE FALSE
    <3>1. PageSize * (end + 1) <= PageSize * page
      BY <1>1, <2>1, <2>2, ProductMonotone
    <3>2. PageSize * (end + 1) = PageSize * end + PageSize
      BY <1>1, <2>1
    <3>. QED
      BY <1>1, <1>3, <1>4, <2>1, <3>1, <3>2
  <2>. QED
    BY <2>1, <2>2
<1>8. pages <= end - page
  <2>1. end - page \in Nat
    BY <1>3, <1>4, <1>7
  <2>2. PageSize * (end - page) = PageSize * end - PageSize * page
    BY <1>1, <1>3, <1>4
  <2>3. size <= PageSize * (end - page)
    BY <1>1, <1>3, <1>4, <2>2
  <2>. QED
    BY <1>1, <2>1, <2>3, PagesLeast DEF pages
<1>9. q \in Nat /\ page <= q /\ q + 1 <= end
  BY <1>3, <1>4, <1>5, <1>6, <1>8
<1>10. /\ PageSize * q \in Nat /\ a <= PageSize * q
       /\ PageSize * q + PageSize <= a + size
  <2>1. PageSize * page <= PageSize * q /\ PageSize * q \in Nat
    BY <1>1, <1>3, <1>9, ProductMonotone
  <2>2. PageSize * (q + 1) <= PageSize * end
    BY <1>1, <1>4, <1>9, ProductMonotone
  <2>3. PageSize * (q + 1) = PageSize * q + PageSize
    BY <1>1, <1>9
  <2>. QED
    BY <1>3, <1>4, <2>1, <2>2, <2>3
<1>11. q \in PagesOf(m)
  <2>. DEFINE u == PageSize * q
  <2>1. u \in Nat /\ u < u + PageSize
    BY <1>1, <1>10
  <2>2. u \div PageSize = q
    BY <1>1, <1>9, <2>1, Quotient
  <2>3. u \in a..(a + size - 1)
    BY <1>1, <1>10
  <2>4. u \in UnitsOf(m)
    BY <2>3, UnitOf DEF size
  <2>. QED
    BY <2>2, <2>4 DEF PagesOf
<1>12. ASSUME NEW u \in UnitsOf(r), u \div PageSize = q PROVE FALSE
  <2>1. PICK x \in DOMAIN m.hdr \ {a} : u \in x..(x + m.hdr[x].size - 1)
    BY UnitOf
  <2>2. x \in Nat /\ m.hdr[x].size \in Nat
    BY HeadersOf DEF Blocks
  <2>3. u \in Nat
    BY <2>1, <2>2
  <2>4. PageSize * q <= u /\ u < PageSize * q + PageSize
    BY <1>1, <1>12, <2>3, Division
  <2>5. u \in a..(a + size - 1)
    BY <1>1, <1>10, <2>3, <2>4
  <2>. QED
    BY <2>1, <2>5, UnitsApart DEF size
<1>. QED
  BY <1>11, <1>12 DEF PagesOf

-----------------------------------------------------------------------------
(* free finds no more than one unused block on a side, so that its loops turn once. *)

\* Nothing to merge on a side of a block.
Stops(m, x, side) == m.hdr[x][side] = NULL \/ m.hdr[m.hdr[x][side]].used

\* No more than three unused blocks lie one after the other.
Short(m, side) ==
  \A x \in DOMAIN m.hdr :
    LET p == m.hdr[x][side]
        q == m.hdr[p][side]
        r == m.hdr[q][side]
    IN ~Stops(m, x, side) =>
         /\ p \in DOMAIN m.hdr
         /\ ~Stops(m, p, side) /\ ~Stops(m, q, side) => Stops(m, r, side)

\* What Unused computes.
SolvesUnused(f, m, side) ==
  f = [x \in DOMAIN m.hdr |->
         LET p == m.hdr[x][side]
         IN IF p = NULL \/ m.hdr[p].used THEN <<>> ELSE <<p>> \o f[p]]

\* Up to one, two, three blocks.
One(m, x, side) == IF Stops(m, x, side) THEN <<>> ELSE <<m.hdr[x][side]>>
Two(m, x, side) ==
  IF Stops(m, x, side) THEN <<>> ELSE <<m.hdr[x][side]>> \o One(m, m.hdr[x][side], side)
Three(m, x, side) ==
  IF Stops(m, x, side) THEN <<>> ELSE <<m.hdr[x][side]>> \o Two(m, m.hdr[x][side], side)

\* The unused blocks next to one, where no more than one is.
LEMMA UnusedNext ==
  ASSUME NEW m, NEW side, Short(m, side), NEW a \in DOMAIN m.hdr,
         ~Stops(m, a, side) => Stops(m, m.hdr[a][side], side)
  PROVE  Unused(m, a, side) = IF Stops(m, a, side) THEN <<>> ELSE <<m.hdr[a][side]>>
<1>. DEFINE Next1(x) == m.hdr[x][side]
            St(x) == Stops(m, x, side)
            f == [x \in DOMAIN m.hdr |-> Three(m, x, side)]
<1>1. Unused(m, a, side) = (CHOOSE g : SolvesUnused(g, m, side))[a]
  BY DEF Unused, SolvesUnused
<1>2. \A p : <<p>> \o <<>> = <<p>>
  OBVIOUS
<1>3. \A x : St(x) <=> (m.hdr[x][side] = NULL \/ m.hdr[m.hdr[x][side]].used)
  BY DEF Stops
<1>4. ASSUME NEW x \in DOMAIN m.hdr, ~St(x)
      PROVE  Next1(x) \in DOMAIN m.hdr /\ Three(m, Next1(x), side) = Two(m, Next1(x), side)
  <2>. DEFINE p == Next1(x)
              q == Next1(p)
              r == Next1(q)
  <2>1. p \in DOMAIN m.hdr /\ (~St(p) /\ ~St(q) => St(r))
    BY <1>4 DEF Short
  <2>. HIDE DEF Next1, St
  <2>2. One(m, r, side) = IF St(r) THEN <<>> ELSE <<Next1(r)>>
    BY DEF One, St, Next1
  <2>3. /\ One(m, q, side) = IF St(q) THEN <<>> ELSE <<Next1(q)>>
        /\ Two(m, q, side) = IF St(q) THEN <<>> ELSE <<Next1(q)>> \o One(m, Next1(q), side)
    BY DEF One, Two, St, Next1
  <2>4. ~St(p) => One(m, q, side) = Two(m, q, side)
    BY <1>2, <2>1, <2>2, <2>3
  <2>5. /\ Two(m, p, side) = IF St(p) THEN <<>> ELSE <<Next1(p)>> \o One(m, Next1(p), side)
        /\ Three(m, p, side) = IF St(p) THEN <<>> ELSE <<Next1(p)>> \o Two(m, Next1(p), side)
    BY DEF Two, Three, St, Next1
  <2>. QED
    BY <2>1, <2>4, <2>5
<1>5. ASSUME NEW x \in DOMAIN m.hdr
      PROVE  f[x] = LET p == m.hdr[x][side]
                    IN IF p = NULL \/ m.hdr[p].used THEN <<>> ELSE <<p>> \o f[p]
  <2>1. f[x] = Three(m, x, side)
    OBVIOUS
  <2>2. Three(m, x, side) = IF St(x) THEN <<>> ELSE <<m.hdr[x][side]>> \o Two(m, m.hdr[x][side], side)
    BY DEF Three
  <2>3. ~St(x) => f[m.hdr[x][side]] = Two(m, m.hdr[x][side], side)
    BY <1>4
  <2>. HIDE DEF f, St
  <2>. QED
    BY <1>3, <2>1, <2>2, <2>3
<1>6. SolvesUnused(f, m, side)
  <2>1. f = [x \in DOMAIN m.hdr |-> f[x]]
    OBVIOUS
  <2>. HIDE DEF f
  <2>. QED
    BY <1>5, <2>1 DEF SolvesUnused
<1>. DEFINE g == CHOOSE g : SolvesUnused(g, m, side)
<1>7. SolvesUnused(g, m, side)
  BY Zenon, <1>6
<1>. HIDE DEF g
<1>8. ASSUME NEW x \in DOMAIN m.hdr
      PROVE  g[x] = IF St(x) THEN <<>> ELSE <<m.hdr[x][side]>> \o g[m.hdr[x][side]]
  BY <1>7 DEF SolvesUnused, Stops
<1>9. ~St(a) => Next1(a) \in DOMAIN m.hdr /\ St(Next1(a))
  BY <1>4
<1>. HIDE DEF St
<1>. QED
  BY <1>1, <1>2, <1>8, <1>9 DEF g, St

\* What heap_eat_right computes.
SolvesEat(f, m, h, a, s) ==
  f = [t \in SUBSET DOMAIN s |->
         IF t = {} THEN m
         ELSE LET x == Max(t) IN Absorb(HeapRemoveHeader(f[t \ {x}], h, s[x]), a, s[x])]

\* The greatest of one.
LEMMA MaxOfOne == Max({1}) = 1
<1>1. \E x \in {1} : \A y \in {1} : x >= y
  OBVIOUS
<1>. QED
  BY <1>1 DEF Max

\* heap_eat_right with at most one block on the right.
LEMMA EatRightIs ==
  ASSUME NEW m, NEW h, NEW a
  PROVE  /\ Unused(m, a, "page_flink") = <<>> => HeapEatRight(m, h, a) = m
         /\ \A p : Unused(m, a, "page_flink") = <<p>> =>
              HeapEatRight(m, h, a) = Absorb(HeapRemoveHeader(m, h, p), a, p)
<1>. DEFINE s == Unused(m, a, "page_flink")
            g == CHOOSE f : SolvesEat(f, m, h, a, s)
<1>1. HeapEatRight(m, h, a) = g[DOMAIN s]
  BY DEF HeapEatRight, FoldLeft, MapThenFoldSet, SolvesEat
<1>. HIDE DEF s
<1>2. CASE s = <<>>
  <2>. DEFINE f == [t \in SUBSET {} |-> m]
  <2>1. DOMAIN s = {}
    BY <1>2
  <2>2. SolvesEat(f, m, h, a, s)
    BY <2>1 DEF SolvesEat
  <2>3. SolvesEat(g, m, h, a, s)
    BY <2>2
  <2>. HIDE DEF g
  <2>4. g[{}] = m
    BY <2>1, <2>3 DEF SolvesEat
  <2>5. \A p : <<p>> # <<>>
    OBVIOUS
  <2>. QED
    BY <1>1, <1>2, <2>1, <2>4, <2>5 DEF s
<1>3. ASSUME NEW p, s = <<p>> PROVE HeapEatRight(m, h, a) = Absorb(HeapRemoveHeader(m, h, p), a, p)
  <2>. DEFINE v == Absorb(HeapRemoveHeader(m, h, p), a, p)
              f == [t \in SUBSET {1} |-> IF t = {} THEN m ELSE v]
  <2>1. DOMAIN s = {1} /\ s[1] = p
    BY <1>3
  <2>2. \A t \in SUBSET {1} : t = {} \/ t = {1}
    OBVIOUS
  <2>3. SolvesEat(f, m, h, a, s)
    <3>1. ASSUME NEW t \in SUBSET {1}
          PROVE  f[t] = IF t = {} THEN m
                        ELSE LET x == Max(t) IN Absorb(HeapRemoveHeader(f[t \ {x}], h, s[x]), a, s[x])
      <4>1. CASE t = {}
        BY <4>1
      <4>2. CASE t = {1}
        <5>1. Max(t) = 1 /\ t \ {1} = {} /\ {} \in SUBSET {1} /\ t # {}
          BY <4>2, MaxOfOne
        <5>. QED
          BY <2>1, <4>2, <5>1
      <4>. QED
        BY <2>2, <4>1, <4>2
    <3>2. f = [t \in SUBSET {1} |-> f[t]]
      OBVIOUS
    <3>. HIDE DEF f
    <3>. QED
      BY <2>1, <3>1, <3>2 DEF SolvesEat
  <2>4. SolvesEat(g, m, h, a, s)
    BY <2>3
  <2>. HIDE DEF g
  <2>5. g = [t \in SUBSET {1} |->
               IF t = {} THEN m
               ELSE LET x == Max(t) IN Absorb(HeapRemoveHeader(g[t \ {x}], h, s[x]), a, s[x])]
    BY <2>1, <2>4 DEF SolvesEat
  <2>6. g[{}] = m
    BY <2>5
  <2>7. g[{1}] = Absorb(HeapRemoveHeader(g[{1} \ {Max({1})}], h, s[Max({1})]), a, s[Max({1})])
    BY <2>5
  <2>8. {1} \ {1} = {}
    OBVIOUS
  <2>. QED
    BY <1>1, <2>1, <2>6, <2>7, <2>8, MaxOfOne
<1>. QED
  BY <1>2, <1>3 DEF s

\* What heap_melt_left computes.
SolvesMelt(f, m, h, a, s) ==
  f = [t \in SUBSET DOMAIN s |->
         IF t = {} THEN [m |-> m, a |-> a]
         ELSE LET x == Max(t)
              IN [m |-> HeapRemoveHeader(Absorb(f[t \ {x}].m, s[x], f[t \ {x}].a), h, s[x]),
                  a |-> s[x]]]

\* heap_melt_left with at most one block on the left.
LEMMA MeltLeftIs ==
  ASSUME NEW m, NEW h, NEW a
  PROVE  /\ Unused(m, a, "page_blink") = <<>> => HeapMeltLeft(m, h, a) = [m |-> m, a |-> a]
         /\ \A p : Unused(m, a, "page_blink") = <<p>> =>
              HeapMeltLeft(m, h, a) = [m |-> HeapRemoveHeader(Absorb(m, p, a), h, p), a |-> p]
<1>. DEFINE s == Unused(m, a, "page_blink")
            g == CHOOSE f : SolvesMelt(f, m, h, a, s)
            none == [m |-> m, a |-> a]
<1>1. HeapMeltLeft(m, h, a) = g[DOMAIN s]
  BY DEF HeapMeltLeft, FoldLeft, MapThenFoldSet, SolvesMelt
<1>. HIDE DEF s
<1>2. CASE s = <<>>
  <2>. DEFINE f == [t \in SUBSET {} |-> none]
  <2>1. DOMAIN s = {}
    BY <1>2
  <2>2. SolvesMelt(f, m, h, a, s)
    BY <2>1 DEF SolvesMelt
  <2>3. SolvesMelt(g, m, h, a, s)
    BY <2>2
  <2>. HIDE DEF g
  <2>4. g[{}] = none
    BY <2>1, <2>3 DEF SolvesMelt
  <2>5. \A p : <<p>> # <<>>
    OBVIOUS
  <2>. QED
    BY <1>1, <1>2, <2>1, <2>4, <2>5 DEF s
<1>3. ASSUME NEW p, s = <<p>>
      PROVE  HeapMeltLeft(m, h, a) = [m |-> HeapRemoveHeader(Absorb(m, p, a), h, p), a |-> p]
  <2>. DEFINE v == [m |-> HeapRemoveHeader(Absorb(m, p, a), h, p), a |-> p]
              f == [t \in SUBSET {1} |-> IF t = {} THEN none ELSE v]
  <2>1. DOMAIN s = {1} /\ s[1] = p
    BY <1>3
  <2>2. \A t \in SUBSET {1} : t = {} \/ t = {1}
    OBVIOUS
  <2>9. none.m = m /\ none.a = a
    OBVIOUS
  <2>3. SolvesMelt(f, m, h, a, s)
    <3>1. ASSUME NEW t \in SUBSET {1}
          PROVE  f[t] = IF t = {} THEN [m |-> m, a |-> a]
                        ELSE LET x == Max(t)
                             IN [m |-> HeapRemoveHeader(Absorb(f[t \ {x}].m, s[x], f[t \ {x}].a), h, s[x]),
                                 a |-> s[x]]
      <4>1. CASE t = {}
        BY <4>1
      <4>2. CASE t = {1}
        <5>1. Max(t) = 1 /\ t \ {1} = {} /\ {} \in SUBSET {1} /\ t # {}
          BY <4>2, MaxOfOne
        <5>2. f[t \ {Max(t)}] = none /\ f[t] = v
          BY <4>2, <5>1
        <5>. HIDE DEF f, none
        <5>. QED
          BY <2>1, <2>9, <4>2, <5>1, <5>2
      <4>. QED
        BY <2>2, <4>1, <4>2
    <3>2. f = [t \in SUBSET {1} |-> f[t]]
      OBVIOUS
    <3>. HIDE DEF f
    <3>. QED
      BY <2>1, <3>1, <3>2 DEF SolvesMelt
  <2>4. SolvesMelt(g, m, h, a, s)
    BY <2>3
  <2>. HIDE DEF g
  <2>5. g = [t \in SUBSET {1} |->
               IF t = {} THEN none
               ELSE LET x == Max(t)
                    IN [m |-> HeapRemoveHeader(Absorb(g[t \ {x}].m, s[x], g[t \ {x}].a), h, s[x]),
                        a |-> s[x]]]
    BY <2>1, <2>4 DEF SolvesMelt
  <2>. HIDE DEF none
  <2>6. g[{}] = none
    BY <2>5
  <2>7. g[{1}] = [m |-> HeapRemoveHeader(
                          Absorb(g[{1} \ {Max({1})}].m, s[Max({1})], g[{1} \ {Max({1})}].a),
                          h, s[Max({1})]),
                  a |-> s[Max({1})]]
    BY <2>5
  <2>8. {1} \ {1} = {}
    OBVIOUS
  <2>. QED
    BY <1>1, <2>1, <2>6, <2>7, <2>8, <2>9, MaxOfOne
<1>. QED
  BY <1>2, <1>3 DEF s

\* Two unused neighbours, one of which is the block at a.
LEMMA PairHas ==
  ASSUME NEW m, Blocks(m), NEW a, NoPair(m, {a}),
         NEW x \in DOMAIN m.hdr, ~m.hdr[x].used, x # NULL,
         NEW y, y = m.hdr[x].page_flink, y # NULL, ~m.hdr[y].used
  PROVE  x = a \/ y = a
BY DEF NoPair

\* The block to the right of one, if it is unused.
LEMMA NextRight ==
  ASSUME NEW m, Blocks(m), NEW x \in DOMAIN m.hdr, ~Stops(m, x, "page_flink")
  PROVE  LET p == m.hdr[x].page_flink IN
         p \in DOMAIN m.hdr /\ p # NULL /\ ~m.hdr[p].used /\ x < p /\ p \in Nat /\ x \in Nat
BY RightOf, HeadersOf DEF Blocks, Stops

\* And the one to the left.
LEMMA NextLeft ==
  ASSUME NEW m, Blocks(m), NEW x \in DOMAIN m.hdr, ~Stops(m, x, "page_blink")
  PROVE  LET p == m.hdr[x].page_blink IN
         /\ p \in DOMAIN m.hdr /\ p # NULL /\ ~m.hdr[p].used /\ p < x /\ p \in Nat /\ x \in Nat
         /\ m.hdr[p].page_flink = x /\ x # NULL
BY LeftOf, HeadersOf DEF Blocks, Stops

\* Where no unused blocks are neighbours but for the one at a, it has one unused
\* neighbour on a side, and no four unused blocks follow each other.
LEMMA ShortRight ==
  ASSUME NEW m, Blocks(m), NEW a, NoPair(m, {a})
  PROVE  /\ Short(m, "page_flink")
         /\ a \in DOMAIN m.hdr /\ ~Stops(m, a, "page_flink") =>
              Stops(m, m.hdr[a].page_flink, "page_flink")
<1>1. ASSUME NEW x \in DOMAIN m.hdr, ~Stops(m, x, "page_flink")
      PROVE  LET p == m.hdr[x].page_flink
                 q == m.hdr[p].page_flink
                 r == m.hdr[q].page_flink
             IN /\ p \in DOMAIN m.hdr
                /\ ~Stops(m, p, "page_flink") /\ ~Stops(m, q, "page_flink")
                     => Stops(m, r, "page_flink")
  <2>. DEFINE p == m.hdr[x].page_flink
              q == m.hdr[p].page_flink
              r == m.hdr[q].page_flink
              s == m.hdr[r].page_flink
  <2>1. p \in DOMAIN m.hdr /\ p # NULL /\ ~m.hdr[p].used /\ p \in Nat
    BY <1>1, NextRight
  <2>2. ASSUME ~Stops(m, p, "page_flink"), ~Stops(m, q, "page_flink"), ~Stops(m, r, "page_flink")
        PROVE  FALSE
    <3>. HIDE DEF p
    <3>1. q \in DOMAIN m.hdr /\ q # NULL /\ ~m.hdr[q].used /\ p < q /\ q \in Nat
      BY <2>1, <2>2, NextRight
    <3>2. p = a \/ q = a
      BY ZenonT(30), <2>1, <3>1, PairHas
    <3>. HIDE DEF q
    <3>3. r \in DOMAIN m.hdr /\ r # NULL /\ ~m.hdr[r].used /\ q < r /\ r \in Nat
      BY <2>2, <3>1, NextRight
    <3>. HIDE DEF r
    <3>4. s \in DOMAIN m.hdr /\ s # NULL /\ ~m.hdr[s].used /\ r < s /\ s \in Nat
      BY <2>2, <3>3, NextRight
    <3>5. r = a \/ s = a
      BY ZenonT(30), <3>3, <3>4, PairHas
    <3>. QED
      BY <2>1, <3>1, <3>2, <3>3, <3>4, <3>5
  <2>. QED
    BY <2>1, <2>2
<1>2. ASSUME a \in DOMAIN m.hdr, ~Stops(m, a, "page_flink"),
             ~Stops(m, m.hdr[a].page_flink, "page_flink")
      PROVE  FALSE
  <2>. DEFINE p == m.hdr[a].page_flink
              q == m.hdr[p].page_flink
  <2>1. p \in DOMAIN m.hdr /\ p # NULL /\ ~m.hdr[p].used /\ a < p /\ p \in Nat /\ a \in Nat
    BY <1>2, NextRight
  <2>. HIDE DEF p
  <2>2. q \in DOMAIN m.hdr /\ q # NULL /\ ~m.hdr[q].used /\ p < q /\ q \in Nat
    BY <1>2, <2>1, NextRight DEF p
  <2>3. p = a \/ q = a
    BY <2>1, <2>2, PairHas
  <2>. QED
    BY <2>1, <2>2, <2>3
<1>3. Short(m, "page_flink")
  BY <1>1 DEF Short
<1>. QED
  BY <1>2, <1>3

\* The same to the left.
LEMMA ShortLeft ==
  ASSUME NEW m, Blocks(m), NEW a, NoPair(m, {a})
  PROVE  /\ Short(m, "page_blink")
         /\ a \in DOMAIN m.hdr /\ ~Stops(m, a, "page_blink") =>
              Stops(m, m.hdr[a].page_blink, "page_blink")
<1>1. ASSUME NEW x \in DOMAIN m.hdr, ~Stops(m, x, "page_blink")
      PROVE  LET p == m.hdr[x].page_blink
                 q == m.hdr[p].page_blink
                 r == m.hdr[q].page_blink
             IN /\ p \in DOMAIN m.hdr
                /\ ~Stops(m, p, "page_blink") /\ ~Stops(m, q, "page_blink")
                     => Stops(m, r, "page_blink")
  <2>. DEFINE p == m.hdr[x].page_blink
              q == m.hdr[p].page_blink
              r == m.hdr[q].page_blink
              s == m.hdr[r].page_blink
  <2>1. p \in DOMAIN m.hdr /\ p # NULL /\ ~m.hdr[p].used /\ p \in Nat
    BY <1>1, NextLeft
  <2>2. ASSUME ~Stops(m, p, "page_blink"), ~Stops(m, q, "page_blink"), ~Stops(m, r, "page_blink")
        PROVE  FALSE
    <3>. HIDE DEF p
    <3>1. q \in DOMAIN m.hdr /\ q # NULL /\ ~m.hdr[q].used /\ q < p /\ q \in Nat /\ m.hdr[q].page_flink = p
      BY <2>1, <2>2, NextLeft
    <3>2. p = a \/ q = a
      BY <2>1, <3>1, PairHas
    <3>. HIDE DEF q
    <3>3. r \in DOMAIN m.hdr /\ r # NULL /\ ~m.hdr[r].used /\ r < q /\ r \in Nat
      BY <2>2, <3>1, NextLeft
    <3>. HIDE DEF r
    <3>4. s \in DOMAIN m.hdr /\ s # NULL /\ ~m.hdr[s].used /\ s < r /\ s \in Nat /\ m.hdr[s].page_flink = r
      BY <2>2, <3>3, NextLeft
    <3>5. r = a \/ s = a
      BY <3>3, <3>4, PairHas
    <3>. QED
      BY <2>1, <3>1, <3>2, <3>3, <3>4, <3>5
  <2>. QED
    BY <2>1, <2>2
<1>2. ASSUME a \in DOMAIN m.hdr, ~Stops(m, a, "page_blink"),
             ~Stops(m, m.hdr[a].page_blink, "page_blink")
      PROVE  FALSE
  <2>. DEFINE p == m.hdr[a].page_blink
              q == m.hdr[p].page_blink
  <2>1. p \in DOMAIN m.hdr /\ p # NULL /\ ~m.hdr[p].used /\ p < a /\ p \in Nat /\ a \in Nat
    BY <1>2, NextLeft
  <2>. HIDE DEF p
  <2>2. q \in DOMAIN m.hdr /\ q # NULL /\ ~m.hdr[q].used /\ q < p /\ q \in Nat /\ m.hdr[q].page_flink = p
    BY <1>2, <2>1, NextLeft DEF p
  <2>3. p = a \/ q = a
    BY <2>1, <2>2, PairHas
  <2>. QED
    BY <2>1, <2>2, <2>3
<1>3. Short(m, "page_blink")
  BY <1>1 DEF Short
<1>. QED
  BY <1>2, <1>3

-----------------------------------------------------------------------------
(* The free lists.  A rank shows that following the links back ends at the head. *)

\* The links of a list go both ways, and its first block has none before it.  The
\* block at NULL is never reached, so its links do not count.
Linked(m) ==
  /\ \A h \in Heaps, i \in Classes :
       m.free_blocks[h][i] # NULL =>
         /\ m.free_blocks[h][i] \in DOMAIN m.hdr
         /\ m.hdr[m.free_blocks[h][i]].heap = h
         /\ m.hdr[m.free_blocks[h][i]].index = i
         /\ m.hdr[m.free_blocks[h][i]].blink = NULL
  /\ \A a \in DOMAIN m.hdr \ {NULL} :
       /\ m.hdr[a].flink # NULL =>
            /\ m.hdr[a].flink \in DOMAIN m.hdr
            /\ m.hdr[m.hdr[a].flink].blink = a
            /\ m.hdr[m.hdr[a].flink].heap = m.hdr[a].heap
            /\ m.hdr[m.hdr[a].flink].index = m.hdr[a].index
       /\ m.hdr[a].blink # NULL =>
            m.hdr[a].blink \in DOMAIN m.hdr /\ m.hdr[m.hdr[a].blink].flink = a

\* A block that is in no list.
Loose(m, a) ==
  a # NULL =>
    /\ m.hdr[a].flink = NULL /\ m.hdr[a].blink = NULL
    /\ \A h \in Heaps, i \in Classes : m.free_blocks[h][i] # a

\* Each block of F is first in its list, or comes after another one.
FiledAs(m, F, rank) ==
  \A a \in F :
    /\ a \in DOMAIN m.hdr /\ a # NULL
    /\ m.hdr[a].blink = NULL => m.free_blocks[m.hdr[a].heap][m.hdr[a].index] = a
    /\ m.hdr[a].blink # NULL => rank[m.hdr[a].blink] < rank[a]

Filed(m, F) == \E rank \in [DOMAIN m.hdr -> Nat] : FiledAs(m, F, rank)

\* The class a block is kept under is that of its size.
Classed(m, F) == \A a \in F : m.hdr[a].index = HeapGetIndex(m.hdr[a].size - S)

\* The fields by which lists are kept.
SameLinks(r, m, x) ==
  /\ r.hdr[x].flink = m.hdr[x].flink /\ r.hdr[x].blink = m.hdr[x].blink
  /\ r.hdr[x].heap = m.hdr[x].heap /\ r.hdr[x].index = m.hdr[x].index

\* What changes nothing in the lists.
LEMMA LinkedSame ==
  ASSUME NEW m, MemoryOK(m), Linked(m), NEW r, r.free_blocks = m.free_blocks,
         DOMAIN r.hdr = DOMAIN m.hdr, \A x \in DOMAIN m.hdr : SameLinks(r, m, x)
  PROVE  /\ Linked(r)
         /\ \A x \in DOMAIN m.hdr : Loose(m, x) <=> Loose(r, x)
         /\ \A F : Filed(m, F) => Filed(r, F)
<1>1. Linked(r)
  BY DEF Linked, SameLinks
<1>2. \A x \in DOMAIN m.hdr : Loose(m, x) <=> Loose(r, x)
  BY DEF Loose, SameLinks
<1>3. ASSUME NEW F, Filed(m, F) PROVE Filed(r, F)
  <2>1. PICK rank \in [DOMAIN m.hdr -> Nat] : FiledAs(m, F, rank)
    BY <1>3 DEF Filed
  <2>2. FiledAs(r, F, rank)
    BY <2>1 DEF FiledAs, SameLinks
  <2>. QED
    BY <2>2 DEF Filed
<1>. QED
  BY <1>1, <1>2, <1>3

\* A block that is in no list is forgotten.
LEMMA LinkedWithout ==
  ASSUME NEW m, MemoryOK(m), Linked(m), NEW b, Loose(m, b), NEW r, r.free_blocks = m.free_blocks,
         DOMAIN r.hdr = DOMAIN m.hdr \ {b},
         \A x \in DOMAIN m.hdr \ {b} : SameLinks(r, m, x)
  PROVE  /\ Linked(r)
         /\ \A x \in DOMAIN m.hdr \ {b} : Loose(m, x) <=> Loose(r, x)
         /\ \A F : b \notin F /\ Filed(m, F) => Filed(r, F)
<1>1. \A x \in DOMAIN m.hdr \ {NULL, b} : m.hdr[x].flink # NULL => m.hdr[x].flink # b
  BY DEF Linked, Loose
<1>2. \A x \in DOMAIN m.hdr \ {NULL, b} : m.hdr[x].blink # NULL => m.hdr[x].blink # b
  BY DEF Linked, Loose
<1>3. \A h \in Heaps, i \in Classes : m.free_blocks[h][i] # NULL => m.free_blocks[h][i] # b
  BY DEF Loose
<1>4. Linked(r)
  BY <1>1, <1>2, <1>3 DEF Linked, SameLinks
<1>5. \A x \in DOMAIN m.hdr \ {b} : Loose(m, x) <=> Loose(r, x)
  BY DEF Loose, SameLinks
<1>6. ASSUME NEW F, b \notin F, Filed(m, F) PROVE Filed(r, F)
  <2>1. PICK rank \in [DOMAIN m.hdr -> Nat] : FiledAs(m, F, rank)
    BY <1>6 DEF Filed
  <2>. DEFINE rank2 == [x \in DOMAIN r.hdr |-> rank[x]]
  <2>2. rank2 \in [DOMAIN r.hdr -> Nat]
    OBVIOUS
  <2>3. \A x \in F : x \in DOMAIN m.hdr \ {NULL, b}
    BY <1>6, <2>1 DEF FiledAs
  <2>4. \A x \in F : m.hdr[x].blink # NULL => m.hdr[x].blink \in DOMAIN r.hdr
    BY <1>2, <2>3 DEF Linked
  <2>5. FiledAs(r, F, rank2)
    BY <2>1, <2>3, <2>4 DEF FiledAs, SameLinks
  <2>. HIDE DEF rank2
  <2>. QED
    BY <2>2, <2>5 DEF Filed
<1>. QED
  BY <1>4, <1>5, <1>6

\* A block that is in no list is new.
LEMMA LinkedWith ==
  ASSUME NEW m, MemoryOK(m), Linked(m), NEW b, b \notin DOMAIN m.hdr,
         NEW r, r.free_blocks = m.free_blocks,
         DOMAIN r.hdr = DOMAIN m.hdr \cup {b}, r.hdr[b].flink = NULL, r.hdr[b].blink = NULL,
         \A x \in DOMAIN m.hdr : SameLinks(r, m, x)
  PROVE  /\ Linked(r)
         /\ Loose(r, b)
         /\ \A x \in DOMAIN m.hdr : Loose(m, x) <=> Loose(r, x)
         /\ \A F : Filed(m, F) => Filed(r, F)
<1>1. Linked(r)
  BY DEF Linked, SameLinks
<1>2. \A x \in DOMAIN m.hdr : Loose(m, x) <=> Loose(r, x)
  BY DEF Loose, SameLinks
<1>3. Loose(r, b)
  BY DEF Loose, Linked
<1>4. ASSUME NEW F, Filed(m, F) PROVE Filed(r, F)
  <2>1. PICK rank \in [DOMAIN m.hdr -> Nat] : FiledAs(m, F, rank)
    BY <1>4 DEF Filed
  <2>. DEFINE rank2 == [x \in DOMAIN r.hdr |-> IF x = b THEN 0 ELSE rank[x]]
  <2>2. rank2 \in [DOMAIN r.hdr -> Nat]
    OBVIOUS
  <2>3. \A x \in F : x \in DOMAIN m.hdr \ {NULL}
    BY <2>1 DEF FiledAs
  <2>4. \A x \in F : m.hdr[x].blink # NULL => m.hdr[x].blink \in DOMAIN m.hdr
    BY <2>3 DEF Linked
  <2>5. FiledAs(r, F, rank2)
    BY SMTT(30), <2>1, <2>3, <2>4 DEF FiledAs, SameLinks
  <2>. HIDE DEF rank2
  <2>. QED
    BY <2>2, <2>5 DEF Filed
<1>. QED
  BY <1>1, <1>2, <1>3, <1>4

\* A block leaves its list.
LEMMA LinkedUnlists ==
  ASSUME NEW m, MemoryOK(m), Linked(m), NEW a \in DOMAIN m.hdr, a # NULL,
         NEW h, h = m.hdr[a].heap, NEW n, Unlists(n, m, h, a)
  PROVE  /\ Linked(n)
         /\ Loose(n, a)
         /\ \A x \in DOMAIN m.hdr : Loose(m, x) => Loose(n, x)
<1>. DEFINE b == m.hdr[a]
<1>1. /\ b.index \in Classes /\ h \in Heaps /\ b.flink \in Nat /\ b.blink \in Nat
      /\ DOMAIN n.hdr = DOMAIN m.hdr
      /\ \A x \in DOMAIN m.hdr : n.hdr[x].heap = m.hdr[x].heap /\ n.hdr[x].index = m.hdr[x].index
  BY Zenon, HeadersOf DEF Unlists, SameBlocks
<1>2. ASSUME NEW k \in Heaps, NEW i \in Classes
      PROVE  n.free_blocks[k][i] = IF k = h /\ i = b.index /\ m.free_blocks[k][i] = a
                                   THEN b.flink ELSE m.free_blocks[k][i]
  BY <1>1 DEF Unlists, MemoryOK
<1>3. ASSUME NEW x \in DOMAIN m.hdr
      PROVE  /\ n.hdr[x].flink = IF x = a THEN NULL
                                 ELSE IF x = b.blink /\ x # NULL THEN b.flink
                                 ELSE m.hdr[x].flink
             /\ n.hdr[x].blink = IF x = a THEN NULL
                                 ELSE IF x = b.flink /\ x # NULL THEN b.blink
                                 ELSE m.hdr[x].blink
  BY DEF Unlists
<1>4. /\ b.flink # NULL => /\ b.flink \in DOMAIN m.hdr
                           /\ m.hdr[b.flink].blink = a
                           /\ m.hdr[b.flink].heap = h
                           /\ m.hdr[b.flink].index = b.index
      /\ b.blink # NULL => b.blink \in DOMAIN m.hdr /\ m.hdr[b.blink].flink = a
  BY DEF Linked
<1>5. (b.flink # a /\ b.blink # a) \/ (b.flink = a /\ b.blink = a)
  BY <1>4
<1>. HIDE DEF b
<1>6. ASSUME NEW k \in Heaps, NEW i \in Classes, n.free_blocks[k][i] # NULL
      PROVE  /\ n.free_blocks[k][i] \in DOMAIN m.hdr
             /\ n.hdr[n.free_blocks[k][i]].heap = k
             /\ n.hdr[n.free_blocks[k][i]].index = i
             /\ n.hdr[n.free_blocks[k][i]].blink = NULL
             /\ n.free_blocks[k][i] # a
  <2>. DEFINE c == m.free_blocks[k][i]
  <2>1. c # NULL => c \in DOMAIN m.hdr /\ m.hdr[c].heap = k /\ m.hdr[c].index = i /\ m.hdr[c].blink = NULL
    BY DEF Linked
  <2>. HIDE DEF c
  <2>2. CASE c = a
    <3>1. k = h /\ i = b.index /\ b.blink = NULL /\ n.free_blocks[k][i] = b.flink
      BY <1>1, <1>2, <2>1, <2>2 DEF c, b
    <3>2. b.flink # a
      BY <1>4, <1>6, <2>1, <2>2, <3>1
    <3>. QED
      BY <1>1, <1>3, <1>4, <1>6, <3>1, <3>2
  <2>3. CASE c # a
    <3>1. n.free_blocks[k][i] = c
      BY <1>2, <2>3 DEF c
    <3>2. c # b.flink
      BY <1>4, <1>6, <2>1, <3>1
    <3>. QED
      BY <1>1, <1>3, <1>6, <2>1, <2>3, <3>1, <3>2
  <2>. QED
    BY <2>2, <2>3
<1>7. ASSUME NEW x \in DOMAIN m.hdr, x # NULL
      PROVE  /\ n.hdr[x].flink # NULL =>
                  /\ n.hdr[x].flink \in DOMAIN m.hdr
                  /\ n.hdr[n.hdr[x].flink].blink = x
                  /\ n.hdr[n.hdr[x].flink].heap = n.hdr[x].heap
                  /\ n.hdr[n.hdr[x].flink].index = n.hdr[x].index
             /\ n.hdr[x].blink # NULL =>
                  n.hdr[x].blink \in DOMAIN m.hdr /\ n.hdr[n.hdr[x].blink].flink = x
  <2>. DEFINE f == m.hdr[x].flink
              g == m.hdr[x].blink
  <2>1. /\ f # NULL => f \in DOMAIN m.hdr /\ m.hdr[f].blink = x /\ m.hdr[f].heap = m.hdr[x].heap
                       /\ m.hdr[f].index = m.hdr[x].index
        /\ g # NULL => g \in DOMAIN m.hdr /\ m.hdr[g].flink = x
    BY <1>7 DEF Linked
  <2>2. x = a => f = b.flink /\ g = b.blink
    BY DEF b
  <2>3. b.blink # NULL => m.hdr[b.blink].heap = h /\ m.hdr[b.blink].index = b.index
    BY <1>4 DEF Linked, b
  <2>4. n.hdr[x].heap = m.hdr[x].heap /\ n.hdr[x].index = m.hdr[x].index
    BY <1>1
  <2>5. n.hdr[x].flink = IF x = a THEN NULL ELSE IF x = b.blink THEN b.flink ELSE f
    BY <1>3, <1>7
  <2>6. n.hdr[x].blink = IF x = a THEN NULL ELSE IF x = b.flink THEN b.blink ELSE g
    BY <1>3, <1>7
  <2>. HIDE DEF f, g
  <2>7. CASE x = a
    BY <2>5, <2>6, <2>7
  <2>8. ASSUME x # a
        PROVE  n.hdr[x].flink # NULL =>
                  /\ n.hdr[x].flink \in DOMAIN m.hdr
                  /\ n.hdr[n.hdr[x].flink].blink = x
                  /\ n.hdr[n.hdr[x].flink].heap = n.hdr[x].heap
                  /\ n.hdr[n.hdr[x].flink].index = n.hdr[x].index
    <3>1. CASE x = b.blink
      BY <1>1, <1>3, <1>4, <1>5, <1>7, <2>3, <2>4, <2>5, <2>8, <3>1
    <3>2. CASE x # b.blink
      <4>1. f # NULL => f # a
        BY <2>1, <3>2 DEF b
      <4>2. f # NULL => f # b.flink
        BY <1>4, <2>1, <2>8
      <4>. QED
        BY <1>1, <1>3, <2>1, <2>4, <2>5, <2>8, <3>2, <4>1, <4>2
    <3>. QED
      BY <3>1, <3>2
  <2>9. ASSUME x # a
        PROVE  n.hdr[x].blink # NULL =>
                  n.hdr[x].blink \in DOMAIN m.hdr /\ n.hdr[n.hdr[x].blink].flink = x
    <3>1. CASE x = b.flink
      BY <1>1, <1>3, <1>4, <1>5, <1>7, <2>6, <2>9, <3>1
    <3>2. CASE x # b.flink
      <4>1. g # NULL => g # a
        BY <2>1, <3>2 DEF b
      <4>2. g # NULL => g # b.blink
        BY <1>4, <2>1, <2>9
      <4>. QED
        BY <1>1, <1>3, <2>1, <2>6, <2>9, <3>2, <4>1, <4>2
    <3>. QED
      BY <3>1, <3>2
  <2>. QED
    BY <2>7, <2>8, <2>9
<1>8. Linked(n)
  BY <1>1, <1>6, <1>7 DEF Linked
<1>9. Loose(n, a)
  BY <1>3, <1>6 DEF Loose
<1>10. ASSUME NEW x \in DOMAIN m.hdr, Loose(m, x) PROVE Loose(n, x)
  <2>. SUFFICES ASSUME x # NULL, x # a PROVE Loose(n, x)
    BY <1>9 DEF Loose
  <2>1. m.hdr[x].flink = NULL /\ m.hdr[x].blink = NULL /\ \A k \in Heaps, i \in Classes : m.free_blocks[k][i] # x
    BY <1>10 DEF Loose
  <2>2. x # b.flink /\ x # b.blink
    BY <1>4, <2>1
  <2>. QED
    BY <1>2, <1>3, <2>1, <2>2 DEF Loose
<1>. QED
  BY <1>8, <1>9, <1>10

\* The others stay in theirs.
LEMMA FiledUnlists ==
  ASSUME NEW m, MemoryOK(m), Linked(m), NEW a \in DOMAIN m.hdr, a # NULL,
         NEW h, h = m.hdr[a].heap, NEW n, Unlists(n, m, h, a),
         NEW F, Filed(m, F), a \in F \/ m.hdr[a].flink \notin F
  PROVE  Filed(n, F \ {a})
<1>. DEFINE b == m.hdr[a]
<1>1. /\ b.index \in Classes /\ h \in Heaps /\ b.flink \in Nat /\ b.blink \in Nat
      /\ DOMAIN n.hdr = DOMAIN m.hdr
      /\ \A x \in DOMAIN m.hdr : n.hdr[x].heap = m.hdr[x].heap /\ n.hdr[x].index = m.hdr[x].index
  BY Zenon, HeadersOf DEF Unlists, SameBlocks
<1>2. ASSUME NEW k \in Heaps, NEW i \in Classes
      PROVE  n.free_blocks[k][i] = IF k = h /\ i = b.index /\ m.free_blocks[k][i] = a
                                   THEN b.flink ELSE m.free_blocks[k][i]
  BY <1>1 DEF Unlists, MemoryOK
<1>3. ASSUME NEW x \in DOMAIN m.hdr
      PROVE  n.hdr[x].blink = IF x = a THEN NULL
                              ELSE IF x = b.flink /\ x # NULL THEN b.blink
                              ELSE m.hdr[x].blink
  BY DEF Unlists
<1>4. /\ b.flink # NULL => /\ b.flink \in DOMAIN m.hdr
                           /\ m.hdr[b.flink].blink = a
                           /\ m.hdr[b.flink].heap = h
                           /\ m.hdr[b.flink].index = b.index
      /\ b.blink # NULL => b.blink \in DOMAIN m.hdr
  BY DEF Linked
<1>5. PICK rank \in [DOMAIN m.hdr -> Nat] : FiledAs(m, F, rank)
  BY DEF Filed
<1>6. ASSUME NEW x \in F \ {a}
      PROVE  /\ x \in DOMAIN m.hdr /\ x # NULL
             /\ n.hdr[x].blink = NULL => n.free_blocks[n.hdr[x].heap][n.hdr[x].index] = x
             /\ n.hdr[x].blink # NULL => rank[n.hdr[x].blink] < rank[x]
  <2>1. /\ x \in DOMAIN m.hdr /\ x # NULL
        /\ m.hdr[x].blink = NULL => m.free_blocks[m.hdr[x].heap][m.hdr[x].index] = x
        /\ m.hdr[x].blink # NULL => rank[m.hdr[x].blink] < rank[x]
    BY <1>5 DEF FiledAs
  <2>2. m.hdr[x].heap \in Heaps /\ m.hdr[x].index \in Classes
    BY Zenon, <2>1, HeadersOf
  <2>3. CASE x = b.flink
    <3>1. a \in F /\ m.hdr[x].blink = a
      BY <1>4, <2>1, <2>3
    <3>2. /\ b.blink = NULL => m.free_blocks[h][b.index] = a
          /\ b.blink # NULL => rank[b.blink] < rank[a]
      BY <1>5, <3>1 DEF FiledAs
    <3>3. rank[a] < rank[x] /\ rank[a] \in Nat /\ rank[x] \in Nat /\ (b.blink # NULL => rank[b.blink] \in Nat)
      BY Zenon, <1>4, <2>1, <3>1
    <3>4. n.hdr[x].blink = b.blink /\ n.hdr[x].heap = h /\ n.hdr[x].index = b.index
      BY <1>1, <1>3, <1>4, <2>1, <2>3
    <3>. QED
      BY SMTT(30), <1>1, <1>2, <2>1, <2>3, <3>2, <3>3, <3>4
  <2>4. CASE x # b.flink
    BY <1>1, <1>2, <1>3, <2>1, <2>2, <2>4
  <2>. QED
    BY <2>3, <2>4
<1>7. FiledAs(n, F \ {a}, rank)
  BY <1>1, <1>6 DEF FiledAs
<1>. QED
  BY Zenon, <1>1, <1>7 DEF Filed

\* A block that is in no list is put first in one.
LEMMA LinkedLists ==
  ASSUME NEW m, MemoryOK(m), Linked(m), NEW a \in DOMAIN m.hdr, Loose(m, a),
         NEW h, h = m.hdr[a].heap, NEW index \in Classes, NEW n, Lists(n, m, h, a, index)
  PROVE  /\ Linked(n)
         /\ \A x \in DOMAIN m.hdr \ {a} : Loose(m, x) => Loose(n, x)
<1>. DEFINE head == m.free_blocks[h][index]
<1>1. /\ h \in Heaps /\ a \in Nat /\ head \in Nat
      /\ DOMAIN n.hdr = DOMAIN m.hdr
      /\ \A x \in DOMAIN m.hdr : n.hdr[x].heap = m.hdr[x].heap
  <2>1. h \in Heaps /\ a \in Nat
    BY HeadersOf
  <2>2. head \in Nat
    BY <2>1 DEF MemoryOK
  <2>. QED
    BY <2>1, <2>2 DEF Lists, SameBlocks
<1>2. ASSUME NEW k \in Heaps, NEW i \in Classes
      PROVE  n.free_blocks[k][i] = IF k = h /\ i = index THEN a ELSE m.free_blocks[k][i]
  BY <1>1 DEF Lists, MemoryOK
<1>3. ASSUME NEW x \in DOMAIN m.hdr
      PROVE  /\ n.hdr[x].index = IF x = a THEN index ELSE m.hdr[x].index
             /\ n.hdr[x].flink = IF x = a THEN head ELSE m.hdr[x].flink
             /\ n.hdr[x].blink = IF x = head /\ x # NULL THEN a ELSE m.hdr[x].blink
  BY Zenon DEF Lists
<1>4. head # NULL => /\ head \in DOMAIN m.hdr /\ m.hdr[head].heap = h
                     /\ m.hdr[head].index = index /\ m.hdr[head].blink = NULL
  BY <1>1 DEF Linked
<1>5. /\ a # NULL => head # a
      /\ a # NULL => m.hdr[a].flink = NULL /\ m.hdr[a].blink = NULL
      /\ \A k \in Heaps, i \in Classes : a # NULL => m.free_blocks[k][i] # a
  BY <1>1 DEF Loose
<1>. HIDE DEF head
<1>6. ASSUME NEW k \in Heaps, NEW i \in Classes, n.free_blocks[k][i] # NULL
      PROVE  /\ n.free_blocks[k][i] \in DOMAIN m.hdr
             /\ n.hdr[n.free_blocks[k][i]].heap = k
             /\ n.hdr[n.free_blocks[k][i]].index = i
             /\ n.hdr[n.free_blocks[k][i]].blink = NULL
  <2>. DEFINE c == m.free_blocks[k][i]
  <2>1. c # NULL => c \in DOMAIN m.hdr /\ m.hdr[c].heap = k /\ m.hdr[c].index = i /\ m.hdr[c].blink = NULL
    BY DEF Linked
  <2>2. c = head => (k = h /\ i = index) \/ c = NULL
    BY Zenon, <1>4, <2>1
  <2>. HIDE DEF c
  <2>3. CASE k = h /\ i = index
    BY ZenonT(30), <1>1, <1>2, <1>3, <1>5, <1>6, <2>3
  <2>4. CASE ~(k = h /\ i = index)
    <3>1. n.free_blocks[k][i] = c
      BY <1>2, <2>4 DEF c
    <3>2. c # a
      BY <1>5, <1>6, <3>1 DEF c
    <3>. QED
      BY <1>1, <1>3, <1>6, <2>1, <2>2, <2>4, <3>1, <3>2
  <2>. QED
    BY <2>3, <2>4
<1>7. ASSUME NEW x \in DOMAIN m.hdr, x # NULL
      PROVE  /\ n.hdr[x].flink # NULL =>
                  /\ n.hdr[x].flink \in DOMAIN m.hdr
                  /\ n.hdr[n.hdr[x].flink].blink = x
                  /\ n.hdr[n.hdr[x].flink].heap = n.hdr[x].heap
                  /\ n.hdr[n.hdr[x].flink].index = n.hdr[x].index
             /\ n.hdr[x].blink # NULL =>
                  n.hdr[x].blink \in DOMAIN m.hdr /\ n.hdr[n.hdr[x].blink].flink = x
  <2>. DEFINE f == m.hdr[x].flink
              g == m.hdr[x].blink
  <2>1. /\ f # NULL => f \in DOMAIN m.hdr /\ m.hdr[f].blink = x /\ m.hdr[f].heap = m.hdr[x].heap
                       /\ m.hdr[f].index = m.hdr[x].index
        /\ g # NULL => g \in DOMAIN m.hdr /\ m.hdr[g].flink = x
    BY <1>7 DEF Linked
  <2>2. x = a => f = NULL /\ g = NULL
    BY <1>5, <1>7
  <2>3. f # NULL => f # a /\ f # head
    BY <1>4, <1>5, <1>7, <2>1
  <2>4. g # NULL => g # a
    BY <1>5, <1>7, <2>1
  <2>5. x = head => g = NULL
    BY <1>4, <1>7
  <2>6. n.hdr[x].index = (IF x = a THEN index ELSE m.hdr[x].index) /\ n.hdr[x].heap = m.hdr[x].heap
    BY <1>1, <1>3
  <2>7. n.hdr[x].flink = IF x = a THEN head ELSE f
    BY <1>3
  <2>8. n.hdr[x].blink = IF x = head THEN a ELSE g
    BY <1>3, <1>7
  <2>. HIDE DEF f, g
  <2>9. CASE x = a
    BY <1>1, <1>3, <1>4, <1>5, <1>7, <2>2, <2>6, <2>7, <2>8, <2>9
  <2>10. CASE x # a
    BY ZenonT(30), <1>1, <1>3, <1>4, <1>7, <2>1, <2>3, <2>4, <2>5, <2>6, <2>7, <2>8, <2>10
  <2>. QED
    BY <2>9, <2>10
<1>8. Linked(n)
  BY <1>1, <1>6, <1>7 DEF Linked
<1>9. ASSUME NEW x \in DOMAIN m.hdr \ {a}, Loose(m, x) PROVE Loose(n, x)
  BY <1>1, <1>2, <1>3, <1>9 DEF Loose, head
<1>. QED
  BY <1>8, <1>9

\* It is filed there, unless it is the block at NULL: that hides the rest of the list.
LEMMA FiledLists ==
  ASSUME NEW m, MemoryOK(m), Linked(m), NEW a \in DOMAIN m.hdr, Loose(m, a),
         NEW h, h = m.hdr[a].heap, NEW index \in Classes, NEW n, Lists(n, m, h, a, index),
         NEW F, Filed(m, F), a = NULL => \A x \in F : m.hdr[x].heap # h
  PROVE  Filed(n, IF a = NULL THEN F ELSE F \cup {a})
<1>. DEFINE head == m.free_blocks[h][index]
            G == IF a = NULL THEN F ELSE F \cup {a}
<1>1. /\ h \in Heaps /\ a \in Nat /\ head \in Nat
      /\ DOMAIN n.hdr = DOMAIN m.hdr
      /\ \A x \in DOMAIN m.hdr : n.hdr[x].heap = m.hdr[x].heap
  <2>1. h \in Heaps /\ a \in Nat
    BY HeadersOf
  <2>2. head \in Nat
    BY <2>1 DEF MemoryOK
  <2>. QED
    BY <2>1, <2>2 DEF Lists, SameBlocks
<1>2. ASSUME NEW k \in Heaps, NEW i \in Classes
      PROVE  n.free_blocks[k][i] = IF k = h /\ i = index THEN a ELSE m.free_blocks[k][i]
  BY <1>1 DEF Lists, MemoryOK
<1>3. ASSUME NEW x \in DOMAIN m.hdr
      PROVE  /\ n.hdr[x].index = IF x = a THEN index ELSE m.hdr[x].index
             /\ n.hdr[x].blink = IF x = head /\ x # NULL THEN a ELSE m.hdr[x].blink
  BY Zenon DEF Lists
<1>4. head # NULL => /\ head \in DOMAIN m.hdr /\ m.hdr[head].heap = h
                     /\ m.hdr[head].index = index /\ m.hdr[head].blink = NULL
  BY <1>1 DEF Linked
<1>5. a # NULL => head # a /\ m.hdr[a].blink = NULL
  BY <1>1 DEF Loose
<1>6. PICK rank \in [DOMAIN m.hdr -> Nat] : FiledAs(m, F, rank)
  BY DEF Filed
<1>. DEFINE rank2 == [x \in DOMAIN m.hdr |-> IF x = a THEN 0 ELSE rank[x] + 1]
<1>7. rank2 \in [DOMAIN m.hdr -> Nat] /\ rank2[a] = 0 /\ \A x \in DOMAIN m.hdr \ {a} : rank2[x] = rank[x] + 1
  OBVIOUS
<1>. HIDE DEF rank2, head
<1>8. ASSUME NEW x \in G
      PROVE  /\ x \in DOMAIN m.hdr /\ x # NULL
             /\ n.hdr[x].blink = NULL => n.free_blocks[n.hdr[x].heap][n.hdr[x].index] = x
             /\ n.hdr[x].blink # NULL => rank2[n.hdr[x].blink] < rank2[x]
  <2>1. CASE x = a
    BY <1>1, <1>2, <1>3, <1>5, <1>6, <1>8, <2>1 DEF FiledAs
  <2>2. CASE x # a
    <3>1. x \in F
      BY <1>8, <2>2
    <3>2. /\ x \in DOMAIN m.hdr /\ x # NULL
          /\ m.hdr[x].blink = NULL => m.free_blocks[m.hdr[x].heap][m.hdr[x].index] = x
          /\ m.hdr[x].blink # NULL => rank[m.hdr[x].blink] < rank[x]
      BY <1>6, <3>1 DEF FiledAs
    <3>3. m.hdr[x].heap \in Heaps /\ m.hdr[x].index \in Classes
      BY <3>2, HeadersOf
    <3>4. n.hdr[x].heap = m.hdr[x].heap /\ n.hdr[x].index = m.hdr[x].index
      BY <1>1, <1>3, <2>2, <3>2
    <3>5. CASE x = head
      <4>1. a # NULL
        BY <1>4, <3>1, <3>2, <3>5
      <4>2. n.hdr[x].blink = a
        BY <1>3, <3>2, <3>5
      <4>. QED
        BY <1>7, <2>2, <3>2, <4>1, <4>2
    <3>6. CASE x # head
      <4>1. n.hdr[x].blink = m.hdr[x].blink
        BY <1>3, <3>2, <3>6
      <4>2. m.hdr[x].blink = NULL => n.free_blocks[m.hdr[x].heap][m.hdr[x].index] = x
        BY <1>2, <3>2, <3>3, <3>6 DEF head
      <4>3. ASSUME m.hdr[x].blink # NULL PROVE rank2[m.hdr[x].blink] < rank2[x]
        <5>1. m.hdr[x].blink \in DOMAIN m.hdr
          BY <3>2, <4>3 DEF Linked
        <5>2. rank[m.hdr[x].blink] \in Nat /\ rank[x] \in Nat /\ rank[m.hdr[x].blink] < rank[x]
          BY <3>2, <4>3, <5>1
        <5>. QED
          BY <1>7, <2>2, <3>2, <5>1, <5>2
      <4>. QED
        BY <3>2, <3>4, <4>1, <4>2, <4>3
    <3>. QED
      BY <3>5, <3>6
  <2>. QED
    BY <2>1, <2>2
<1>9. FiledAs(n, G, rank2)
  BY <1>1, <1>8 DEF FiledAs
<1>. QED
  BY <1>1, <1>7, <1>9 DEF Filed

UsedOf(m) == {x \in DOMAIN m.hdr : m.hdr[x].used}

\* The blocks in use are those of U, and as they were.
KeepsUsed(r, m, U) ==
  /\ UsedOf(r) = U
  /\ \A x \in U :
       /\ x \in DOMAIN m.hdr /\ r.hdr[x].size = m.hdr[x].size
       /\ r.hdr[x].req = m.hdr[x].req /\ r.hdr[x].heap = m.hdr[x].heap

\* A block in use is in no list.
OutOfLists(m, E) == \A x \in DOMAIN m.hdr : m.hdr[x].used \/ x \in E => Loose(m, x)

\* The unused blocks of the heaps that are sound.
FreeOf(m, sound) == {x \in DOMAIN m.hdr : ~m.hdr[x].used /\ m.hdr[x].heap \in sound}

NoneAtNull(m, sound) == NULL \in DOMAIN m.hdr => m.hdr[NULL].heap \notin sound

\* The lists, but for the blocks of E, which are in none, and the classes, but for
\* the blocks of C.
FilesBut(m, E, C, sound) ==
  /\ Linked(m) /\ OutOfLists(m, E) /\ NoneAtNull(m, sound)
  /\ Filed(m, FreeOf(m, sound) \ E) /\ Classed(m, FreeOf(m, sound) \ C)

Files(m, E, sound) == FilesBut(m, E, E, sound)

\* A block that is in no list is forgotten; those of C may have taken it.
LEMMA ForgetFiles ==
  ASSUME NEW m, Blocks(m), NEW b, NEW r, r.free_blocks = m.free_blocks,
         DOMAIN r.hdr = DOMAIN m.hdr \ {b}, NEW C,
         \A x \in DOMAIN m.hdr \ {b} : /\ SameLinks(r, m, x) /\ r.hdr[x].used = m.hdr[x].used
                                       /\ x \notin C => r.hdr[x].size = m.hdr[x].size,
         NEW E, b \in E, NEW D, D \subseteq C \cup {b}, NEW sound, b \in DOMAIN m.hdr,
         FilesBut(m, E, D, sound)
  PROVE  FilesBut(r, E \ {b}, C, sound)
<1>1. Loose(m, b) /\ Linked(m) /\ NoneAtNull(m, sound)
  BY DEF FilesBut, OutOfLists
<1>2. /\ Linked(r)
      /\ \A x \in DOMAIN m.hdr \ {b} : Loose(m, x) <=> Loose(r, x)
      /\ \A F : b \notin F /\ Filed(m, F) => Filed(r, F)
  BY <1>1, LinkedWithout DEF Blocks
<1>3. FreeOf(r, sound) = FreeOf(m, sound) \ {b}
  BY DEF FreeOf, SameLinks
<1>4. Filed(r, FreeOf(r, sound) \ (E \ {b}))
  <2>1. FreeOf(r, sound) \ (E \ {b}) = FreeOf(m, sound) \ E
    BY <1>3
  <2>. QED
    BY <1>2, <2>1 DEF FilesBut
<1>5. OutOfLists(r, E \ {b})
  <2>. SUFFICES ASSUME NEW x \in DOMAIN r.hdr, r.hdr[x].used \/ x \in E \ {b} PROVE Loose(r, x)
    BY DEF OutOfLists
  <2>1. x \in DOMAIN m.hdr /\ x # b /\ (m.hdr[x].used \/ x \in E)
    OBVIOUS
  <2>. QED
    BY <1>2, <2>1 DEF FilesBut, OutOfLists
<1>6. NoneAtNull(r, sound)
  BY <1>1 DEF NoneAtNull, SameLinks
<1>7. Classed(r, FreeOf(r, sound) \ C)
  <2>. SUFFICES ASSUME NEW x \in FreeOf(r, sound) \ C
                PROVE  r.hdr[x].index = HeapGetIndex(r.hdr[x].size - S)
    BY DEF Classed
  <2>1. x \in FreeOf(m, sound) \ D /\ x \in DOMAIN m.hdr \ {b}
    BY <1>3 DEF FreeOf
  <2>2. m.hdr[x].index = HeapGetIndex(m.hdr[x].size - S)
    BY <2>1 DEF Classed, FilesBut
  <2>3. r.hdr[x].index = m.hdr[x].index /\ r.hdr[x].size = m.hdr[x].size
    BY <2>1 DEF SameLinks
  <2>. QED
    BY <2>2, <2>3
<1>. QED
  BY <1>2, <1>4, <1>5, <1>6, <1>7 DEF FilesBut

\* A block leaves its list.
LEMMA RemoveFiles ==
  ASSUME NEW m, Blocks(m), NEW a \in DOMAIN m.hdr, a # NULL, ~m.hdr[a].used,
         NEW h, h = m.hdr[a].heap, NEW n, Unlists(n, m, h, a),
         NEW E, NEW C, NEW sound, FilesBut(m, E, C, sound), a \notin E
  PROVE  FilesBut(n, E \cup {a}, C, sound)
<1>1. Linked(m) /\ NoneAtNull(m, sound)
  BY DEF FilesBut
<1>2. Linked(n) /\ Loose(n, a) /\ \A x \in DOMAIN m.hdr : Loose(m, x) => Loose(n, x)
  BY <1>1, LinkedUnlists DEF Blocks
<1>3. DOMAIN n.hdr = DOMAIN m.hdr /\ \A x \in DOMAIN m.hdr : n.hdr[x].used = m.hdr[x].used
         /\ n.hdr[x].heap = m.hdr[x].heap /\ n.hdr[x].size = m.hdr[x].size
         /\ n.hdr[x].index = m.hdr[x].index
  BY DEF Unlists, SameBlocks
<1>4. OutOfLists(n, E \cup {a})
  <2>. SUFFICES ASSUME NEW x \in DOMAIN m.hdr, n.hdr[x].used \/ x \in E \cup {a} PROVE Loose(n, x)
    BY <1>3 DEF OutOfLists
  <2>1. m.hdr[x].used \/ x \in E => Loose(m, x)
    BY DEF FilesBut, OutOfLists
  <2>. QED
    BY <1>2, <1>3, <2>1
<1>5. NoneAtNull(n, sound)
  BY <1>1, <1>3 DEF NoneAtNull
<1>6. FreeOf(n, sound) = FreeOf(m, sound)
  BY <1>3 DEF FreeOf
<1>. DEFINE F == FreeOf(m, sound) \ E
<1>7. a \in F \/ m.hdr[a].flink \notin F
  <2>1. m.hdr[a].flink # NULL => m.hdr[m.hdr[a].flink].heap = m.hdr[a].heap
    BY <1>1 DEF Linked
  <2>2. NULL \notin FreeOf(m, sound)
    BY <1>1 DEF NoneAtNull, FreeOf
  <2>. QED
    BY <2>1, <2>2 DEF FreeOf
<1>8. Filed(m, F)
  BY DEF FilesBut
<1>. HIDE DEF F
<1>9. Filed(n, F \ {a})
  BY <1>1, <1>7, <1>8, FiledUnlists DEF Blocks
<1>10. F \ {a} = FreeOf(n, sound) \ (E \cup {a})
  BY <1>6 DEF F
<1>11. Classed(n, FreeOf(n, sound) \ C)
  BY Zenon, <1>3, <1>6 DEF Classed, FilesBut, FreeOf
<1>. QED
  BY <1>2, <1>4, <1>5, <1>9, <1>10, <1>11 DEF FilesBut

\* A step of heap_melt_left, on blocks.
LEMMA MeltStep ==
  ASSUME NEW m, Blocks(m), NEW a \in DOMAIN m.hdr, ~m.hdr[a].used, NoPair(m, {a}),
         ~Stops(m, a, "page_blink"), NEW p, p = m.hdr[a].page_blink, NEW h \in Heaps,
         NEW n, n = HeapRemoveHeader(Absorb(m, p, a), h, p)
  PROVE  /\ Blocks(n) /\ UnitsOf(n) = UnitsOf(m) /\ NoPair(n, {p})
         /\ p \in DOMAIN n.hdr /\ ~n.hdr[p].used /\ n.hdr[p].heap = m.hdr[a].heap
         /\ Stops(n, p, "page_blink")
         /\ SamePages(n, m) /\ KeepsUsed(n, m, UsedOf(m))
<1>. DEFINE r == Absorb(m, p, a)
            q == m.hdr[p].page_blink
<1>1. /\ p \in DOMAIN m.hdr /\ p # NULL /\ ~m.hdr[p].used /\ p < a /\ p \in Nat /\ a \in Nat
      /\ m.hdr[p].page_flink = a /\ a # NULL /\ p # a
  BY NextLeft
<1>2. m.hdr[p].heap = m.hdr[a].heap
  BY LeftOf DEF Stops, Blocks
<1>3. MemoryOK(r) /\ Absorbs(r, m, p, a)
  BY <1>1, AbsorbFields DEF Blocks
<1>. HIDE DEF r
<1>4. Blocks(r) /\ UnitsOf(r) = UnitsOf(m)
  BY <1>1, <1>3, AbsorbTiled
<1>5. NoPair(r, {p})
  <2>1. {a} \subseteq {p, a}
    OBVIOUS
  <2>. QED
    BY <1>1, <1>3, <2>1, AbsorbNoPair
<1>6. p \in DOMAIN r.hdr /\ DOMAIN r.hdr = DOMAIN m.hdr \ {a}
  BY <1>1, <1>3 DEF Absorbs
<1>7. MemoryOK(n) /\ Unlists(n, r, h, p)
  BY Zenon, <1>3, <1>6, RemoveFields DEF r
<1>8. SameBlocks(n, r) /\ SamePages(n, m)
  BY Zenon, <1>3, <1>7 DEF Unlists, Absorbs, SamePages
<1>9. Blocks(n) /\ UnitsOf(n) = UnitsOf(m) /\ NoPair(n, {p})
  BY Zenon, <1>4, <1>5, <1>7, <1>8, SameBlocksTiled
<1>10. Stops(n, p, "page_blink")
  <2>1. Stops(m, p, "page_blink")
    BY ShortLeft
  <2>2. q # NULL => q \in DOMAIN m.hdr /\ q < p
    BY <1>1, LeftOf DEF Blocks
  <2>3. m.hdr[a].page_flink # p
    BY <1>1, RightOf DEF Blocks
  <2>4. r.hdr[p].page_blink = q
    BY <1>1, <1>3, <2>3 DEF Absorbs
  <2>5. q # NULL => q \in DOMAIN r.hdr /\ r.hdr[q].used = m.hdr[q].used
    BY SMTT(30), <1>1, <1>3, <2>2 DEF Absorbs
  <2>6. n.hdr[p].page_blink = q /\ (q # NULL => n.hdr[q].used = m.hdr[q].used)
    BY ZenonT(30), <1>6, <1>8, <2>4, <2>5 DEF SameBlocks
  <2>. QED
    BY Zenon, <2>1, <2>6 DEF Stops
<1>11. KeepsUsed(n, m, UsedOf(m))
  <2>1. ASSUME NEW x \in DOMAIN m.hdr \ {a}
        PROVE  /\ x \in DOMAIN n.hdr /\ n.hdr[x].used = m.hdr[x].used
               /\ x # p => n.hdr[x].size = m.hdr[x].size
               /\ n.hdr[x].req = m.hdr[x].req /\ n.hdr[x].heap = m.hdr[x].heap
    <3>1. /\ r.hdr[x].used = m.hdr[x].used
          /\ x # p => r.hdr[x].size = m.hdr[x].size
          /\ r.hdr[x].req = m.hdr[x].req /\ r.hdr[x].heap = m.hdr[x].heap
      BY Zenon, <1>3 DEF Absorbs
    <3>. QED
      BY <1>6, <1>8, <3>1 DEF SameBlocks
  <2>2. DOMAIN n.hdr = DOMAIN m.hdr \ {a}
    BY Zenon, <1>6, <1>8 DEF SameBlocks
  <2>. QED
    BY Zenon, <1>1, <2>1, <2>2 DEF KeepsUsed, UsedOf
<1>12. p \in DOMAIN n.hdr /\ ~n.hdr[p].used /\ n.hdr[p].heap = m.hdr[a].heap
  <2>1. ~r.hdr[p].used /\ r.hdr[p].heap = m.hdr[a].heap
    BY <1>1, <1>2, <1>3 DEF Absorbs
  <2>. QED
    BY <1>6, <1>8, <2>1 DEF SameBlocks
<1>. QED
  BY <1>8, <1>9, <1>10, <1>11, <1>12

\* And on the lists.
LEMMA MeltStepFiles ==
  ASSUME NEW m, Blocks(m), NEW a \in DOMAIN m.hdr, ~m.hdr[a].used,
         ~Stops(m, a, "page_blink"), NEW p, p = m.hdr[a].page_blink,
         NEW h, h = m.hdr[a].heap,
         NEW n, n = HeapRemoveHeader(Absorb(m, p, a), h, p),
         NEW sound, Files(m, {a}, sound)
  PROVE  Files(n, {p}, sound)
<1>. DEFINE r == Absorb(m, p, a)
<1>1. /\ p \in DOMAIN m.hdr /\ p # NULL /\ ~m.hdr[p].used /\ p < a /\ p \in Nat /\ a \in Nat
      /\ m.hdr[p].page_flink = a /\ a # NULL /\ p # a
  BY NextLeft
<1>2. m.hdr[p].heap = h /\ h \in Heaps
  BY LeftOf, HeadersOf DEF Stops, Blocks
<1>3. MemoryOK(r) /\ Absorbs(r, m, p, a)
  BY <1>1, AbsorbFields DEF Blocks
<1>. HIDE DEF r
<1>4. Blocks(r)
  BY <1>1, <1>3, AbsorbTiled
<1>5. /\ DOMAIN r.hdr = DOMAIN m.hdr \ {a} /\ r.free_blocks = m.free_blocks
      /\ \A x \in DOMAIN m.hdr \ {a} : /\ SameLinks(r, m, x) /\ r.hdr[x].used = m.hdr[x].used
                                       /\ x \notin {p} => r.hdr[x].size = m.hdr[x].size
  BY <1>3 DEF Absorbs, SameLinks
<1>6. FilesBut(m, {a}, {a}, sound)
  BY DEF Files
<1>7. FilesBut(r, {a} \ {a}, {p}, sound)
  <2>1. a \in {a} /\ {a} \subseteq {p} \cup {a}
    OBVIOUS
  <2>. QED
    BY <1>5, <1>6, <2>1, ForgetFiles
<1>8. p \in DOMAIN r.hdr /\ r.hdr[p].heap = h /\ ~r.hdr[p].used
  BY <1>1, <1>2, <1>5 DEF SameLinks
<1>9. MemoryOK(n) /\ Unlists(n, r, h, p)
  BY <1>2, <1>3, <1>8, RemoveFields DEF r
<1>10. FilesBut(n, ({a} \ {a}) \cup {p}, {p}, sound)
  <2>1. p \notin {a} \ {a}
    OBVIOUS
  <2>. QED
    BY <1>1, <1>4, <1>7, <1>8, <1>9, <2>1, RemoveFiles
<1>11. ({a} \ {a}) \cup {p} = {p}
  OBVIOUS
<1>. QED
  BY <1>10, <1>11 DEF Files

\* A step of heap_eat_right, on blocks.
LEMMA EatStep ==
  ASSUME NEW m, Blocks(m), NEW a \in DOMAIN m.hdr, ~m.hdr[a].used, NoPair(m, {a}),
         ~Stops(m, a, "page_flink"), Stops(m, a, "page_blink"),
         NEW p, p = m.hdr[a].page_flink, NEW h \in Heaps,
         NEW n, n = Absorb(HeapRemoveHeader(m, h, p), a, p)
  PROVE  /\ Blocks(n) /\ UnitsOf(n) = UnitsOf(m) /\ NoPair(n, {})
         /\ a \in DOMAIN n.hdr /\ ~n.hdr[a].used /\ n.hdr[a].heap = m.hdr[a].heap
         /\ SamePages(n, m) /\ KeepsUsed(n, m, UsedOf(m))
<1>. DEFINE r == HeapRemoveHeader(m, h, p)
            q == m.hdr[p].page_flink
            left == m.hdr[a].page_blink
<1>1. /\ p \in DOMAIN m.hdr /\ p # NULL /\ ~m.hdr[p].used /\ a < p /\ p \in Nat /\ a \in Nat
      /\ p # a
  BY NextRight
<1>2. MemoryOK(r) /\ Unlists(r, m, h, p)
  BY Zenon, <1>1, RemoveFields DEF Blocks
<1>. HIDE DEF r
<1>3. SameBlocks(r, m) /\ SamePages(r, m)
  BY Zenon, <1>2 DEF Unlists
<1>4. Blocks(r) /\ UnitsOf(r) = UnitsOf(m) /\ NoPair(r, {a})
  BY <1>2, <1>3, SameBlocksTiled
<1>5. /\ DOMAIN r.hdr = DOMAIN m.hdr /\ a \in DOMAIN r.hdr /\ p \in DOMAIN r.hdr
      /\ r.hdr[a].page_flink = p /\ r.hdr[p].page_flink = q
  BY <1>1, <1>3 DEF SameBlocks
<1>6. MemoryOK(n) /\ Absorbs(n, r, a, p)
  BY <1>1, <1>2, <1>5, AbsorbFields DEF r
<1>7. Blocks(n) /\ UnitsOf(n) = UnitsOf(m)
  BY <1>1, <1>4, <1>5, <1>6, AbsorbTiled
<1>8. NoPair(n, {a})
  <2>1. {a} \subseteq {a, p}
    OBVIOUS
  <2>. QED
    BY SMTT(30), <1>1, <1>4, <1>5, <1>6, <2>1, AbsorbNoPair
<1>9. SamePages(n, m)
  BY ZenonT(30), <1>3, <1>6 DEF Absorbs, SamePages
<1>10. /\ DOMAIN n.hdr = DOMAIN m.hdr \ {p}
       /\ \A x \in DOMAIN m.hdr \ {p} :
             /\ n.hdr[x].used = m.hdr[x].used /\ n.hdr[x].req = m.hdr[x].req
             /\ n.hdr[x].heap = m.hdr[x].heap
             /\ x # a => n.hdr[x].size = m.hdr[x].size
  <2>1. DOMAIN n.hdr = DOMAIN m.hdr \ {p}
    BY ZenonT(30), <1>5, <1>6 DEF Absorbs
  <2>2. ASSUME NEW x \in DOMAIN m.hdr \ {p}
        PROVE  /\ n.hdr[x].used = r.hdr[x].used /\ n.hdr[x].req = r.hdr[x].req
               /\ n.hdr[x].heap = r.hdr[x].heap
               /\ x # a => n.hdr[x].size = r.hdr[x].size
    BY ZenonT(30), <1>5, <1>6 DEF Absorbs
  <2>3. ASSUME NEW x \in DOMAIN m.hdr
        PROVE  /\ r.hdr[x].used = m.hdr[x].used /\ r.hdr[x].req = m.hdr[x].req
               /\ r.hdr[x].heap = m.hdr[x].heap /\ r.hdr[x].size = m.hdr[x].size
    BY <1>3 DEF SameBlocks
  <2>. QED
    BY SMTT(30), <2>1, <2>2, <2>3
<1>11. KeepsUsed(n, m, UsedOf(m))
  BY Zenon, <1>1, <1>10 DEF KeepsUsed, UsedOf
<1>12. n.hdr[a].page_flink = q
  BY Zenon, <1>1, <1>5, <1>6 DEF Absorbs
<1>13. q # NULL => q \in DOMAIN m.hdr /\ p < q
  BY <1>1, RightOf DEF Blocks
<1>14. n.hdr[a].page_blink = left
  <2>1. ~(a = q /\ a # NULL)
    BY <1>1, <1>13
  <2>. QED
    <3>1. n.hdr[a].page_blink = r.hdr[a].page_blink
      BY Zenon, <1>1, <1>5, <1>6, <2>1 DEF Absorbs
    <3>2. r.hdr[a].page_blink = left
      BY <1>3 DEF SameBlocks
    <3>. QED
      BY Zenon, <3>1, <3>2
<1>15. left # NULL => left \in DOMAIN m.hdr /\ left < a
  BY Zenon, LeftOf DEF Blocks
<1>16. n.hdr[a].page_flink # NULL => n.hdr[n.hdr[a].page_flink].used
  <2>1. Stops(m, p, "page_flink")
    BY ShortRight
  <2>2. q # NULL => q \in DOMAIN m.hdr \ {p}
    BY SMTT(30), <1>1, <1>13
  <2>. QED
    BY Zenon, <1>10, <1>12, <2>1, <2>2 DEF Stops
<1>17. n.hdr[a].page_blink # NULL => n.hdr[n.hdr[a].page_blink].used
  <2>1. left # NULL => left \in DOMAIN m.hdr \ {p}
    BY SMTT(30), <1>1, <1>15
  <2>. QED
    BY Zenon, <1>10, <1>14, <2>1 DEF Stops
<1>18. a \in DOMAIN n.hdr /\ ~n.hdr[a].used /\ n.hdr[a].heap = m.hdr[a].heap
  BY Zenon, <1>1, <1>10
<1>19. NoPair(n, {})
  BY Zenon, <1>7, <1>8, <1>16, <1>17, <1>18, NoPairAt
<1>. QED
  BY <1>7, <1>9, <1>11, <1>18, <1>19

\* And on the lists.
LEMMA EatStepFiles ==
  ASSUME NEW m, Blocks(m), NEW a \in DOMAIN m.hdr, ~m.hdr[a].used,
         ~Stops(m, a, "page_flink"), NEW p, p = m.hdr[a].page_flink,
         NEW h, h = m.hdr[a].heap,
         NEW n, n = Absorb(HeapRemoveHeader(m, h, p), a, p),
         NEW sound, Files(m, {a}, sound)
  PROVE  Files(n, {a}, sound)
<1>. DEFINE r == HeapRemoveHeader(m, h, p)
<1>1. /\ p \in DOMAIN m.hdr /\ p # NULL /\ ~m.hdr[p].used /\ a < p /\ p \in Nat /\ a \in Nat
      /\ p # a
  BY NextRight
<1>2. m.hdr[p].heap = h /\ h \in Heaps
  BY RightOf, HeadersOf DEF Stops, Blocks
<1>3. MemoryOK(r) /\ Unlists(r, m, h, p)
  BY Zenon, <1>1, <1>2, RemoveFields DEF Blocks
<1>. HIDE DEF r
<1>4. Blocks(r)
  BY Zenon, <1>3, SameBlocksTiled DEF Unlists
<1>5. FilesBut(m, {a}, {a}, sound)
  BY DEF Files
<1>6. FilesBut(r, {a} \cup {p}, {a}, sound)
  <2>1. p \notin {a}
    BY Zenon, <1>1
  <2>. QED
    BY <1>1, <1>2, <1>3, <1>5, <2>1, RemoveFiles
<1>7. a \in DOMAIN r.hdr /\ p \in DOMAIN r.hdr
  BY Zenon, <1>1, <1>3 DEF Unlists, SameBlocks
<1>8. MemoryOK(n) /\ Absorbs(n, r, a, p)
  BY Zenon, <1>1, <1>3, <1>7, AbsorbFields DEF r
<1>9. /\ DOMAIN n.hdr = DOMAIN r.hdr \ {p} /\ n.free_blocks = r.free_blocks
      /\ \A x \in DOMAIN r.hdr \ {p} : /\ SameLinks(n, r, x) /\ n.hdr[x].used = r.hdr[x].used
                                       /\ x \notin {a} => n.hdr[x].size = r.hdr[x].size
  BY ZenonT(30), <1>8 DEF Absorbs, SameLinks
<1>10. FilesBut(n, ({a} \cup {p}) \ {p}, {a}, sound)
  <2>1. p \in {a} \cup {p} /\ {a} \subseteq {a} \cup {p}
    OBVIOUS
  <2>. QED
    BY <1>4, <1>6, <1>7, <1>9, <2>1, ForgetFiles
<1>11. ({a} \cup {p}) \ {p} = {a}
  BY <1>1
<1>. QED
  BY <1>10, <1>11 DEF Files

-----------------------------------------------------------------------------
(* free. *)

\* Two memories with the same headers and lists.
LEMMA SameHeaders ==
  ASSUME NEW m, Blocks(m), NEW r, MemoryOK(r), r.hdr = m.hdr, r.free_blocks = m.free_blocks
  PROVE  /\ Blocks(r) /\ UnitsOf(r) = UnitsOf(m) /\ KeepsUsed(r, m, UsedOf(m))
         /\ \A E : NoPair(m, E) => NoPair(r, E)
         /\ \A E, C, sound : FilesBut(m, E, C, sound) => FilesBut(r, E, C, sound)
<1>1. SameBlocks(r, m) /\ \A x \in DOMAIN m.hdr : SameLinks(r, m, x)
  BY DEF SameBlocks, SameLinks
<1>2. /\ Blocks(r) /\ UnitsOf(r) = UnitsOf(m)
      /\ \A E : NoPair(m, E) => NoPair(r, E)
  BY <1>1, SameBlocksTiled
<1>3. KeepsUsed(r, m, UsedOf(m))
  BY DEF KeepsUsed, UsedOf
<1>4. ASSUME NEW E, NEW C, NEW sound, FilesBut(m, E, C, sound) PROVE FilesBut(r, E, C, sound)
  <2>1. FreeOf(r, sound) = FreeOf(m, sound)
    BY DEF FreeOf
  <2>2. /\ Linked(r)
        /\ \A x \in DOMAIN m.hdr : Loose(m, x) <=> Loose(r, x)
        /\ \A F : Filed(m, F) => Filed(r, F)
    BY <1>1, <1>4, LinkedSame DEF Blocks, FilesBut
  <2>3. OutOfLists(r, E) /\ NoneAtNull(r, sound)
    BY <1>4, <2>2 DEF FilesBut, OutOfLists, NoneAtNull
  <2>4. Filed(r, FreeOf(r, sound) \ E)
    BY <1>4, <2>1, <2>2 DEF FilesBut
  <2>5. Classed(r, FreeOf(r, sound) \ C)
    BY <1>4, <2>1 DEF FilesBut, Classed
  <2>. QED
    BY <2>2, <2>3, <2>4, <2>5 DEF FilesBut
<1>. QED
  BY <1>2, <1>3, <1>4

\* The class of a block, if it has data.
LEMMA ClassOfBlock ==
  ASSUME NEW m, Blocks(m), NEW a \in DOMAIN m.hdr
  PROVE  \/ HeapGetIndex(m.hdr[a].size - S) \in Classes /\ m.hdr[a].size > S
         \/ HeapGetIndex(m.hdr[a].size - S) = NoClass /\ m.hdr[a].size = S
<1>. DEFINE size == m.hdr[a].size
<1>1. size \in Nat \ {0} /\ S = 1 /\ PageSize \in Nat
  BY HeadersOf, Constants DEF Blocks
<1>2. size <= PageSize * 127
  <2>1. PICK run \in [DOMAIN m.hdr -> Nat] : RunsAs(m, run)
    BY DEF Blocks, Runs
  <2>2. run[a] <= a /\ a + size <= run[a] + LongestRun /\ run[a] \in Nat
    BY <2>1 DEF RunsAs
  <2>3. a \in Nat
    BY HeadersOf DEF Blocks
  <2>4. LongestRun = PageSize * 127 /\ LongestRun \in Nat
    BY <1>1 DEF LongestRun
  <2>. QED
    BY <1>1, <2>2, <2>3, <2>4
<1>. HIDE DEF size
<1>3. CASE size = S
  BY <1>1, <1>3 DEF HeapGetIndex, NoClass, size
<1>4. CASE size # S
  <2>1. size - S \in Nat \ {0} /\ size - S <= PageSize * 127 /\ size > S
    BY <1>1, <1>2, <1>4
  <2>2. SizeToPages(size - S) <= 127
    <3>. DEFINE d == size - S
    <3>1. d \in Nat /\ d <= PageSize * 127 /\ 127 \in Nat
      BY <2>1
    <3>. HIDE DEF d
    <3>2. SizeToPages(d) <= 127
      BY <3>1, PagesLeast
    <3>. QED
      BY <3>2 DEF d
  <2>. QED
    BY <2>1, <2>2, ClassOf DEF size
<1>. QED
  BY <1>3, <1>4

\* A block that is not in use any more.
LEMMA MarkFree ==
  ASSUME NEW m, Blocks(m), NoPair(m, {}), NEW a \in DOMAIN m.hdr, m.hdr[a].used,
         NEW r, r = [m EXCEPT !.hdr[a].used = FALSE]
  PROVE  /\ Blocks(r) /\ UnitsOf(r) = UnitsOf(m) /\ NoPair(r, {a})
         /\ a \in DOMAIN r.hdr /\ ~r.hdr[a].used /\ r.hdr[a].heap = m.hdr[a].heap
         /\ SamePages(r, m) /\ KeepsUsed(r, m, UsedOf(m) \ {a})
         /\ \A sound : Files(m, {}, sound) => Files(r, {a}, sound)
<1>1. MemoryOK(r) /\ Marks(r, m, a, FALSE, m.hdr[a].req)
  BY MarkUnused DEF Blocks
<1>2. Blocks(r) /\ UnitsOf(r) = UnitsOf(m) /\ NoPair(r, {a})
  <2>1. ASSUME NEW used \in BOOLEAN, used = FALSE PROVE Marks(r, m, a, used, m.hdr[a].req)
    BY <1>1, <2>1
  <2>2. PICK used \in BOOLEAN : used = FALSE
    OBVIOUS
  <2>3. Marks(r, m, a, used, m.hdr[a].req)
    BY <2>1, <2>2
  <2>. QED
    BY <1>1, <2>3, MarksTiled
<1>3. /\ a \in DOMAIN r.hdr /\ ~r.hdr[a].used /\ r.hdr[a].heap = m.hdr[a].heap
      /\ DOMAIN r.hdr = DOMAIN m.hdr /\ r.free_blocks = m.free_blocks /\ SamePages(r, m)
  BY <1>1 DEF Marks
<1>4. ASSUME NEW x \in DOMAIN m.hdr
      PROVE  /\ r.hdr[x].used = IF x = a THEN FALSE ELSE m.hdr[x].used
             /\ r.hdr[x].size = m.hdr[x].size /\ r.hdr[x].req = m.hdr[x].req
             /\ SameLinks(r, m, x)
  BY <1>1 DEF Marks, SameLinks
<1>5. KeepsUsed(r, m, UsedOf(m) \ {a})
  BY <1>3, <1>4 DEF KeepsUsed, UsedOf, SameLinks
<1>6. ASSUME NEW sound, Files(m, {}, sound) PROVE Files(r, {a}, sound)
  <2>1. FilesBut(m, {}, {}, sound)
    BY <1>6 DEF Files
  <2>2. /\ Linked(r)
        /\ \A x \in DOMAIN m.hdr : Loose(m, x) <=> Loose(r, x)
        /\ \A F : Filed(m, F) => Filed(r, F)
    BY ZenonT(30), <1>3, <1>4, <2>1, LinkedSame DEF Blocks, FilesBut
  <2>3. FreeOf(r, sound) \ {a} = FreeOf(m, sound) \ {}
    BY <1>3, <1>4 DEF FreeOf, SameLinks
  <2>4. OutOfLists(r, {a})
    BY <1>3, <1>4, <2>1, <2>2 DEF FilesBut, OutOfLists
  <2>5. NoneAtNull(r, sound)
    BY <1>3, <1>4, <2>1 DEF FilesBut, NoneAtNull, SameLinks
  <2>6. Filed(r, FreeOf(r, sound) \ {a})
    BY <2>1, <2>2, <2>3 DEF FilesBut
  <2>7. Classed(r, FreeOf(r, sound) \ {a})
    <3>. SUFFICES ASSUME NEW x \in FreeOf(m, sound) \ {}
                  PROVE  r.hdr[x].index = HeapGetIndex(r.hdr[x].size - S)
      BY <2>3 DEF Classed
    <3>1. x \in DOMAIN m.hdr
      BY DEF FreeOf
    <3>2. m.hdr[x].index = HeapGetIndex(m.hdr[x].size - S)
      BY <2>1 DEF FilesBut, Classed
    <3>. QED
      BY <1>4, <3>1, <3>2 DEF SameLinks
  <2>. QED
    BY <2>2, <2>4, <2>5, <2>6, <2>7 DEF Files, FilesBut
<1>. QED
  BY <1>2, <1>3, <1>5, <1>6

\* What heap_melt_left leaves, and which block.
Melted(at, m, h, a) ==
  /\ Blocks(at.m) /\ UnitsOf(at.m) = UnitsOf(m) /\ NoPair(at.m, {at.a})
  /\ at.a \in DOMAIN at.m.hdr /\ ~at.m.hdr[at.a].used
  /\ at.m.hdr[at.a].heap = m.hdr[a].heap
  /\ Stops(at.m, at.a, "page_blink")
  /\ SamePages(at.m, m) /\ KeepsUsed(at.m, m, UsedOf(m))
  /\ h = m.hdr[a].heap =>
       \A sound : Files(m, {a}, sound) => Files(at.m, {at.a}, sound)

\* heap_melt_left.
LEMMA Melt ==
  ASSUME NEW m, Blocks(m), NEW a \in DOMAIN m.hdr, ~m.hdr[a].used, NoPair(m, {a}),
         NEW h \in Heaps, NEW at, at = HeapMeltLeft(m, h, a)
  PROVE  Melted(at, m, h, a)
<1>. DEFINE p == m.hdr[a].page_blink
<1>1. Short(m, "page_blink") /\ (~Stops(m, a, "page_blink") => Stops(m, m.hdr[a].page_blink, "page_blink"))
  BY ShortLeft
<1>2. Unused(m, a, "page_blink") = IF Stops(m, a, "page_blink") THEN <<>> ELSE <<p>>
  BY <1>1, UnusedNext
<1>3. CASE Stops(m, a, "page_blink")
  <2>1. at.m = m /\ at.a = a
    BY <1>2, <1>3, MeltLeftIs
  <2>. QED
    BY <1>3, <2>1 DEF SamePages, KeepsUsed, UsedOf, Melted
<1>4. CASE ~Stops(m, a, "page_blink")
  <2>1. at = [m |-> HeapRemoveHeader(Absorb(m, p, a), h, p), a |-> p]
    BY <1>2, <1>4, MeltLeftIs
  <2>2. at.m = HeapRemoveHeader(Absorb(m, p, a), h, p) /\ at.a = p
    BY <2>1
  <2>. HIDE DEF p
  <2>3. p = m.hdr[a].page_blink
    BY DEF p
  <2>. QED
    <3>. DEFINE n == at.m
    <3>1. n = HeapRemoveHeader(Absorb(m, p, a), h, p)
      BY <2>2
    <3>. HIDE DEF n
    <3>2. /\ Blocks(n) /\ UnitsOf(n) = UnitsOf(m) /\ NoPair(n, {p})
          /\ p \in DOMAIN n.hdr /\ ~n.hdr[p].used /\ n.hdr[p].heap = m.hdr[a].heap
          /\ Stops(n, p, "page_blink")
          /\ SamePages(n, m) /\ KeepsUsed(n, m, UsedOf(m))
      BY <1>4, <2>3, <3>1, MeltStep
    <3>3. ASSUME h = m.hdr[a].heap, NEW sound, Files(m, {a}, sound) PROVE Files(n, {p}, sound)
      BY <1>4, <2>3, <3>1, <3>3, MeltStepFiles
    <3>. QED
      BY <2>2, <3>2, <3>3 DEF n, Melted
<1>. QED
  BY <1>3, <1>4

\* What heap_eat_right leaves.
Eaten(n, m, h, a) ==
  /\ Blocks(n) /\ UnitsOf(n) = UnitsOf(m) /\ NoPair(n, {})
  /\ a \in DOMAIN n.hdr /\ ~n.hdr[a].used /\ n.hdr[a].heap = m.hdr[a].heap
  /\ SamePages(n, m) /\ KeepsUsed(n, m, UsedOf(m))
  /\ h = m.hdr[a].heap => \A sound : Files(m, {a}, sound) => Files(n, {a}, sound)

\* heap_eat_right.
LEMMA Eat ==
  ASSUME NEW m, Blocks(m), NEW a \in DOMAIN m.hdr, ~m.hdr[a].used, NoPair(m, {a}),
         Stops(m, a, "page_blink"),
         NEW h \in Heaps, NEW n, n = HeapEatRight(m, h, a)
  PROVE  Eaten(n, m, h, a)
<1>. DEFINE p == m.hdr[a].page_flink
<1>1. Short(m, "page_flink") /\ (~Stops(m, a, "page_flink") => Stops(m, m.hdr[a].page_flink, "page_flink"))
  BY ShortRight
<1>2. Unused(m, a, "page_flink") = IF Stops(m, a, "page_flink") THEN <<>> ELSE <<p>>
  BY <1>1, UnusedNext
<1>3. CASE Stops(m, a, "page_flink")
  <2>1. n = m
    BY <1>2, <1>3, EatRightIs
  <2>2. NoPair(m, {})
    BY <1>3, NoPairAt DEF Stops
  <2>. QED
    BY <1>3, <2>1, <2>2 DEF SamePages, KeepsUsed, UsedOf, Eaten
<1>4. CASE ~Stops(m, a, "page_flink")
  <2>1. n = Absorb(HeapRemoveHeader(m, h, p), a, p)
    BY <1>2, <1>4, EatRightIs
  <2>. HIDE DEF p
  <2>2. p = m.hdr[a].page_flink
    BY DEF p
  <2>. QED
    <3>1. /\ Blocks(n) /\ UnitsOf(n) = UnitsOf(m) /\ NoPair(n, {})
          /\ a \in DOMAIN n.hdr /\ ~n.hdr[a].used /\ n.hdr[a].heap = m.hdr[a].heap
          /\ SamePages(n, m) /\ KeepsUsed(n, m, UsedOf(m))
      BY <1>4, <2>1, <2>2, EatStep
    <3>2. ASSUME h = m.hdr[a].heap, NEW sound, Files(m, {a}, sound) PROVE Files(n, {a}, sound)
      BY <1>4, <2>1, <2>2, <3>2, EatStepFiles
    <3>. QED
      BY <3>1, <3>2 DEF Eaten
<1>. QED
  BY <1>3, <1>4

\* What heap_insert_unused_header leaves.
Inserted(r, m, h, a) ==
  /\ MemoryOK(r) /\ r.status \in {m.status, "undefined"} /\ r.mapped = m.mapped
  /\ r.complete_pages = m.complete_pages
  /\ r.status = "running" /\ h = m.hdr[a].heap =>
       /\ SameBlocks(r, m) /\ Blocks(r) /\ UnitsOf(r) = UnitsOf(m)
       /\ KeepsUsed(r, m, UsedOf(m))
       /\ \A E : NoPair(m, E) => NoPair(r, E)
       /\ \A sound : Files(m, {a}, sound) => Files(r, {}, sound)

\* A block that is put in the list of its class.
LEMMA InsertGood ==
  ASSUME NEW m, Blocks(m), NEW a \in DOMAIN m.hdr, ~m.hdr[a].used,
         NEW h \in Heaps, NEW r, r = HeapInsertUnused(m, h, a)
  PROVE  Inserted(r, m, h, a)
<1>. DEFINE index == HeapGetIndex(m.hdr[a].size - S)
<1>1. CASE index = NoClass
  <2>1. r = Stop(m, "undefined")
    BY <1>1 DEF HeapInsertUnused
  <2>2. /\ MemoryOK(r) /\ r.mapped = m.mapped /\ r.complete_pages = m.complete_pages
        /\ r.status = IF m.status = "running" THEN "undefined" ELSE m.status
    BY <2>1, Stopped DEF Blocks
  <2>. QED
    BY Zenon, <2>2 DEF Inserted
<1>2. CASE index # NoClass
  <2>. HIDE DEF index
  <2>1. index \in Classes
    BY <1>2, ClassOfBlock DEF index
  <2>2. MemoryOK(r) /\ SamePages(r, m) /\ (m.hdr[a].heap = h => Lists(r, m, h, a, index))
    BY <2>1, InsertFields DEF Blocks, index
  <2>3. r.status = m.status /\ r.mapped = m.mapped /\ r.complete_pages = m.complete_pages
    BY <2>2 DEF SamePages
  <2>4. ASSUME h = m.hdr[a].heap
        PROVE  /\ SameBlocks(r, m) /\ Blocks(r) /\ UnitsOf(r) = UnitsOf(m)
               /\ KeepsUsed(r, m, UsedOf(m))
               /\ \A E : NoPair(m, E) => NoPair(r, E)
               /\ \A sound : Files(m, {a}, sound) => Files(r, {}, sound)
    <3>1. Lists(r, m, h, a, index) /\ SameBlocks(r, m)
      BY Zenon, <2>2, <2>4 DEF Lists
    <3>2. /\ Blocks(r) /\ UnitsOf(r) = UnitsOf(m)
          /\ \A E : NoPair(m, E) => NoPair(r, E)
      BY <2>2, <3>1, SameBlocksTiled
    <3>3. KeepsUsed(r, m, UsedOf(m))
      BY <3>1 DEF KeepsUsed, UsedOf, SameBlocks
    <3>4. ASSUME NEW sound, Files(m, {a}, sound) PROVE Files(r, {}, sound)
      <4>. DEFINE F == FreeOf(m, sound) \ {a}
      <4>1. Linked(m) /\ OutOfLists(m, {a}) /\ NoneAtNull(m, sound) /\ Filed(m, F) /\ Classed(m, F)
        BY <3>4 DEF Files, FilesBut
      <4>2. Loose(m, a)
        BY <4>1 DEF OutOfLists
      <4>3. Linked(r) /\ \A x \in DOMAIN m.hdr \ {a} : Loose(m, x) => Loose(r, x)
        BY <2>1, <2>4, <3>1, <4>1, <4>2, LinkedLists DEF Blocks
      <4>4. a = NULL => \A x \in F : m.hdr[x].heap # h
        BY <2>4, <4>1 DEF NoneAtNull, FreeOf
      <4>. HIDE DEF F
      <4>5. Filed(r, IF a = NULL THEN F ELSE F \cup {a})
        BY <2>1, <2>4, <3>1, <4>1, <4>2, <4>4, FiledLists DEF Blocks
      <4>6. FreeOf(r, sound) = FreeOf(m, sound)
        BY <3>1 DEF FreeOf, SameBlocks
      <4>7. NULL \notin FreeOf(m, sound)
        BY <4>1 DEF NoneAtNull, FreeOf
      <4>8. FreeOf(r, sound) \ {} \subseteq IF a = NULL THEN F ELSE F \cup {a}
        BY <4>6, <4>7 DEF F
      <4>9. Filed(r, FreeOf(r, sound) \ {})
        BY <4>5, <4>8 DEF Filed, FiledAs
      <4>10. OutOfLists(r, {})
        BY <3>1, <4>1, <4>3 DEF OutOfLists, SameBlocks
      <4>11. NoneAtNull(r, sound)
        BY <3>1, <4>1 DEF NoneAtNull, SameBlocks
      <4>12. Classed(r, FreeOf(r, sound) \ {})
        <5>. SUFFICES ASSUME NEW x \in FreeOf(m, sound)
                      PROVE  r.hdr[x].index = HeapGetIndex(r.hdr[x].size - S)
          BY <4>6 DEF Classed
        <5>1. x \in DOMAIN m.hdr
          BY DEF FreeOf
        <5>2. r.hdr[x].size = m.hdr[x].size
          BY <3>1, <5>1 DEF SameBlocks
        <5>3. r.hdr[x].index = IF x = a THEN index ELSE m.hdr[x].index
          BY <3>1, <5>1 DEF Lists
        <5>4. x # a => m.hdr[x].index = HeapGetIndex(m.hdr[x].size - S)
          BY <4>1 DEF Classed, F
        <5>. QED
          BY <5>2, <5>3, <5>4 DEF index
      <4>. QED
        BY <4>3, <4>9, <4>10, <4>11, <4>12 DEF Files, FilesBut
    <3>. QED
      BY Zenon, <3>1, <3>2, <3>3, <3>4
  <2>. QED
    BY <2>2, <2>3, <2>4 DEF Inserted
<1>. QED
  BY <1>1, <1>2

\* What the end of free leaves.
GivenBack(r, m, h, a, index) ==
  /\ MemoryOK(r) /\ r.status \in {m.status, "undefined", "fault"}
  /\ r.mapped \subseteq m.mapped
  /\ r.mapped # m.mapped => r.complete_pages[h][index] = MaxComplete
  /\ OneTable(r, m)
  /\ r.status = "running" /\ h = m.hdr[a].heap =>
       /\ Blocks(r) /\ UnitsOf(r) \subseteq UnitsOf(m) /\ NoPair(r, {})
       /\ KeepsUsed(r, m, UsedOf(m))
       /\ \A sound : Files(m, {a}, sound) => Files(r, {}, sound)

\* The end of free.
LEMMA GiveBackGood ==
  ASSUME NEW m, Blocks(m), NoPair(m, {}), NEW a \in DOMAIN m.hdr, ~m.hdr[a].used,
         NEW h \in Heaps, NEW index \in Classes, NEW r, r = GiveBack(m, h, a, index)
  PROVE  GivenBack(r, m, h, a, index)
<1>1. MemoryOK(m) /\ a \in Nat
  BY HeadersOf DEF Blocks
<1>6. r.mapped = m.mapped => OneTable(r, m)
  BY DEF OneTable
<1>2. CASE ~Standalone(m, a)
  <2>1. r = HeapInsertUnused(m, h, a)
    BY <1>2 DEF GiveBack
  <2>2. /\ MemoryOK(r) /\ r.status \in {m.status, "undefined"} /\ r.mapped = m.mapped
        /\ r.status = "running" /\ h = m.hdr[a].heap =>
              /\ Blocks(r) /\ UnitsOf(r) = UnitsOf(m)
              /\ KeepsUsed(r, m, UsedOf(m))
              /\ NoPair(r, {})
              /\ \A sound : Files(m, {a}, sound) => Files(r, {}, sound)
    <3>1. Inserted(r, m, h, a)
      BY <2>1, InsertGood
    <3>. QED
      BY <3>1 DEF Inserted
  <2>. QED
    BY <1>6, <2>2 DEF GivenBack
<1>3. CASE Standalone(m, a) /\ ~TooMany(m, h, index)
  <2>. DEFINE c == [m EXCEPT !.complete_pages[h][index] = (@ + 1) % 256]
              k == [m.complete_pages EXCEPT ![h][index] = (@ + 1) % 256]
  <2>1. r = HeapInsertUnused(c, h, a)
    BY Zenon, <1>3 DEF GiveBack
  <2>2. k \in [Heaps -> [Classes -> 0..255]]
    <3>1. m.complete_pages \in [Heaps -> [Classes -> 0..255]]
      BY <1>1 DEF MemoryOK
    <3>2. (m.complete_pages[h][index] + 1) % 256 \in 0..255
      <4>1. m.complete_pages[h][index] \in 0..255
        BY <3>1
      <4>. QED
        BY SMTT(30), <4>1
    <3>. QED
      BY <3>1, <3>2
  <2>3. c = [m EXCEPT !.complete_pages = k]
    OBVIOUS
  <2>. HIDE DEF c, k
  <2>4. /\ MemoryOK(c) /\ c.hdr = m.hdr /\ c.free_blocks = m.free_blocks
        /\ c.mapped = m.mapped /\ c.status = m.status
    BY <1>1, <2>2, <2>3, WithCounters
  <2>5. /\ Blocks(c) /\ UnitsOf(c) = UnitsOf(m) /\ UsedOf(c) = UsedOf(m) /\ NoPair(c, {})
        /\ \A sound : Files(m, {a}, sound) => Files(c, {a}, sound)
    BY <2>4, SameHeaders DEF Files, KeepsUsed
  <2>6. /\ MemoryOK(r) /\ r.status \in {m.status, "undefined"} /\ r.mapped = m.mapped
        /\ r.status = "running" /\ h = m.hdr[a].heap =>
              /\ Blocks(r) /\ UnitsOf(r) = UnitsOf(c)
              /\ KeepsUsed(r, c, UsedOf(c))
              /\ NoPair(r, {})
              /\ \A sound : Files(c, {a}, sound) => Files(r, {}, sound)
    <3>1. Inserted(r, c, h, a)
      BY <2>1, <2>4, <2>5, InsertGood
    <3>. QED
      BY <2>4, <2>5, <3>1 DEF Inserted
  <2>7. KeepsUsed(r, c, UsedOf(c)) => KeepsUsed(r, m, UsedOf(m))
    BY <2>4, <2>5 DEF KeepsUsed
  <2>. QED
    BY <1>6, <2>4, <2>5, <2>6, <2>7 DEF GivenBack
<1>4. CASE Standalone(m, a) /\ TooMany(m, h, index) /\ a % PageSize # 0
  <2>1. r = m
    BY <1>4 DEF GiveBack
  <2>2. ASSUME NEW sound, Files(m, {a}, sound) PROVE Files(m, {}, sound)
    <3>1. a # NULL
      BY <1>4, Constants DEF NULL
    <3>2. NULL \in DOMAIN m.hdr /\ m.hdr[NULL].page_flink = a
      BY <1>4 DEF Standalone, Blocks, Tiled
    <3>3. m.hdr[NULL].heap = m.hdr[a].heap
      BY <3>1, <3>2, RightOf DEF Blocks
    <3>4. FreeOf(m, sound) \ {a} = FreeOf(m, sound) \ {}
      BY <2>2, <3>2, <3>3 DEF Files, FilesBut, NoneAtNull, FreeOf
    <3>5. OutOfLists(m, {})
      BY <2>2 DEF Files, FilesBut, OutOfLists
    <3>. QED
      BY <2>2, <3>4, <3>5 DEF Files, FilesBut
  <2>. QED
    BY <1>1, <1>6, <2>1, <2>2 DEF KeepsUsed, UsedOf, GivenBack
<1>5. CASE Standalone(m, a) /\ TooMany(m, h, index) /\ a % PageSize = 0
  <2>. DEFINE pages == SizeToPages(m.hdr[a].size)
              without == [m EXCEPT !.hdr = [x \in DOMAIN @ \ {a} |-> @[x]]]
              page == a \div PageSize
  <2>1. r = PageUnmap(without, page, pages)
    BY <1>5 DEF GiveBack
  <2>2. page \in Nat /\ pages \in Nat
    <3>1. m.hdr[a].size \in Nat
      BY <1>1, HeadersOf
    <3>2. PageSize \in Nat \ {0}
      BY Constants
    <3>. QED
      BY <1>1, <3>1, <3>2, PagesNeeded, Division
  <2>3. /\ MemoryOK(without) /\ SamePages(without, m) /\ without.free_blocks = m.free_blocks
        /\ DOMAIN without.hdr = DOMAIN m.hdr \ {a}
        /\ \A x \in DOMAIN m.hdr \ {a} : without.hdr[x] = m.hdr[x]
    BY <1>1, HeaderGone
  <2>. HIDE DEF without, pages, page
  <2>4. /\ MemoryOK(r) /\ r.hdr = without.hdr /\ r.free_blocks = m.free_blocks
        /\ r.complete_pages = m.complete_pages
        /\ r.status \in {m.status, "fault"} /\ r.mapped \subseteq m.mapped
    BY <2>1, <2>2, <2>3, PageUnmapKeeps DEF SamePages
  <2>5. Blocks(r) /\ UnitsOf(r) \subseteq UnitsOf(m) /\ NoPair(r, {})
    <3>1. NoPair(m, {a})
      BY DEF NoPair
    <3>. QED
      BY <1>5, <2>3, <2>4, <3>1, GoneTiled
  <2>6. KeepsUsed(r, m, UsedOf(m))
    BY <2>3, <2>4 DEF KeepsUsed, UsedOf
  <2>7. ASSUME NEW sound, Files(m, {a}, sound) PROVE Files(r, {}, sound)
    <3>1. /\ a \in {a} /\ {a} \subseteq {} \cup {a} /\ {a} \ {a} = {}
      OBVIOUS
    <3>2. FilesBut(m, {a}, {a}, sound)
      BY <2>7 DEF Files
    <3>3. \A x \in DOMAIN m.hdr \ {a} :
            /\ SameLinks(r, m, x) /\ r.hdr[x].used = m.hdr[x].used
            /\ x \notin {} => r.hdr[x].size = m.hdr[x].size
      BY <2>3, <2>4 DEF SameLinks
    <3>4. FilesBut(r, {a} \ {a}, {}, sound)
      BY <2>3, <2>4, <3>1, <3>2, <3>3, ForgetFiles
    <3>. QED
      BY <3>1, <3>4 DEF Files
  <2>8. r.complete_pages[h][index] = MaxComplete
    BY <1>5, <2>4 DEF TooMany
  <2>9. OneTable(r, m)
    <3>1. without.mapped = m.mapped
      BY <2>3 DEF SamePages
    <3>2. \A q \in without.mapped \ r.mapped :
            q \in Run(page, pages) \/ (TableOf(q) = TableOf(page) /\ TableOf(page) \notin r.tables)
      BY <2>1, <2>3, PageUnmapLoses
    <3>3. \A q \in Run(page, pages) : q \in PagesOf(m) \ PagesOf(r)
      BY <1>5, <2>3, <2>4, GonePages DEF page, pages
    <3>. QED
      BY <3>1, <3>2, <3>3 DEF OneTable
  <2>. QED
    BY <2>4, <2>5, <2>6, <2>7, <2>8, <2>9 DEF GivenBack, SamePages
<1>. QED
  BY <1>2, <1>3, <1>4, <1>5

\* What two steps keep.
LEMMA KeepsTwice ==
  ASSUME NEW m, NEW n, NEW r, NEW U, KeepsUsed(n, m, U), KeepsUsed(r, n, UsedOf(n))
  PROVE  KeepsUsed(r, m, U)
BY DEF KeepsUsed

\* What free leaves.
Freed(r, m, h, a) ==
  /\ MemoryOK(r) /\ r.status \in {m.status, "undefined", "fault"}
  /\ r.mapped \subseteq m.mapped
  /\ r.mapped # m.mapped =>
       r.complete_pages[h][HeapGetIndex(m.hdr[a].size - S)] = MaxComplete
  /\ OneTable(r, m)
  /\ r.status = "running" /\ h = m.hdr[a].heap =>
       /\ Blocks(r) /\ UnitsOf(r) \subseteq UnitsOf(m) /\ NoPair(r, {})
       /\ KeepsUsed(r, m, UsedOf(m) \ {a})
       /\ \A sound : Files(m, {}, sound) => Files(r, {}, sound)

\* free and free_3.
LEMMA FreeGood ==
  ASSUME NEW m, Blocks(m), NoPair(m, {}), NEW a \in DOMAIN m.hdr, m.hdr[a].used,
         m.hdr[a].size > S, NEW h \in Heaps, NEW r, r = Free(m, h, a)
  PROVE  Freed(r, m, h, a)
<1>. DEFINE index == HeapGetIndex(m.hdr[a].size - S)
            m1 == [m EXCEPT !.hdr[a].used = FALSE]
            at == HeapMeltLeft(m1, h, a)
            m3 == HeapEatRight(at.m, h, at.a)
<1>1. r = GiveBack(m3, h, at.a, index)
  BY DEF Free
<1>2. index \in Classes
  <2>1. m.hdr[a].size # S
    <3>1. m.hdr[a].size \in Nat
      BY HeadersOf DEF Blocks
    <3>. QED
      BY <3>1, Constants
  <2>. QED
    BY <2>1, ClassOfBlock
<1>3. /\ Blocks(m1) /\ UnitsOf(m1) = UnitsOf(m) /\ NoPair(m1, {a})
      /\ a \in DOMAIN m1.hdr /\ ~m1.hdr[a].used /\ m1.hdr[a].heap = m.hdr[a].heap
      /\ SamePages(m1, m) /\ KeepsUsed(m1, m, UsedOf(m) \ {a})
      /\ \A sound : Files(m, {}, sound) => Files(m1, {a}, sound)
  BY MarkFree
<1>. HIDE DEF m1, index
<1>4. Melted(at, m1, h, a)
  BY <1>3, Melt
<1>. DEFINE m2 == at.m
            p == at.a
<1>5. m3 = HeapEatRight(m2, h, p)
  OBVIOUS
<1>6. /\ Blocks(m2) /\ UnitsOf(m2) = UnitsOf(m1) /\ NoPair(m2, {p})
      /\ p \in DOMAIN m2.hdr /\ ~m2.hdr[p].used /\ m2.hdr[p].heap = m1.hdr[a].heap
      /\ Stops(m2, p, "page_blink")
      /\ SamePages(m2, m1) /\ KeepsUsed(m2, m1, UsedOf(m1))
      /\ h = m1.hdr[a].heap =>
           \A sound : Files(m1, {a}, sound) => Files(m2, {p}, sound)
  BY <1>4 DEF Melted
<1>7. r = GiveBack(m3, h, p, index)
  BY <1>1
<1>. HIDE DEF at, m2, p, m3
<1>8. Eaten(m3, m2, h, p)
  BY <1>5, <1>6, Eat
<1>9. /\ Blocks(m3) /\ UnitsOf(m3) = UnitsOf(m2) /\ NoPair(m3, {})
      /\ p \in DOMAIN m3.hdr /\ ~m3.hdr[p].used /\ m3.hdr[p].heap = m2.hdr[p].heap
      /\ SamePages(m3, m2) /\ KeepsUsed(m3, m2, UsedOf(m2))
      /\ h = m2.hdr[p].heap => \A sound : Files(m2, {p}, sound) => Files(m3, {p}, sound)
  BY <1>8 DEF Eaten
<1>10. GivenBack(r, m3, h, p, index)
  BY <1>2, <1>7, <1>9, GiveBackGood
<1>11. /\ MemoryOK(r) /\ r.status \in {m3.status, "undefined", "fault"}
       /\ r.mapped \subseteq m3.mapped
       /\ r.mapped # m3.mapped => r.complete_pages[h][index] = MaxComplete
       /\ r.status = "running" /\ h = m3.hdr[p].heap =>
            /\ Blocks(r) /\ UnitsOf(r) \subseteq UnitsOf(m3) /\ NoPair(r, {})
            /\ KeepsUsed(r, m3, UsedOf(m3))
            /\ \A sound : Files(m3, {p}, sound) => Files(r, {}, sound)
  BY <1>10 DEF GivenBack
<1>12. m3.status = m.status /\ m3.mapped = m.mapped
  BY <1>3, <1>6, <1>9 DEF SamePages
<1>15. OneTable(r, m)
  <2>1. OneTable(r, m3)
    BY <1>10 DEF GivenBack
  <2>2. UnitsOf(m3) = UnitsOf(m)
    BY <1>3, <1>6, <1>9
  <2>3. PagesOf(m3) = PagesOf(m)
    BY <2>2 DEF PagesOf
  <2>. QED
    BY <1>12, <2>1, <2>3 DEF OneTable
<1>13. KeepsUsed(r, m3, UsedOf(m3)) => KeepsUsed(r, m, UsedOf(m) \ {a})
  <2>1. KeepsUsed(m2, m, UsedOf(m) \ {a})
    BY <1>3, <1>6, KeepsTwice
  <2>2. KeepsUsed(m3, m, UsedOf(m) \ {a})
    BY <1>9, <2>1, KeepsTwice
  <2>. QED
    BY <2>2, KeepsTwice
<1>14. ASSUME r.status = "running", h = m.hdr[a].heap
       PROVE  /\ Blocks(r) /\ UnitsOf(r) \subseteq UnitsOf(m) /\ NoPair(r, {})
              /\ KeepsUsed(r, m, UsedOf(m) \ {a})
              /\ \A sound : Files(m, {}, sound) => Files(r, {}, sound)
  BY <1>3, <1>6, <1>9, <1>11, <1>13, <1>14
<1>. QED
  BY <1>11, <1>12, <1>14, <1>15 DEF Freed, index

-----------------------------------------------------------------------------
(* FreeList finds what is in a list. *)

\* The block that a walk along the list of a class meets next.
NextOf(m, h, index, list) ==
  IF list = <<>> THEN m.free_blocks[h][index] ELSE m.hdr[Last(list)].flink

\* One step of a walk.
Walked(m, h, index, list) ==
  IF NextOf(m, h, index, list) \in DOMAIN m.hdr \ {NULL}
    THEN Append(list, NextOf(m, h, index, list)) ELSE list

\* What FreeList computes.
SolvesList(f, m, h, index) ==
  f = [t \in SUBSET DOMAIN m.hdr |->
         IF t = {} THEN <<>>
         ELSE LET x == CHOOSE x \in t : TRUE IN Walked(m, h, index, f[t \ {x}])]

\* Walks of up to n steps.
Walks(w, m, h, index, n) ==
  /\ w[0] = <<>>
  /\ \A i \in 0..(n - 1) : w[i + 1] = Walked(m, h, index, w[i])

\* What a walk of i steps has seen.
Seen(list, m, h, index, i) ==
  /\ list \in Seq(DOMAIN m.hdr \ {NULL}) /\ Len(list) <= i
  /\ list # <<>> => list[1] = m.free_blocks[h][index]
  /\ \A j \in 1..(Len(list) - 1) : list[j + 1] = m.hdr[list[j]].flink
  /\ Len(list) = i \/ NextOf(m, h, index, list) \notin DOMAIN m.hdr \ {NULL}

\* A walk of one step more.
LEMMA SeenNext ==
  ASSUME NEW m, NEW h, NEW index, NEW i \in Nat, NEW list, Seen(list, m, h, index, i)
  PROVE  Seen(Walked(m, h, index, list), m, h, index, i + 1)
<1>. DEFINE next == NextOf(m, h, index, list)
            r == Walked(m, h, index, list)
            T == DOMAIN m.hdr \ {NULL}
<1>1. CASE next \notin T
  BY <1>1 DEF Seen, Walked
<1>2. CASE next \in T
  <2>1. list \in Seq(T) /\ Len(list) \in Nat /\ Len(list) = i
    BY <1>2 DEF Seen
  <2>2. r = Append(list, next)
    BY <1>2 DEF Walked
  <2>3. /\ r \in Seq(T) /\ Len(r) = Len(list) + 1 /\ r[Len(list) + 1] = next
        /\ \A j \in 1..Len(list) : r[j] = list[j]
    BY <1>2, <2>1, <2>2, AppendProperties
  <2>4. list # <<>> => Last(list) = list[Len(list)] /\ Len(list) >= 1
    BY <2>1 DEF Last
  <2>5. list = <<>> => Len(list) = 0
    OBVIOUS
  <2>. HIDE DEF r, next
  <2>6. r # <<>> => r[1] = m.free_blocks[h][index]
    BY <2>1, <2>3, <2>4, <2>5 DEF Seen, NextOf, next
  <2>7. ASSUME NEW j \in 1..(Len(r) - 1) PROVE r[j + 1] = m.hdr[r[j]].flink
    <3>1. CASE j = Len(list)
      BY <2>1, <2>3, <2>4, <2>5, <3>1 DEF NextOf, next
    <3>2. CASE j # Len(list)
      BY <2>1, <2>3, <3>2 DEF Seen
    <3>. QED
      BY <3>1, <3>2
  <2>. QED
    BY <2>1, <2>3, <2>6, <2>7 DEF Seen, r
<1>. QED
  BY <1>1, <1>2

\* There are walks of any length.
LEMMA WalksExist ==
  ASSUME NEW m, NEW h, NEW index
  PROVE  \A n \in Nat : \E w \in [0..n -> Seq(DOMAIN m.hdr \ {NULL})] :
           Walks(w, m, h, index, n) /\ \A i \in 0..n : Seen(w[i], m, h, index, i)
<1>. DEFINE T == DOMAIN m.hdr \ {NULL}
            N == {n \in Nat : \E w \in [0..n -> Seq(T)] :
                    Walks(w, m, h, index, n) /\ \A i \in 0..n : Seen(w[i], m, h, index, i)}
<1>1. 0 \in N
  <2>. DEFINE w == [i \in 0..0 |-> <<>>]
  <2>1. w \in [0..0 -> Seq(T)] /\ w[0] = <<>>
    OBVIOUS
  <2>2. Seen(<<>>, m, h, index, 0)
    BY DEF Seen
  <2>. HIDE DEF w
  <2>3. Walks(w, m, h, index, 0) /\ \A i \in 0..0 : Seen(w[i], m, h, index, i)
    BY <2>1, <2>2 DEF Walks
  <2>. QED
    BY <2>1, <2>3
<1>2. ASSUME NEW n \in Nat, n \in N PROVE n + 1 \in N
  <2>1. PICK w \in [0..n -> Seq(T)] :
          Walks(w, m, h, index, n) /\ \A i \in 0..n : Seen(w[i], m, h, index, i)
    BY <1>2
  <2>. DEFINE last == Walked(m, h, index, w[n])
              v == [i \in 0..(n + 1) |-> IF i = n + 1 THEN last ELSE w[i]]
  <2>2. Seen(last, m, h, index, n + 1)
    BY <2>1, SeenNext
  <2>3. last \in Seq(T)
    BY <2>2 DEF Seen
  <2>. HIDE DEF last
  <2>4. v \in [0..(n + 1) -> Seq(T)] /\ v[n + 1] = last /\ \A i \in 0..n : v[i] = w[i]
    BY <2>3
  <2>. HIDE DEF v
  <2>5. Walks(v, m, h, index, n + 1)
    <3>1. v[0] = <<>>
      BY <2>1, <2>4 DEF Walks
    <3>2. ASSUME NEW i \in 0..(n + 1 - 1) PROVE v[i + 1] = Walked(m, h, index, v[i])
      <4>1. CASE i = n
        BY <2>4, <4>1 DEF last
      <4>2. CASE i # n
        <5>1. i \in 0..(n - 1) /\ i + 1 \in 0..n /\ i \in 0..n
          BY <4>2
        <5>. QED
          BY <2>1, <2>4, <5>1 DEF Walks
      <4>. QED
        BY <4>1, <4>2
    <3>. QED
      BY <3>1, <3>2 DEF Walks
  <2>6. ASSUME NEW i \in 0..(n + 1) PROVE Seen(v[i], m, h, index, i)
    <3>1. CASE i = n + 1
      BY <2>2, <2>4, <3>1
    <3>2. CASE i # n + 1
      <4>1. i \in 0..n
        BY <3>2
      <4>. QED
        BY <2>1, <2>4, <4>1
    <3>. QED
      BY <3>1, <3>2
  <2>7. v \in [0..(n + 1) -> Seq(DOMAIN m.hdr \ {NULL})]
    BY <2>4
  <2>. HIDE DEF T
  <2>8. n + 1 \in Nat
    OBVIOUS
  <2>. QED
    BY <2>5, <2>6, <2>7, <2>8 DEF T
<1>. HIDE DEF N
<1>3. \A n \in Nat : n \in N
  BY <1>1, <1>2, SetInduction
<1>. QED
  BY <1>3 DEF N

\* FreeList is a walk of as many steps as there are headers.
LEMMA FreeListSeen ==
  ASSUME NEW m, IsFiniteSet(DOMAIN m.hdr), NEW h, NEW index
  PROVE  Seen(FreeList(m, h, index), m, h, index, Cardinality(DOMAIN m.hdr))
<1>. DEFINE D == DOMAIN m.hdr
            n == Cardinality(D)
            g == CHOOSE f : SolvesList(f, m, h, index)
<1>1. FreeList(m, h, index) = g[D]
  BY DEF FreeList, FoldSet, MapThenFoldSet, SolvesList, Walked, NextOf
<1>2. n \in Nat
  BY FS_CardinalityType
<1>3. PICK w \in [0..n -> Seq(D \ {NULL})] :
        Walks(w, m, h, index, n) /\ \A i \in 0..n : Seen(w[i], m, h, index, i)
  BY <1>2, WalksExist
<1>4. ASSUME NEW t \in SUBSET D PROVE Cardinality(t) \in 0..n /\ IsFiniteSet(t)
  BY <1>2, FS_Subset, FS_CardinalityType
<1>5. \E f : SolvesList(f, m, h, index)
  <2>. DEFINE f == [t \in SUBSET D |-> w[Cardinality(t)]]
  <2>1. ASSUME NEW t \in SUBSET D
        PROVE  f[t] = IF t = {} THEN <<>>
                      ELSE LET x == CHOOSE x \in t : TRUE IN Walked(m, h, index, f[t \ {x}])
    <3>1. CASE t = {}
      BY <1>3, <3>1, FS_EmptySet DEF Walks
    <3>2. CASE t # {}
      <4>. DEFINE x == CHOOSE x \in t : TRUE
      <4>1. x \in t
        BY <3>2
      <4>. HIDE DEF x
      <4>2. Cardinality(t \ {x}) = Cardinality(t) - 1 /\ t \ {x} \in SUBSET D
        BY <1>4, <4>1, FS_RemoveElement
      <4>3. Cardinality(t \ {x}) \in 0..(n - 1)
        BY <1>2, <1>4, <4>2
      <4>4. Cardinality(t) = Cardinality(t \ {x}) + 1
        BY <1>4, <4>2
      <4>5. w[Cardinality(t)] = Walked(m, h, index, w[Cardinality(t \ {x})])
        BY <1>3, <4>3, <4>4 DEF Walks
      <4>6. f[t] = Walked(m, h, index, f[t \ {x}])
        BY <4>2, <4>5
      <4>. QED
        BY <3>2, <4>6 DEF x
    <3>. QED
      BY <3>1, <3>2
  <2>2. f = [t \in SUBSET D |-> f[t]]
    OBVIOUS
  <2>. HIDE DEF f
  <2>3. SolvesList(f, m, h, index)
    BY <2>1, <2>2 DEF SolvesList
  <2>. QED
    BY <2>3
<1>6. SolvesList(g, m, h, index)
  BY <1>5
<1>. HIDE DEF g, D, n
<1>7. ASSUME NEW t \in SUBSET D
      PROVE  g[t] = IF t = {} THEN <<>>
                    ELSE LET x == CHOOSE x \in t : TRUE IN Walked(m, h, index, g[t \ {x}])
  BY <1>6 DEF SolvesList, D
<1>8. \A i \in Nat : \A t \in SUBSET D : Cardinality(t) = i => g[t] = w[i]
  <2>. DEFINE N == {i \in Nat : \A t \in SUBSET D : Cardinality(t) = i => g[t] = w[i]}
  <2>1. 0 \in N
    <3>1. ASSUME NEW t \in SUBSET D, Cardinality(t) = 0 PROVE g[t] = w[0]
      <4>1. t = {}
        BY <1>4, <3>1, FS_EmptySet
      <4>. QED
        BY <1>3, <1>7, <4>1 DEF Walks
    <3>. QED
      BY <3>1
  <2>2. ASSUME NEW i \in Nat, i \in N PROVE i + 1 \in N
    <3>1. ASSUME NEW t \in SUBSET D, Cardinality(t) = i + 1 PROVE g[t] = w[i + 1]
      <4>. DEFINE x == CHOOSE x \in t : TRUE
      <4>0. i + 1 # 0
        OBVIOUS
      <4>1. t # {}
        BY <3>1, <4>0, FS_EmptySet
      <4>2. x \in t
        BY <4>1
      <4>3. g[t] = Walked(m, h, index, g[t \ {x}])
        BY <1>7, <4>1
      <4>. HIDE DEF x
      <4>4. Cardinality(t \ {x}) = i /\ t \ {x} \in SUBSET D
        BY <1>4, <3>1, <4>2, FS_RemoveElement
      <4>5. g[t \ {x}] = w[i]
        BY <2>2, <4>4
      <4>6. i \in 0..(n - 1)
        BY <1>2, <1>4, <3>1
      <4>. QED
        BY <1>3, <4>3, <4>5, <4>6 DEF Walks
    <3>. QED
      BY <3>1
  <2>. HIDE DEF N
  <2>3. \A i \in Nat : i \in N
    BY <2>1, <2>2, SetInduction
  <2>. QED
    BY <2>3 DEF N
<1>9. g[D] = w[n]
  BY <1>2, <1>8 DEF n
<1>. QED
  BY <1>1, <1>2, <1>3, <1>9 DEF n, D

\* A list of blocks of a class, linked both ways.
Chained(list, m, h, index) ==
  /\ list \in Seq(DOMAIN m.hdr \ {NULL})
  /\ \A i \in 1..Len(list) :
       /\ m.hdr[list[i]].heap = h /\ m.hdr[list[i]].index = index
       /\ m.hdr[list[i]].blink = IF i = 1 THEN NULL ELSE list[i - 1]
       /\ i > 1 => m.hdr[list[i - 1]].flink = list[i]
       /\ ~Loose(m, list[i])

\* What is seen in a list is chained.
LEMMA SeenChained ==
  ASSUME NEW m, Linked(m), NEW h \in Heaps, NEW index \in Classes, NEW n \in Nat,
         NEW list, Seen(list, m, h, index, n)
  PROVE  Chained(list, m, h, index)
<1>. DEFINE T == DOMAIN m.hdr \ {NULL}
            Good(i) == /\ m.hdr[list[i]].heap = h /\ m.hdr[list[i]].index = index
                       /\ m.hdr[list[i]].blink = IF i = 1 THEN NULL ELSE list[i - 1]
                       /\ i > 1 => m.hdr[list[i - 1]].flink = list[i]
                       /\ ~Loose(m, list[i])
            N == {k \in Nat : k + 1 \in 1..Len(list) => Good(k + 1)}
<1>1. /\ list \in Seq(T) /\ Len(list) \in Nat
      /\ \A i \in 1..Len(list) : list[i] \in DOMAIN m.hdr /\ list[i] # NULL
      /\ list # <<>> => list[1] = m.free_blocks[h][index]
      /\ \A j \in 1..(Len(list) - 1) : list[j + 1] = m.hdr[list[j]].flink
  BY DEF Seen
<1>2. 0 \in N
  <2>. SUFFICES ASSUME 0 + 1 \in 1..Len(list) PROVE Good(1)
    OBVIOUS
  <2>1. list # <<>> /\ 1 \in 1..Len(list)
    OBVIOUS
  <2>2. list[1] = m.free_blocks[h][index] /\ list[1] # NULL
    BY <1>1, <2>1
  <2>. QED
    BY <2>2 DEF Linked, Loose
<1>3. ASSUME NEW k \in Nat, k \in N PROVE k + 1 \in N
  <2>. SUFFICES ASSUME k + 2 \in 1..Len(list) PROVE Good(k + 2)
    OBVIOUS
  <2>1. k + 1 \in 1..Len(list) /\ k + 1 \in 1..(Len(list) - 1)
    BY <1>1
  <2>. DEFINE a == list[k + 1]
              b == list[k + 2]
  <2>2. a \in DOMAIN m.hdr /\ a # NULL /\ b = m.hdr[a].flink /\ b # NULL
    BY <1>1, <2>1
  <2>3. m.hdr[a].heap = h /\ m.hdr[a].index = index
    BY <1>3, <2>1
  <2>. HIDE DEF a, b
  <2>4. m.hdr[b].blink = a /\ m.hdr[b].heap = h /\ m.hdr[b].index = index
    BY <2>2, <2>3 DEF Linked
  <2>5. ~Loose(m, b)
    BY <2>2, <2>4 DEF Loose
  <2>. QED
    BY <2>2, <2>4, <2>5 DEF a, b
<1>. HIDE DEF N
<1>4. \A k \in Nat : k \in N
  BY <1>2, <1>3, SetInduction
<1>5. ASSUME NEW i \in 1..Len(list) PROVE Good(i)
  <2>1. i - 1 \in Nat /\ i - 1 + 1 = i
    BY <1>1
  <2>2. i - 1 \in N
    BY <1>4, <2>1
  <2>. QED
    BY <2>1, <2>2 DEF N
<1>. QED
  BY <1>1, <1>5 DEF Chained

\* No block is twice in a list.
LEMMA ChainedOnce ==
  ASSUME NEW m, NEW h, NEW index, NEW list, Chained(list, m, h, index)
  PROVE  IsInjective(list)
<1>. DEFINE N == {i \in Nat : i \in 1..Len(list) /\ \E j \in 1..Len(list) : i < j /\ list[i] = list[j]}
<1>1. Len(list) \in Nat /\ \A i \in 1..Len(list) : list[i] # NULL
  BY DEF Chained
<1>2. CASE N = {}
  <2>1. ASSUME NEW i \in 1..Len(list), NEW j \in 1..Len(list), list[i] = list[j] PROVE i = j
    <3>1. ~(i < j) /\ ~(j < i)
      BY <1>2, <2>1
    <3>. QED
      BY <1>1, <3>1
  <2>2. DOMAIN list = 1..Len(list)
    BY DEF Chained
  <2>. QED
    BY <2>1, <2>2 DEF IsInjective
<1>3. CASE N # {}
  <2>1. N \subseteq Nat
    OBVIOUS
  <2>2. PICK i \in N : \A k \in N : i <= k
    BY <1>3, <2>1, LeastElement
  <2>3. i \in 1..Len(list)
    BY <2>2
  <2>4. PICK j \in 1..Len(list) : i < j /\ list[i] = list[j]
    BY <2>2
  <2>. HIDE DEF N
  <2>5. m.hdr[list[j]].blink = list[j - 1] /\ j > 1 /\ j - 1 \in 1..Len(list)
    BY <1>1, <2>3, <2>4 DEF Chained
  <2>6. i # 1
    BY <1>1, <2>4, <2>5 DEF Chained
  <2>7. m.hdr[list[i]].blink = list[i - 1] /\ i - 1 \in 1..Len(list)
    BY <1>1, <2>3, <2>6 DEF Chained
  <2>8. list[i - 1] = list[j - 1] /\ i - 1 < j - 1
    BY <2>3, <2>4, <2>5, <2>7
  <2>9. i - 1 \in N
    BY <2>5, <2>7, <2>8 DEF N
  <2>. QED
    BY <2>2, <2>3, <2>9
<1>. QED
  BY <1>2, <1>3

\* What kmalloc finds in a list.
LEMMA FreeListUnused ==
  ASSUME NEW m, MemoryOK(m), Linked(m), OutOfLists(m, {}), NEW h \in Heaps, NEW index \in Classes,
         NEW list, list = FreeList(m, h, index)
  PROVE  /\ list \in Seq(DOMAIN m.hdr) /\ Len(list) \in Nat
         /\ \A i \in 1..Len(list) :
              /\ list[i] \in DOMAIN m.hdr /\ list[i] # NULL /\ ~m.hdr[list[i]].used
              /\ m.hdr[list[i]].heap = h /\ m.hdr[list[i]].index = index
<1>1. IsFiniteSet(DOMAIN m.hdr) /\ Cardinality(DOMAIN m.hdr) \in Nat
  BY FS_CardinalityType DEF MemoryOK
<1>2. Seen(list, m, h, index, Cardinality(DOMAIN m.hdr))
  BY <1>1, FreeListSeen
<1>3. Chained(list, m, h, index)
  BY <1>1, <1>2, SeenChained
<1>4. list \in Seq(DOMAIN m.hdr \ {NULL}) /\ Len(list) \in Nat
  BY <1>3 DEF Chained
<1>5. ASSUME NEW i \in 1..Len(list)
      PROVE  /\ list[i] \in DOMAIN m.hdr /\ list[i] # NULL /\ ~m.hdr[list[i]].used
             /\ m.hdr[list[i]].heap = h /\ m.hdr[list[i]].index = index
  <2>1. list[i] \in DOMAIN m.hdr \ {NULL}
    BY <1>4
  <2>. QED
    BY <1>3, <2>1 DEF Chained, OutOfLists
<1>. QED
  BY <1>4, <1>5

\* A list holds the unused blocks of its class and no other.
LEMMA FreeListExact ==
  ASSUME NEW m, MemoryOK(m), NEW sound, Files(m, {}, sound), NEW h \in Heaps, h \in sound,
         NEW index \in Classes, NEW list, list = FreeList(m, h, index)
  PROVE  /\ IsInjective(list)
         /\ \A i \in 1..Len(list) :
              m.hdr[list[i]].blink = IF i = 1 THEN NULL ELSE list[i - 1]
         /\ ToSet(list) = {a \in DOMAIN m.hdr :
              /\ m.hdr[a].heap = h /\ ~m.hdr[a].used
              /\ HeapGetIndex(m.hdr[a].size - S) = index}
<1>. DEFINE D == DOMAIN m.hdr
            n == Cardinality(D)
            F == FreeOf(m, sound)
<1>1. IsFiniteSet(D) /\ n \in Nat
  BY FS_CardinalityType DEF MemoryOK
<1>2. Seen(list, m, h, index, n)
  BY <1>1, FreeListSeen
<1>3. Linked(m) /\ OutOfLists(m, {}) /\ Filed(m, F) /\ Classed(m, F) /\ NULL \notin F
  <2>1. F \ {} = F
    OBVIOUS
  <2>. QED
    BY <2>1 DEF Files, FilesBut, NoneAtNull, FreeOf
<1>4. Chained(list, m, h, index)
  BY <1>1, <1>2, <1>3, SeenChained
<1>5. IsInjective(list)
  BY <1>4, ChainedOnce
<1>6. list \in Seq(D \ {NULL}) /\ Len(list) \in Nat /\ DOMAIN list = 1..Len(list)
  BY <1>4 DEF Chained
<1>7. ASSUME NEW i \in 1..Len(list)
      PROVE  /\ list[i] \in F /\ m.hdr[list[i]].heap = h /\ m.hdr[list[i]].index = index
  BY <1>3, <1>6, FreeListUnused DEF FreeOf
<1>8. PICK rank \in [D -> Nat] : FiledAs(m, F, rank)
  BY <1>3 DEF Filed
<1>9. ASSUME NEW a \in F, m.hdr[a].heap = h, m.hdr[a].index = index
      PROVE  \E i \in 1..Len(list) : list[i] = a
  <2>. DEFINE B == {x \in F : /\ m.hdr[x].heap = h /\ m.hdr[x].index = index
                              /\ \A i \in 1..Len(list) : list[i] # x}
              R == {rank[x] : x \in B}
  <2>. SUFFICES ASSUME B # {} PROVE FALSE
    BY <1>9
  <2>0. F \subseteq D
    BY DEF FreeOf
  <2>1. R \subseteq Nat /\ R # {}
    BY <1>8, <2>0
  <2>2. PICK k \in R : \A y \in R : k <= y
    BY <2>1, LeastElement
  <2>3. PICK x \in B : k = rank[x]
    BY <2>2
  <2>4. \A y \in B : rank[x] <= rank[y]
    BY <2>2, <2>3
  <2>5. /\ x \in F /\ x \in D /\ x # NULL /\ m.hdr[x].heap = h /\ m.hdr[x].index = index
        /\ \A i \in 1..Len(list) : list[i] # x
    BY <1>3, <2>0, <2>3
  <2>6. NextOf(m, h, index, list) = x => Len(list) # n
    <3>. SUFFICES ASSUME Len(list) = n PROVE FALSE
      BY <2>5
    <3>. DEFINE I == 1..n
    <3>1. IsFiniteSet(I) /\ Cardinality(I) = n
      BY <1>1, FS_Interval
    <3>2. D \ {x} \in SUBSET D /\ IsFiniteSet(D \ {x}) /\ Cardinality(D \ {x}) = n - 1
      BY <1>1, <2>5, FS_RemoveElement
    <3>. DEFINE f == [i \in I |-> list[i]]
                X == D \ {x}
    <3>3. f \in [I -> X] /\ \A i \in I : f[i] = list[i]
      BY <1>6, <2>5
    <3>. HIDE DEF f, I, X
    <3>4. PICK i, j \in I : i # j /\ f[i] = f[j]
      <4>1. IsFiniteSet(I) /\ IsFiniteSet(X) /\ Cardinality(X) < Cardinality(I) /\ f \in [I -> X]
        BY <1>1, <3>1, <3>2, <3>3 DEF X
      <4>. HIDE DEF n, D, B, R, F
      <4>. QED
        BY <4>1, FS_PigeonHole
    <3>5. list[i] = list[j] /\ i \in DOMAIN list /\ j \in DOMAIN list
      BY <1>6, <3>3, <3>4 DEF I
    <3>. QED
      BY <1>5, <3>4, <3>5 DEF IsInjective
  <2>7. NextOf(m, h, index, list) # x
    BY <1>2, <2>5, <2>6 DEF Seen
  <2>8. CASE m.hdr[x].blink = NULL
    <3>1. m.free_blocks[h][index] = x
      BY <1>8, <2>5, <2>8 DEF FiledAs
    <3>2. list # <<>>
      BY <2>7, <3>1 DEF NextOf
    <3>3. list[1] = x /\ 1 \in 1..Len(list)
      BY <1>2, <1>6, <3>1, <3>2 DEF Seen
    <3>. QED
      BY <2>5, <3>3
  <2>9. CASE m.hdr[x].blink # NULL
    <3>. DEFINE y == m.hdr[x].blink
    <3>1. rank[y] < rank[x] /\ y # NULL
      BY <1>8, <2>5, <2>9 DEF FiledAs
    <3>2. y \in D /\ m.hdr[y].flink = x
      BY <1>3, <2>5, <2>9 DEF Linked
    <3>3. m.hdr[y].heap = h /\ m.hdr[y].index = index
      BY <1>3, <2>5, <3>1, <3>2 DEF Linked
    <3>4. ~m.hdr[y].used
      BY <1>3, <2>5, <3>1, <3>2 DEF OutOfLists, Loose
    <3>5. y \in F
      BY <3>2, <3>3, <3>4 DEF FreeOf
    <3>. HIDE DEF y
    <3>6. rank[y] \in Nat /\ rank[x] \in Nat
      BY <1>8, <2>5, <3>2
    <3>7. y \notin B
      <4>. HIDE DEF B
      <4>. QED
        BY <2>4, <3>1, <3>6
    <3>8. PICK i \in 1..Len(list) : list[i] = y
      BY <3>3, <3>5, <3>7
    <3>9. CASE i = Len(list)
      <4>1. Last(list) = y /\ list # <<>>
        BY <1>6, <3>8, <3>9 DEF Last
      <4>. QED
        BY <2>7, <3>2, <4>1 DEF NextOf
    <3>10. CASE i # Len(list)
      <4>1. i \in 1..(Len(list) - 1) /\ i + 1 \in 1..Len(list)
        <5>. DEFINE l == Len(list)
        <5>1. l \in Nat
          BY <1>6
        <5>2. i \in 1..l /\ i # l
          BY <3>10
        <5>. HIDE DEF B, l
        <5>3. i \in 1..(l - 1) /\ i + 1 \in 1..l
          BY <5>1, <5>2
        <5>. QED
          BY <5>3 DEF l
      <4>2. list[i + 1] = m.hdr[list[i]].flink
        BY <1>2, <4>1 DEF Seen
      <4>. QED
        BY <2>5, <3>2, <3>8, <4>1, <4>2
    <3>. QED
      BY <3>9, <3>10
  <2>. QED
    BY <2>8, <2>9
<1>10. ToSet(list) = {list[i] : i \in 1..Len(list)}
  BY <1>6 DEF ToSet
<1>. DEFINE U == {a \in D : /\ m.hdr[a].heap = h /\ ~m.hdr[a].used
                            /\ HeapGetIndex(m.hdr[a].size - S) = index}
<1>11. ASSUME NEW a PROVE a \in U <=> a \in F /\ m.hdr[a].heap = h /\ m.hdr[a].index = index
  BY <1>3 DEF FreeOf, Classed
<1>. HIDE DEF U, F
<1>12. ToSet(list) = U
  BY <1>7, <1>9, <1>10, <1>11
<1>. QED
  BY <1>4, <1>5, <1>12 DEF Chained, U

-----------------------------------------------------------------------------
(* kmalloc. *)

\* The block at a is in use as well, for size units of heap h.
AddsUsed(r, m, a, h, size) ==
  /\ a \notin UsedOf(m) /\ UsedOf(r) = UsedOf(m) \cup {a}
  /\ r.hdr[a].req = size /\ r.hdr[a].heap = h /\ r.hdr[a].size >= size + S
  /\ \A x \in UsedOf(m) :
       /\ x \in DOMAIN m.hdr /\ r.hdr[x].size = m.hdr[x].size
       /\ r.hdr[x].req = m.hdr[x].req /\ r.hdr[x].heap = m.hdr[x].heap

\* What kmalloc leaves when it takes a block from a list.
Reused(r, m, h, a, size) ==
  /\ Blocks(r) /\ UnitsOf(r) = UnitsOf(m) /\ NoPair(r, {})
  /\ r.tables = m.tables /\ r.mapped = m.mapped /\ r.status = m.status
  /\ a \in DOMAIN r.hdr /\ r.hdr[a].used /\ AddsUsed(r, m, a, h, size)
  /\ Stops(r, a, "page_flink")
  /\ \A sound : Files(m, {}, sound) => Files(r, {}, sound)

\* A byte is counted modulo its width.
LEMMA Byte ==
  ASSUME NEW x \in 0..255
  PROVE  (x + 255) % 256 \in 0..255 /\ (x + 1) % 256 \in 0..255
<1>1. x + 255 \in Nat /\ x + 1 \in Nat
  BY SMTT(30)
<1>. QED
  BY <1>1

\* A block that is taken from its list.
LEMMA ReuseGood ==
  ASSUME NEW m, Blocks(m), NoPair(m, {}), NEW a \in DOMAIN m.hdr, a # NULL, ~m.hdr[a].used,
         NEW h, h = m.hdr[a].heap, NEW size \in Nat, m.hdr[a].size >= size + S,
         NEW r, r = Reuse(m, h, a, size)
  PROVE  Reused(r, m, h, a, size)
<1>. DEFINE m1 == [m EXCEPT !.hdr[a].used = TRUE, !.hdr[a].req = size]
            n == HeapRemoveHeader(m1, h, a)
            l == HeapRemoveHeader(m, h, a)
            index == m.hdr[a].index
            k == [n.complete_pages EXCEPT ![h][index] = (@ + 255) % 256]
            c == [n EXCEPT !.complete_pages = k]
<1>1. MemoryOK(m) /\ h \in Heaps /\ index \in Classes
  BY HeadersOf DEF Blocks
<1>2. MemoryOK(m1) /\ Marks(m1, m, a, TRUE, size)
  BY Zenon, <1>1, MarkUsed
<1>3. Blocks(m1) /\ UnitsOf(m1) = UnitsOf(m) /\ NoPair(m1, {})
  <2>1. ASSUME NEW used \in BOOLEAN, used = TRUE PROVE Marks(m1, m, a, used, size)
    BY <1>2, <2>1
  <2>2. PICK used \in BOOLEAN : used = TRUE
    OBVIOUS
  <2>3. Marks(m1, m, a, used, size)
    BY Zenon, <2>1, <2>2
  <2>. HIDE DEF m1
  <2>. QED
    BY <1>2, <2>2, <2>3, MarksTiled
<1>4. r = IF Standalone(m, a) THEN c ELSE n
  BY Zenon DEF Reuse
<1>. HIDE DEF m1
<1>5. DOMAIN m1.hdr = DOMAIN m.hdr
  BY <1>2 DEF Marks
<1>6. MemoryOK(n) /\ Unlists(n, m1, h, a)
  BY <1>1, <1>2, <1>5, RemoveFields
<1>7. MemoryOK(l) /\ Unlists(l, m, h, a)
  BY Zenon, <1>1, RemoveFields
<1>. HIDE DEF n, l, index
<1>8. SameBlocks(n, m1) /\ SamePages(n, m1)
  BY <1>6 DEF Unlists
<1>9. /\ Blocks(n) /\ UnitsOf(n) = UnitsOf(m) /\ NoPair(n, {})
  BY <1>3, <1>6, <1>8, SameBlocksTiled
<1>10. /\ n.tables = m.tables /\ n.mapped = m.mapped /\ n.status = m.status
  BY Zenon, <1>2, <1>8 DEF SamePages, Marks
<1>11. /\ DOMAIN n.hdr = DOMAIN m.hdr /\ DOMAIN l.hdr = DOMAIN m.hdr
       /\ n.free_blocks = l.free_blocks
  <2>1. m1.hdr[a].index = m.hdr[a].index /\ m1.hdr[a].flink = m.hdr[a].flink
        /\ m1.free_blocks = m.free_blocks
    BY <1>2 DEF Marks
  <2>. QED
    BY ZenonT(30), <1>5, <1>6, <1>7, <2>1 DEF Unlists, SameBlocks
<1>12. ASSUME NEW x \in DOMAIN m.hdr
       PROVE  /\ SameLinks(n, l, x) /\ l.hdr[x].used = m.hdr[x].used /\ l.hdr[x].size = m.hdr[x].size
              /\ l.hdr[x].heap = m.hdr[x].heap
              /\ n.hdr[x].size = m.hdr[x].size /\ n.hdr[x].heap = m.hdr[x].heap
              /\ n.hdr[x].used = IF x = a THEN TRUE ELSE m.hdr[x].used
              /\ n.hdr[x].req = IF x = a THEN size ELSE m.hdr[x].req
  <2>1. /\ m1.hdr[x].size = m.hdr[x].size /\ m1.hdr[x].heap = m.hdr[x].heap
        /\ m1.hdr[x].used = (IF x = a THEN TRUE ELSE m.hdr[x].used)
        /\ m1.hdr[x].req = (IF x = a THEN size ELSE m.hdr[x].req)
        /\ m1.hdr[x].index = m.hdr[x].index
        /\ m1.hdr[x].flink = m.hdr[x].flink /\ m1.hdr[x].blink = m.hdr[x].blink
    BY <1>2 DEF Marks
  <2>2. m1.hdr[a].flink = m.hdr[a].flink /\ m1.hdr[a].blink = m.hdr[a].blink
    BY <1>2 DEF Marks
  <2>3. /\ n.hdr[x].size = m1.hdr[x].size /\ n.hdr[x].heap = m1.hdr[x].heap
        /\ n.hdr[x].used = m1.hdr[x].used /\ n.hdr[x].req = m1.hdr[x].req
    BY <1>5, <1>8 DEF SameBlocks
  <2>4. /\ l.hdr[x].size = m.hdr[x].size /\ l.hdr[x].heap = m.hdr[x].heap
        /\ l.hdr[x].used = m.hdr[x].used
    BY <1>7 DEF Unlists, SameBlocks
  <2>5. SameLinks(n, l, x)
    <3>1. /\ n.hdr[x].index = m1.hdr[x].index
          /\ n.hdr[x].flink = (IF x = a THEN NULL
                               ELSE IF x = m1.hdr[a].blink /\ x # NULL THEN m1.hdr[a].flink
                               ELSE m1.hdr[x].flink)
          /\ n.hdr[x].blink = (IF x = a THEN NULL
                               ELSE IF x = m1.hdr[a].flink /\ x # NULL THEN m1.hdr[a].blink
                               ELSE m1.hdr[x].blink)
      BY <1>5, <1>6 DEF Unlists
    <3>2. /\ l.hdr[x].index = m.hdr[x].index
          /\ l.hdr[x].flink = (IF x = a THEN NULL
                               ELSE IF x = m.hdr[a].blink /\ x # NULL THEN m.hdr[a].flink
                               ELSE m.hdr[x].flink)
          /\ l.hdr[x].blink = (IF x = a THEN NULL
                               ELSE IF x = m.hdr[a].flink /\ x # NULL THEN m.hdr[a].blink
                               ELSE m.hdr[x].blink)
      BY <1>7 DEF Unlists
    <3>. QED
      BY Zenon, <2>1, <2>2, <2>3, <2>4, <3>1, <3>2 DEF SameLinks
  <2>. QED
    BY <2>1, <2>3, <2>4, <2>5
<1>13. ASSUME NEW sound, Files(m, {}, sound) PROVE Files(n, {}, sound)
  <2>1. FilesBut(l, {} \cup {a}, {}, sound)
    BY <1>7, <1>13, RemoveFiles DEF Files
  <2>2. FilesBut(l, {a}, {}, sound)
    <3>1. {} \cup {a} = {a}
      OBVIOUS
    <3>. QED
      BY <2>1, <3>1
  <2>3. /\ Linked(n)
        /\ \A x \in DOMAIN l.hdr : Loose(l, x) <=> Loose(n, x)
        /\ \A F : Filed(l, F) => Filed(n, F)
    BY <1>7, <1>11, <1>12, <2>2, LinkedSame DEF FilesBut
  <2>4. FreeOf(n, sound) = FreeOf(l, sound) \ {a}
    <3>1. ASSUME NEW x PROVE x \in FreeOf(n, sound) <=> x \in FreeOf(l, sound) \ {a}
      BY <1>11, <1>12 DEF FreeOf
    <3>. QED
      BY <3>1
  <2>5. OutOfLists(n, {})
    BY <1>11, <1>12, <2>2, <2>3 DEF FilesBut, OutOfLists
  <2>6. NoneAtNull(n, sound)
    BY <1>11, <1>12, <2>2 DEF FilesBut, NoneAtNull
  <2>7. Filed(n, FreeOf(n, sound) \ {})
    <3>1. FreeOf(n, sound) \ {} = FreeOf(l, sound) \ {a}
      BY <2>4
    <3>. QED
      BY <2>2, <2>3, <3>1 DEF FilesBut
  <2>8. Classed(n, FreeOf(n, sound) \ {})
    <3>. SUFFICES ASSUME NEW x \in FreeOf(n, sound)
                  PROVE  n.hdr[x].index = HeapGetIndex(n.hdr[x].size - S)
      BY DEF Classed
    <3>1. x \in FreeOf(l, sound) \ {} /\ x \in DOMAIN m.hdr
      BY <1>11, <2>4 DEF FreeOf
    <3>2. l.hdr[x].index = HeapGetIndex(l.hdr[x].size - S)
      BY <2>2, <3>1 DEF FilesBut, Classed
    <3>3. n.hdr[x].index = l.hdr[x].index /\ n.hdr[x].size = l.hdr[x].size
      BY <1>12, <3>1 DEF SameLinks
    <3>. QED
      BY <3>2, <3>3
  <2>. QED
    BY <2>3, <2>5, <2>6, <2>7, <2>8 DEF Files, FilesBut
<1>14. AddsUsed(n, m, a, h, size)
  BY <1>11, <1>12 DEF AddsUsed, UsedOf
<1>17. Stops(n, a, "page_flink")
  <2>1. n.hdr[a].page_flink = m.hdr[a].page_flink
    <3>1. m1.hdr[a].page_flink = m.hdr[a].page_flink
      BY <1>2 DEF Marks
    <3>. QED
      BY <1>5, <1>8, <3>1 DEF SameBlocks
  <2>2. CASE m.hdr[a].page_flink # NULL
    <3>1. m.hdr[a].page_flink \in DOMAIN m.hdr
      BY <1>1, <2>2, RightOf DEF Blocks
    <3>2. m.hdr[m.hdr[a].page_flink].used
      BY <2>2 DEF NoPair
    <3>. QED
      BY <1>12, <2>1, <3>1, <3>2 DEF Stops
  <2>. QED
    BY <2>1, <2>2 DEF Stops
<1>15. Reused(n, m, h, a, size)
  BY <1>9, <1>10, <1>11, <1>12, <1>13, <1>14, <1>17 DEF Reused
<1>16. Reused(c, m, h, a, size)
  <2>1. k \in [Heaps -> [Classes -> 0..255]]
    <3>1. n.complete_pages \in [Heaps -> [Classes -> 0..255]]
      BY <1>6 DEF MemoryOK
    <3>2. (n.complete_pages[h][index] + 255) % 256 \in 0..255
      <4>1. n.complete_pages[h][index] \in 0..255
        BY ZenonT(30), <1>1, <3>1
      <4>. QED
        BY ZenonT(30), <4>1, Byte
    <3>. QED
      BY ZenonT(30), <3>1, <3>2
  <2>. HIDE DEF k
  <2>2. /\ MemoryOK(c) /\ c.hdr = n.hdr /\ c.free_blocks = n.free_blocks
        /\ c.tables = n.tables /\ c.mapped = n.mapped /\ c.status = n.status
    BY <1>6, <2>1, WithCounters
  <2>. HIDE DEF c
  <2>3. Blocks(c) /\ UnitsOf(c) = UnitsOf(n) /\ NoPair(c, {})
    BY <1>9, <2>2, SameHeaders
  <2>4. ASSUME NEW sound, Files(n, {}, sound) PROVE Files(c, {}, sound)
    BY <1>9, <2>2, <2>4, SameHeaders DEF Files
  <2>5. AddsUsed(c, m, a, h, size)
    BY <1>14, <2>2 DEF AddsUsed, UsedOf
  <2>6. Stops(c, a, "page_flink")
    BY <1>17, <2>2 DEF Stops
  <2>. QED
    BY <1>15, <2>2, <2>3, <2>4, <2>5, <2>6 DEF Reused
<1>. QED
  BY <1>4, <1>15, <1>16

\* A block that is new and in no list yet.
LEMMA NewFiles ==
  ASSUME NEW m, MemoryOK(m), NEW b, b \notin DOMAIN m.hdr, b # NULL,
         NEW r, r.free_blocks = m.free_blocks, DOMAIN r.hdr = DOMAIN m.hdr \cup {b},
         r.hdr[b].flink = NULL, r.hdr[b].blink = NULL, ~r.hdr[b].used,
         \A x \in DOMAIN m.hdr :
           /\ SameLinks(r, m, x) /\ r.hdr[x].used = m.hdr[x].used
           /\ ~m.hdr[x].used => r.hdr[x].size = m.hdr[x].size,
         NEW sound, Files(m, {}, sound)
  PROVE  Files(r, {b}, sound)
<1>1. /\ Linked(m) /\ OutOfLists(m, {}) /\ NoneAtNull(m, sound)
      /\ Filed(m, FreeOf(m, sound) \ {}) /\ Classed(m, FreeOf(m, sound) \ {})
  BY DEF Files, FilesBut
<1>2. /\ Linked(r) /\ Loose(r, b)
      /\ \A x \in DOMAIN m.hdr : Loose(m, x) => Loose(r, x)
      /\ \A F : Filed(m, F) => Filed(r, F)
  BY <1>1, LinkedWith
<1>3. FreeOf(r, sound) \ {b} = FreeOf(m, sound) \ {}
  BY DEF FreeOf, SameLinks
<1>4. OutOfLists(r, {b})
  BY <1>1, <1>2 DEF OutOfLists
<1>5. NoneAtNull(r, sound)
  BY <1>1 DEF NoneAtNull, SameLinks
<1>6. Classed(r, FreeOf(r, sound) \ {b})
  BY <1>1, <1>3 DEF Classed, SameLinks, FreeOf
<1>. QED
  BY <1>1, <1>2, <1>3, <1>4, <1>5, <1>6 DEF Files, FilesBut

\* What heap_split_header leaves.
WasSplit(r, m, a) ==
  /\ MemoryOK(r) /\ r.status \in {m.status, "undefined"} /\ r.mapped = m.mapped
  /\ r.status = "running" =>
       /\ Blocks(r) /\ UnitsOf(r) = UnitsOf(m) /\ NoPair(r, {})
       /\ UsedOf(r) = UsedOf(m)
       /\ \A x \in UsedOf(m) :
            /\ r.hdr[x].req = m.hdr[x].req /\ r.hdr[x].heap = m.hdr[x].heap
            /\ x # a => r.hdr[x].size = m.hdr[x].size
       /\ r.hdr[a].size >= m.hdr[a].req + S
       /\ \A sound : Files(m, {}, sound) => Files(r, {}, sound)

\* heap_split_header.
LEMMA SplitGood ==
  ASSUME NEW m, Blocks(m), NoPair(m, {}), NEW a \in DOMAIN m.hdr, m.hdr[a].used,
         NEW h, h = m.hdr[a].heap, Stops(m, a, "page_flink"),
         m.hdr[a].size >= m.hdr[a].req + S,
         NEW rest, rest = m.hdr[a].size - m.hdr[a].req - S,
         NEW new, new = a + S + m.hdr[a].req,
         a = NULL /\ rest >= S => new % PageSize # 0 /\ (new % PageSize) + rest <= PageSize,
         NEW r, r = HeapSplitHeader(m, h, a)
  PROVE  WasSplit(r, m, a)
<1>1. /\ a \in Nat /\ m.hdr[a].size \in Nat /\ m.hdr[a].req \in Nat /\ S = 1 /\ NULL = 0
      /\ h \in Heaps /\ MemoryOK(m) /\ m.hdr[a].page_flink \in Nat
  BY HeadersOf, Constants DEF Blocks
<1>2. rest \in Nat /\ new \in Nat /\ new # NULL /\ new # a
  BY <1>1
<1>3. CASE S > rest
  <2>1. r = m
    BY Zenon, <1>3 DEF HeapSplitHeader
  <2>. QED
    BY Zenon, <1>1, <2>1 DEF WasSplit
<1>4. CASE ~(S > rest)
  <2>. DEFINE c == Cut(m, h, a)
  <2>1. r = HeapInsertUnused(c, h, new)
    BY Zenon, <1>4 DEF HeapSplitHeader, Cut
  <2>2. rest >= S
    BY <1>1, <1>2, <1>4
  <2>3. new \notin DOMAIN m.hdr
    BY <2>2, CutPlace
  <2>4. MemoryOK(c) /\ Cuts(c, m, h, a)
    BY <1>1, <2>2, <2>3, CutFields
  <2>. HIDE DEF c
  <2>5. Blocks(c) /\ UnitsOf(c) = UnitsOf(m)
    BY <2>2, <2>4, CutTiled
  <2>6. /\ SamePages(c, m) /\ c.free_blocks = m.free_blocks
        /\ DOMAIN c.hdr = DOMAIN m.hdr \cup {new}
        /\ c.hdr[new] = Header(rest, rest - S, a, m.hdr[a].page_flink, 0, h, FALSE)
    BY <2>4 DEF Cuts
  <2>7. /\ ~c.hdr[new].used /\ c.hdr[new].heap = h
        /\ c.hdr[new].flink = NULL /\ c.hdr[new].blink = NULL
        /\ c.hdr[new].page_flink = m.hdr[a].page_flink
    BY <2>6 DEF Header
  <2>8. ASSUME NEW x \in DOMAIN m.hdr
        PROVE  /\ c.hdr[x].req = m.hdr[x].req /\ c.hdr[x].used = m.hdr[x].used
               /\ SameLinks(c, m, x) /\ c.hdr[x].heap = m.hdr[x].heap
               /\ c.hdr[x].size = IF x = a THEN S + m.hdr[a].req ELSE m.hdr[x].size
               /\ c.hdr[x].page_flink = IF x = a THEN new ELSE m.hdr[x].page_flink
    BY <2>4 DEF Cuts, SameLinks
  <2>9. NoPair(c, {})
    <3>. SUFFICES ASSUME NEW x \in DOMAIN c.hdr \ {NULL}, c.hdr[x].page_flink # NULL,
                         ~c.hdr[x].used, ~c.hdr[c.hdr[x].page_flink].used
                  PROVE  FALSE
      BY Zenon DEF NoPair
    <3>1. CASE x = new
      <4>1. m.hdr[a].page_flink # NULL
        BY <2>7, <3>1
      <4>2. m.hdr[a].page_flink \in DOMAIN m.hdr /\ m.hdr[m.hdr[a].page_flink].used
        BY <1>1, <4>1, RightOf DEF Blocks, Stops
      <4>. QED
        BY <2>7, <2>8, <3>1, <4>2
    <3>2. CASE x # new
      <4>1. x \in DOMAIN m.hdr /\ x # a
        BY <2>6, <2>8, <3>2
      <4>2. m.hdr[x].page_flink = c.hdr[x].page_flink /\ ~m.hdr[x].used
        BY <2>8, <4>1
      <4>3. m.hdr[x].page_flink \in DOMAIN m.hdr
        BY <1>1, <4>1, <4>2, RightOf DEF Blocks
      <4>4. ~m.hdr[m.hdr[x].page_flink].used
        BY Zenon, <2>8, <4>2, <4>3
      <4>. QED
        BY <4>1, <4>2, <4>4 DEF NoPair
    <3>. QED
      BY <3>1, <3>2
  <2>10. ASSUME NEW sound, Files(m, {}, sound) PROVE Files(c, {new}, sound)
    <3>1. \A x \in DOMAIN m.hdr : ~m.hdr[x].used => c.hdr[x].size = m.hdr[x].size
      BY <2>8
    <3>. QED
      BY <1>1, <1>2, <2>3, <2>6, <2>7, <2>8, <2>10, <3>1, NewFiles
  <2>11. UsedOf(c) = UsedOf(m)
    BY <2>6, <2>7, <2>8 DEF UsedOf
  <2>12. Inserted(r, c, h, new)
    BY <1>1, <2>1, <2>5, <2>6, <2>7, InsertGood
  <2>13. /\ MemoryOK(r) /\ r.status \in {m.status, "undefined"} /\ r.mapped = m.mapped
    BY <2>6, <2>12 DEF Inserted, SamePages
  <2>14. r.status = "running" =>
           /\ Blocks(r) /\ UnitsOf(r) = UnitsOf(m) /\ NoPair(r, {})
           /\ KeepsUsed(r, c, UsedOf(c))
           /\ \A sound : Files(m, {}, sound) => Files(r, {}, sound)
    BY <2>5, <2>7, <2>9, <2>10, <2>12 DEF Inserted
  <2>15. ASSUME r.status = "running"
         PROVE  /\ UsedOf(r) = UsedOf(m)
                /\ \A x \in UsedOf(m) :
                     /\ r.hdr[x].req = m.hdr[x].req /\ r.hdr[x].heap = m.hdr[x].heap
                     /\ x # a => r.hdr[x].size = m.hdr[x].size
                /\ r.hdr[a].size >= m.hdr[a].req + S
    <3>1. KeepsUsed(r, c, UsedOf(m)) /\ a \in UsedOf(m)
      BY <2>11, <2>14, <2>15 DEF UsedOf
    <3>2. \A x \in UsedOf(m) : x \in DOMAIN m.hdr
      BY DEF UsedOf
    <3>3. r.hdr[a].size = S + m.hdr[a].req
      BY <2>8, <3>1 DEF KeepsUsed
    <3>4. r.hdr[a].size >= m.hdr[a].req + S
      BY <1>1, <3>3
    <3>. QED
      BY <2>8, <3>1, <3>2, <3>4 DEF KeepsUsed
  <2>. QED
    BY Zenon, <2>13, <2>14, <2>15 DEF WasSplit
<1>. QED
  BY <1>3, <1>4

\* What is left of the pages of a request lies inside the last of them.
LEMMA LastPage ==
  ASSUME NEW x \in Nat \ {0}, NEW n, n = SizeToPages(x), NEW rest, rest = PageSize * n - x, rest >= 1
  PROVE  x % PageSize # 0 /\ (x % PageSize) + rest <= PageSize
<1>. DEFINE k == PageSize
<1>1. /\ n \in Nat /\ k * n \in Nat /\ x <= k * n /\ k * n < x + k /\ k \in Nat \ {0}
  BY PagesNeeded, Constants
<1>. HIDE DEF k
<1>2. n # 0
  BY <1>1
<1>3. n - 1 \in Nat /\ k * (n - 1) = k * n - k
  BY <1>1, <1>2
<1>4. k * (n - 1) <= x /\ x < k * (n - 1) + k
  BY <1>1, <1>3 DEF k
<1>5. x % k = x - k * (n - 1)
  BY <1>1, <1>3, <1>4, Quotient
<1>. QED
  BY <1>1, <1>3, <1>5 DEF k

\* What heap_allocate_header leaves, and which block.
NewRun(got, m, h, size) ==
  /\ MemoryOK(got.m) /\ got.m.status \in {"running", "fault", "selfmap"}
  /\ m.mapped \subseteq got.m.mapped
  /\ got.m.status = "running" =>
       /\ Blocks(got.m) /\ NoPair(got.m, {})
       /\ got.a \in DOMAIN got.m.hdr /\ got.m.hdr[got.a].used
       /\ AddsUsed(got.m, m, got.a, h, size)
       /\ Standalone(got.m, got.a)
       /\ got.a = NULL /\ got.m.hdr[got.a].size - size - S >= S =>
            /\ (size + S) % PageSize # 0
            /\ ((size + S) % PageSize) + (got.m.hdr[got.a].size - size - S) <= PageSize
       /\ \A u \in UnitsOf(got.m) :
            \/ u \in UnitsOf(m)
            \/ /\ u \div PageSize \in got.m.mapped \ m.mapped
               /\ h = "kernel" => KernelImage <= u \div PageSize
       /\ \A sound : (h = "user" /\ "user" \in sound => 0 \in m.mapped) /\ Files(m, {}, sound)
            => Files(got.m, {}, sound)

\* Pages are natural numbers.
LEMMA PagesNatural == 0 \in Pages /\ Pages \subseteq Nat
<1>1. TableSize \in Nat /\ TableSize >= 3
  BY Constants
<1>2. 3 * TableSize \in Nat /\ 3 * TableSize <= TableSize * TableSize
  BY <1>1, ProductMonotone
<1>3. TableSize * TableSize - 1 \in Nat
  BY <1>1, <1>2
<1>. QED
  BY <1>3 DEF Pages

\* The header that heap_allocate_header writes.
NewBlock(c, n, h, size) ==
  /\ c \in HeaderType /\ c.size = PageSize * n /\ c.req = size /\ c.used /\ c.heap = h
  /\ c.flink = NULL /\ c.blink = NULL /\ c.page_flink = NULL /\ c.page_blink = NULL

\* The pages it maps.
RoomAt(m, page, n, h) ==
  /\ page \in Pages
  /\ h = "kernel" => KernelImage <= page
  /\ Run(page, n) \cap m.mapped = {}
  /\ \A q \in Run(page, n) : TableOf(q) = TableOf(page)

\* Pages that are free are mapped for a block.
LEMMA NewRunGood ==
  ASSUME NEW m, Blocks(m), NoPair(m, {}), m.status = "running",
         \A u \in UnitsOf(m) : u \div PageSize \in m.mapped,
         NEW h \in Heaps, NEW size \in Nat \ {0},
         NEW n \in 1..127, n = SizeToPages(size + S),
         NEW c, NewBlock(c, n, h, size), NEW page, RoomAt(m, page, n, h),
         NEW got, got.a = PageSize * page, got.m = WithHeader(PageMapAt(m, page, n), got.a, c)
  PROVE  NewRun(got, m, h, size)
<1>. SUFFICES ASSUME NEW a, a = PageSize * page, NEW m1, m1 = PageMapAt(m, page, n),
                     NEW r, r = WithHeader(m1, a, c), got.m = r, got.a = a
              PROVE  NewRun(got, m, h, size)
  OBVIOUS
<1>2. MemoryOK(m)
  BY DEF Blocks
<1>3. n \in Nat /\ PageSize * n \in Nat /\ size + S <= PageSize * n
  <2>1. size + S \in Nat
    BY Constants
  <2>. QED
    BY <2>1, PagesNeeded
<1>4. Pages \subseteq Nat
  BY PagesNatural
<1>6. c \in HeaderType
  BY DEF NewBlock
<1>7. /\ c.size = PageSize * n /\ c.req = size /\ c.used /\ c.heap = h
      /\ c.flink = NULL /\ c.blink = NULL /\ c.page_flink = NULL /\ c.page_blink = NULL
  BY DEF NewBlock
<1>11. /\ page \in Pages /\ (h = "kernel" => KernelImage <= page)
       /\ Run(page, n) \cap m.mapped = {}
       /\ \A q \in Run(page, n) : TableOf(q) = TableOf(page)
  BY DEF RoomAt
<1>12. /\ MemoryOK(m1) /\ m1.hdr = m.hdr /\ m1.free_blocks = m.free_blocks
      /\ m.mapped \subseteq m1.mapped
  BY <1>2, <1>3, <1>11, PageMapAtKeeps
<1>13. m1.status = "running" /\ m1.mapped = m.mapped \cup Run(page, n)
  BY <1>2, <1>3, <1>11, RoomMapped
<1>14. page \in Nat /\ a \in Nat
  <2>1. page \in Nat /\ PageSize \in Nat
    BY <1>4, <1>11, Constants
  <2>. QED
    BY <2>1
<1>15. /\ MemoryOK(r) /\ SamePages(r, m1) /\ r.free_blocks = m.free_blocks
      /\ DOMAIN r.hdr = DOMAIN m.hdr \cup {a} /\ r.hdr[a] = c
      /\ \A x \in DOMAIN m.hdr \ {a} : r.hdr[x] = m.hdr[x]
  BY SMTT(30), <1>6, <1>12, <1>14, NewHeader
<1>16. r.status = "running" /\ r.mapped = m.mapped \cup Run(page, n)
  BY <1>13, <1>15 DEF SamePages
<1>17. \A u \in UnitsOf(m) : u \div PageSize \notin Run(page, n)
  BY <1>11
<1>18. /\ Blocks(r) /\ UnitsOf(r) = UnitsOf(m) \cup a..(a + PageSize * n - 1)
      /\ a \notin DOMAIN m.hdr
  <2>1. RunAdded(r, m, a, n)
    BY ZenonT(30), <1>6, <1>7, <1>11, <1>14, <1>15, <1>17, AllocTiled
  <2>. QED
    BY Zenon, <2>1 DEF RunAdded
<1>19. ASSUME NEW x \in DOMAIN m.hdr PROVE x # a /\ r.hdr[x] = m.hdr[x]
  BY <1>15, <1>18
<1>20. NoPair(r, {})
  <2>. SUFFICES ASSUME NEW x \in DOMAIN r.hdr \ {NULL}, r.hdr[x].page_flink # NULL,
                       ~r.hdr[x].used, ~r.hdr[r.hdr[x].page_flink].used
                PROVE  FALSE
    BY DEF NoPair
  <2>1. x \in DOMAIN m.hdr
    BY <1>7, <1>15
  <2>2. m.hdr[x].page_flink \in DOMAIN m.hdr /\ r.hdr[x] = m.hdr[x]
    BY <1>2, <1>19, <2>1, RightOf DEF Blocks
  <2>. QED
    BY <1>19, <2>1, <2>2 DEF NoPair
<1>21. AddsUsed(r, m, a, h, size)
  BY <1>3, <1>7, <1>15, <1>18, <1>19 DEF AddsUsed, UsedOf
<1>22. Standalone(r, a)
  BY <1>7, <1>15 DEF Standalone
<1>23. ASSUME r.hdr[a].size - size - S >= S
       PROVE  /\ (size + S) % PageSize # 0
              /\ ((size + S) % PageSize) + (r.hdr[a].size - size - S) <= PageSize
  <2>. DEFINE x == size + S
              rest == PageSize * n - x
  <2>1. x \in Nat \ {0} /\ S = 1 /\ r.hdr[a].size = PageSize * n
    BY <1>7, <1>15, Constants
  <2>2. rest = r.hdr[a].size - size - S /\ rest >= 1
    BY <1>3, <1>23, <2>1
  <2>3. n = SizeToPages(x)
    OBVIOUS
  <2>. HIDE DEF x, rest
  <2>4. x % PageSize # 0 /\ (x % PageSize) + rest <= PageSize
    <3>1. rest = PageSize * n - x
      BY DEF rest
    <3>. QED
      BY <2>1, <2>2, <2>3, <3>1, LastPage
  <2>. QED
    BY <2>2, <2>4 DEF x
<1>24. ASSUME NEW u \in UnitsOf(r)
       PROVE  \/ u \in UnitsOf(m)
              \/ /\ u \div PageSize \in r.mapped \ m.mapped
                 /\ h = "kernel" => KernelImage <= u \div PageSize
  <2>1. CASE u \in UnitsOf(m)
    BY <2>1
  <2>2. CASE u \in a..(a + PageSize * n - 1)
    <3>1. u \in Nat
      BY <1>3, <1>14, <2>2
    <3>2. u \div PageSize \in Run(page, n)
      BY <1>3, <1>14, <2>2, <3>1, UnitsOfPages
    <3>3. u \div PageSize \in r.mapped \ m.mapped
      BY <1>11, <1>16, <3>2
    <3>4. page <= u \div PageSize /\ u \div PageSize \in Int
      BY <3>2 DEF Run
    <3>5. KernelImage \in Nat
      BY Constants
    <3>6. h = "kernel" => KernelImage <= u \div PageSize
      BY <1>11, <1>14, <3>4, <3>5
    <3>. QED
      BY <3>3, <3>6
  <2>. QED
    BY <1>18, <2>1, <2>2
<1>25. ASSUME NEW sound, h = "user" /\ "user" \in sound => 0 \in m.mapped, Files(m, {}, sound)
       PROVE  Files(r, {}, sound)
  <2>1. /\ Linked(m) /\ OutOfLists(m, {}) /\ NoneAtNull(m, sound)
        /\ Filed(m, FreeOf(m, sound) \ {}) /\ Classed(m, FreeOf(m, sound) \ {})
    BY <1>25 DEF Files, FilesBut
  <2>2. \A x \in DOMAIN m.hdr : SameLinks(r, m, x)
    BY <1>19 DEF SameLinks
  <2>3. /\ Linked(r) /\ Loose(r, a)
        /\ \A x \in DOMAIN m.hdr : Loose(m, x) => Loose(r, x)
        /\ \A F : Filed(m, F) => Filed(r, F)
    BY <1>2, <1>7, <1>15, <1>18, <2>1, <2>2, LinkedWith
  <2>4. FreeOf(r, sound) = FreeOf(m, sound)
    BY <1>7, <1>15, <1>19 DEF FreeOf
  <2>5. OutOfLists(r, {})
    BY <1>15, <1>19, <2>1, <2>3 DEF OutOfLists
  <2>6. NoneAtNull(r, sound)
    <3>1. CASE NULL \in DOMAIN m.hdr
      BY <1>19, <2>1, <3>1 DEF NoneAtNull
    <3>2. CASE NULL \notin DOMAIN m.hdr /\ NULL \in DOMAIN r.hdr
      <4>1. a = NULL
        BY <1>15, <3>2
      <4>2. page = 0
        <5>1. PageSize \in Nat /\ PageSize >= 1 /\ NULL = 0
          BY Constants
        <5>. QED
          BY <1>14, <4>1, <5>1
      <4>3. 0 \notin m.mapped
        <5>1. 0 \in Run(page, n)
          BY <1>3, <4>2 DEF Run
        <5>. QED
          BY <1>11, <5>1
      <4>4. h # "kernel"
        <5>1. KernelImage \in Nat /\ KernelImage >= 1
          BY Constants
        <5>. QED
          BY <1>11, <4>2, <5>1
      <4>. QED
        BY <1>7, <1>15, <1>25, <4>1, <4>3, <4>4 DEF NoneAtNull, Heaps
    <3>. QED
      BY <3>1, <3>2 DEF NoneAtNull
  <2>7. Filed(r, FreeOf(r, sound) \ {})
    BY <2>1, <2>3, <2>4
  <2>8. Classed(r, FreeOf(r, sound) \ {})
    BY <1>19, <2>1, <2>4 DEF Classed, FreeOf
  <2>. QED
    BY <2>3, <2>5, <2>6, <2>7, <2>8 DEF Files, FilesBut
<1>26. a \in DOMAIN r.hdr /\ r.hdr[a].used
  BY <1>7, <1>15
<1>. QED
  BY <1>15, <1>16, <1>18, <1>20, <1>21, <1>22, <1>23, <1>24, <1>25, <1>26 DEF NewRun

\* Where page_get_free_addr finds room, or why it does not.
LEMMA FreeAddr ==
  ASSUME NEW m, MemoryOK(m), m.status = "running", NEW n \in 1..TableSize,
         NEW h, NEW free, free = PageGetFreeAddr(m, n, h = "kernel")
  PROVE  \/ free.m = m /\ RoomAt(m, free.page, n, h)
         \/ /\ MemoryOK(free.m) /\ free.m.mapped = m.mapped /\ free.page \in Pages
            /\ free.m.status = "selfmap"
<1>1. CASE free.m.status = "running"
  <2>1. PICK kernel \in BOOLEAN : kernel = (h = "kernel")
    OBVIOUS
  <2>2. free = PageGetFreeAddr(m, n, kernel)
    BY <2>1
  <2>3. /\ free.m = m /\ free.page \in Pages
        /\ kernel => KernelImage <= free.page
        /\ Run(free.page, n) \cap m.mapped = {}
        /\ \A page \in Run(free.page, n) : TableOf(page) = TableOf(free.page)
    BY <1>1, <2>2, RoomFound
  <2>4. h = "kernel" => KernelImage <= free.page
    BY <2>1, <2>3
  <2>. QED
    BY <2>3, <2>4 DEF RoomAt
<1>2. CASE free.m.status # "running"
  <2>1. ~(n > TableSize)
    BY Constants
  <2>2. free = [m |-> Stop(m, "selfmap"), page |-> 0]
    BY <1>2, <2>1 DEF PageGetFreeAddr
  <2>. QED
    BY <2>2, Stopped, PagesNatural
<1>. QED
  BY <1>1, <1>2

\* The header that heap_allocate_header writes, and for how many pages.
LEMMA NewBlockOK ==
  ASSUME NEW h \in Heaps, NEW size \in Nat \ {0},
         SizeToPages(size + S) <= TableSize, SizeToPages(size + S) < 128
  PROVE  LET n == SizeToPages(size + S)
             c == Header(n * PageSize, size, NULL, NULL, HeapGetIndex(n * PageSize - S), h, TRUE)
         IN n \in 1..TableSize /\ n \in 1..127 /\ n \in Nat /\ NewBlock(c, n, h, size)
<1>. DEFINE n == SizeToPages(size + S)
            c == Header(n * PageSize, size, NULL, NULL, HeapGetIndex(n * PageSize - S), h, TRUE)
<1>3. /\ n \in 1..TableSize /\ n \in 1..127 /\ n \in Nat /\ PageSize * n \in Nat
      /\ size + S <= PageSize * n /\ n * PageSize = PageSize * n
  <2>1. size + S \in Nat /\ size + S >= 2
    BY Constants
  <2>2. n \in Nat /\ PageSize * n \in Nat /\ size + S <= PageSize * n
    BY <2>1, PagesNeeded
  <2>3. n # 0
    <3>1. PageSize \in Nat
      BY Constants
    <3>. HIDE DEF n
    <3>. QED
      BY <2>1, <2>2, <3>1
  <2>4. PageSize \in Nat /\ TableSize \in Nat
    BY Constants
  <2>. HIDE DEF n
  <2>5. n <= TableSize /\ n < 128
    BY DEF n
  <2>6. n \in 1..TableSize /\ n \in 1..127
    <3>1. n \in Nat
      BY <2>2
    <3>. QED
      BY <2>3, <2>4, <2>5, <3>1
  <2>7. n * PageSize = PageSize * n
    <3>1. n \in Nat
      BY <2>2
    <3>. QED
      BY <2>4, <3>1
  <2>. QED
    BY <2>2, <2>6, <2>7
<1>5. HeapGetIndex(n * PageSize - S) \in Classes
  <2>. DEFINE d == n * PageSize - S
  <2>1. d \in Nat \ {0} /\ d <= PageSize * n
    <3>1. S = 1
      BY Constants
    <3>. HIDE DEF n
    <3>. QED
      BY <1>3, <3>1
  <2>. HIDE DEF d, n
  <2>2. SizeToPages(d) <= n
    BY <1>3, <2>1, PagesLeast
  <2>3. SizeToPages(d) \in Nat
    BY <2>1, PagesNeeded
  <2>4. SizeToPages(d) <= 127
    BY <1>3, <2>2, <2>3
  <2>. QED
    BY <2>1, <2>4, ClassOf DEF d
<1>6. NewBlock(c, n, h, size)
  <2>1. n * PageSize \in Nat \ {0} /\ n * PageSize = PageSize * n
    <3>. HIDE DEF n
    <3>. QED
      BY <1>3, Constants
  <2>. HIDE DEF n
  <2>. QED
    BY <1>5, <2>1, Constants DEF NewBlock, HeaderType, Header, NULL
<1>. QED
  BY <1>3, <1>6

\* heap_allocate_header.
LEMMA AllocateGood ==
  ASSUME NEW m, Blocks(m), NoPair(m, {}), m.status = "running",
         \A u \in UnitsOf(m) : u \div PageSize \in m.mapped,
         NEW h \in Heaps, NEW size \in Nat \ {0},
         SizeToPages(size + S) <= TableSize, SizeToPages(size + S) < 128,
         NEW got, got = HeapAllocateHeader(m, h, size)
  PROVE  NewRun(got, m, h, size)
<1>. DEFINE n == SizeToPages(size + S)
            free == PageGetFreeAddr(m, n, h = "kernel")
            c == Header(n * PageSize, size, NULL, NULL, HeapGetIndex(n * PageSize - S), h, TRUE)
<1>1. /\ got.m = WithHeader(PageMapAt(free.m, free.page, n), PageSize * free.page, c)
      /\ got.a = PageSize * free.page
  BY DEF HeapAllocateHeader
<1>2. MemoryOK(m)
  BY DEF Blocks
<1>3. n \in 1..TableSize /\ n \in 1..127 /\ n \in Nat /\ NewBlock(c, n, h, size)
  BY NewBlockOK
<1>8. n = SizeToPages(size + S)
  OBVIOUS
<1>. HIDE DEF n, c
<1>9. free = PageGetFreeAddr(m, n, h = "kernel")
  OBVIOUS
<1>. HIDE DEF free
<1>11. CASE free.m = m /\ RoomAt(m, free.page, n, h)
  <2>1. n \in 1..127 /\ NewBlock(c, n, h, size)
    BY <1>3
  <2>2. PICK page : page = free.page
    OBVIOUS
  <2>3. got.a = PageSize * page /\ got.m = WithHeader(PageMapAt(m, page, n), got.a, c)
    BY <1>1, <1>11, <2>2
  <2>. QED
    BY <1>8, <1>11, <2>1, <2>2, <2>3, NewRunGood
<1>12. CASE /\ MemoryOK(free.m) /\ free.m.mapped = m.mapped /\ free.page \in Pages
            /\ free.m.status = "selfmap"
  <2>. DEFINE m1 == PageMapAt(free.m, free.page, n)
  <2>1. MemoryOK(m1) /\ m.mapped \subseteq m1.mapped /\ m1.status \in {"fault", "selfmap"}
    <3>1. n \in Nat
      BY <1>3
    <3>. QED
      BY <1>12, <3>1, PageMapAtKeeps
  <2>2. got.a \in Nat
    <3>1. free.page \in Nat /\ PageSize \in Nat
      BY <1>12, PagesNatural, Constants
    <3>. HIDE DEF m1
    <3>. QED
      BY <1>1, <3>1
  <2>3. got.m = WithHeader(m1, got.a, c) /\ c \in HeaderType
    BY <1>1, <1>3 DEF NewBlock
  <2>. HIDE DEF m1
  <2>4. MemoryOK(got.m) /\ SamePages(got.m, m1)
    BY <2>1, <2>2, <2>3, NewHeader
  <2>. QED
    BY <2>1, <2>4 DEF NewRun, SamePages
<1>. QED
  <2>1. n \in 1..TableSize
    BY <1>3
  <2>. QED
    BY <1>2, <1>9, <1>11, <1>12, <2>1, FreeAddr

\* The units of a memory are those of an older one, or in pages mapped since.
NewUnits(r, m, h) ==
  \A u \in UnitsOf(r) :
    \/ u \in UnitsOf(m)
    \/ /\ u \div PageSize \in r.mapped \ m.mapped
       /\ h = "kernel" => KernelImage <= u \div PageSize

\* The lists are kept, but for a heap whose first block may be at NULL.
KeepsFiles(r, m, h) ==
  \A sound : (h = "user" /\ "user" \in sound => 0 \in m.mapped) /\ Files(m, {}, sound) => Files(r, {}, sound)

\* kmalloc has got a block, and will split it.
Taken(g, m, a, h, size) ==
  /\ Blocks(g) /\ NoPair(g, {}) /\ g.status = "running" /\ m.mapped \subseteq g.mapped
  /\ a \in DOMAIN g.hdr /\ g.hdr[a].used /\ AddsUsed(g, m, a, h, size)
  /\ Stops(g, a, "page_flink")
  /\ a = NULL /\ g.hdr[a].size - size - S >= S =>
       /\ (size + S) % PageSize # 0
       /\ ((size + S) % PageSize) + (g.hdr[a].size - size - S) <= PageSize
  /\ NewUnits(g, m, h) /\ KeepsFiles(g, m, h)

\* What kmalloc leaves, and which block.
Allocated(got, m, h, size) ==
  /\ MemoryOK(got.m) /\ got.m.status \in {"running", "fault", "selfmap", "undefined"}
  /\ m.mapped \subseteq got.m.mapped
  /\ got.m.status = "running" =>
       /\ Blocks(got.m) /\ NoPair(got.m, {}) /\ AddsUsed(got.m, m, got.a, h, size)
       /\ NewUnits(got.m, m, h) /\ KeepsFiles(got.m, m, h)

\* The block is split.
LEMMA TakenGood ==
  ASSUME NEW m, NEW g, NEW a, NEW h, NEW size \in Nat, Taken(g, m, a, h, size),
         NEW got, got.m = HeapSplitHeader(g, h, a), got.a = a
  PROVE  Allocated(got, m, h, size)
<1>1. /\ Blocks(g) /\ NoPair(g, {}) /\ g.status = "running" /\ m.mapped \subseteq g.mapped
      /\ a \in DOMAIN g.hdr /\ g.hdr[a].used /\ Stops(g, a, "page_flink")
      /\ NewUnits(g, m, h) /\ KeepsFiles(g, m, h)
  BY DEF Taken
<1>2. /\ a \notin UsedOf(m) /\ UsedOf(g) = UsedOf(m) \cup {a}
      /\ g.hdr[a].req = size /\ g.hdr[a].heap = h /\ g.hdr[a].size >= size + S
      /\ \A x \in UsedOf(m) :
           /\ x \in DOMAIN m.hdr /\ g.hdr[x].size = m.hdr[x].size
           /\ g.hdr[x].req = m.hdr[x].req /\ g.hdr[x].heap = m.hdr[x].heap
  BY DEF Taken, AddsUsed
<1>3. PICK rest, new, r : /\ rest = g.hdr[a].size - g.hdr[a].req - S
                          /\ new = a + S + g.hdr[a].req /\ r = got.m
  OBVIOUS
<1>4. a = NULL /\ rest >= S => new % PageSize # 0 /\ (new % PageSize) + rest <= PageSize
  <2>. SUFFICES ASSUME a = NULL, rest >= S
                PROVE  new % PageSize # 0 /\ (new % PageSize) + rest <= PageSize
    OBVIOUS
  <2>1. new = size + S /\ rest = g.hdr[a].size - size - S
    BY <1>2, <1>3, Constants
  <2>. QED
    BY <2>1 DEF Taken
<1>5. WasSplit(r, g, a)
  BY <1>1, <1>2, <1>3, <1>4, SplitGood
<1>6. MemoryOK(r) /\ r.status \in {"running", "undefined"} /\ m.mapped \subseteq r.mapped
  BY <1>1, <1>5 DEF WasSplit
<1>7. ASSUME r.status = "running"
      PROVE  /\ Blocks(r) /\ NoPair(r, {}) /\ AddsUsed(r, m, a, h, size)
             /\ NewUnits(r, m, h) /\ KeepsFiles(r, m, h)
  <2>1. Blocks(r) /\ NoPair(r, {}) /\ UnitsOf(r) = UnitsOf(g) /\ r.mapped = g.mapped
    BY <1>5, <1>7 DEF WasSplit
  <2>2. AddsUsed(r, m, a, h, size)
    <3>1. /\ UsedOf(r) = UsedOf(g)
          /\ \A x \in UsedOf(g) :
               /\ r.hdr[x].req = g.hdr[x].req /\ r.hdr[x].heap = g.hdr[x].heap
               /\ x # a => r.hdr[x].size = g.hdr[x].size
          /\ r.hdr[a].size >= g.hdr[a].req + S
      BY <1>5, <1>7 DEF WasSplit
    <3>. QED
      BY <1>2, <3>1 DEF AddsUsed
  <2>3. NewUnits(r, m, h)
    BY <1>1, <2>1 DEF NewUnits
  <2>4. KeepsFiles(r, m, h)
    <3>1. ASSUME NEW sound, h = "user" /\ "user" \in sound => 0 \in m.mapped, Files(m, {}, sound)
          PROVE  Files(r, {}, sound)
      <4>1. Files(g, {}, sound)
        BY <1>1, <3>1 DEF KeepsFiles
      <4>. QED
        BY <1>5, <1>7, <4>1 DEF WasSplit
    <3>. QED
      BY <3>1 DEF KeepsFiles
  <2>. QED
    BY <2>1, <2>2, <2>3, <2>4
<1>. QED
  BY <1>3, <1>6, <1>7 DEF Allocated

\* A size that can be asked for has a class.
LEMMA FittingClass ==
  ASSUME NEW size \in Nat \ {0}, SizeToPages(size + S) < 128
  PROVE  HeapGetIndex(size) \in Classes
<1>1. SizeToPages(size) <= 127
  <2>1. size + S \in Nat /\ size <= size + S
    BY Constants
  <2>. DEFINE n == SizeToPages(size + S)
  <2>2. n \in Nat /\ size + S <= PageSize * n /\ n <= 127 /\ PageSize * n \in Nat
    BY <2>1, PagesNeeded
  <2>. HIDE DEF n
  <2>3. size <= PageSize * n
    BY <2>1, <2>2
  <2>4. SizeToPages(size) <= n /\ SizeToPages(size) \in Nat
    BY <2>2, <2>3, PagesLeast, PagesNeeded
  <2>. QED
    BY <2>2, <2>4
<1>. QED
  BY <1>1, ClassOf

\* kmalloc and malloc.
LEMMA KmallocGood ==
  ASSUME NEW m, Blocks(m), NoPair(m, {}), m.status = "running",
         \A u \in UnitsOf(m) : u \div PageSize \in m.mapped,
         Linked(m), OutOfLists(m, {}),
         NEW h \in Heaps, NEW size \in Nat \ {0},
         SizeToPages(size + S) <= TableSize, SizeToPages(size + S) < 128,
         NEW got, got = Kmalloc(m, h, size)
  PROVE  Allocated(got, m, h, size)
<1>. DEFINE index == HeapGetIndex(size)
            list == FreeList(m, h, index)
            fitting == {i \in 1..Len(list) : Fits(m, list[i], size)}
            new == HeapAllocateHeader(m, h, size)
            a == list[Min(fitting)]
            old == [m |-> Reuse(m, h, a, size), a |-> a]
            take == IF fitting = {} THEN new ELSE old
<1>1. got = IF take.m.status # "running" THEN take
            ELSE [take EXCEPT !.m = HeapSplitHeader(take.m, h, take.a)]
  BY DEF Kmalloc
<1>2. index \in Classes
  BY FittingClass
<1>. HIDE DEF index
<1>3. /\ list \in Seq(DOMAIN m.hdr) /\ Len(list) \in Nat
      /\ \A i \in 1..Len(list) :
           /\ list[i] \in DOMAIN m.hdr /\ list[i] # NULL /\ ~m.hdr[list[i]].used
           /\ m.hdr[list[i]].heap = h
  BY <1>2, FreeListUnused DEF Blocks
<1>. HIDE DEF list
<1>4. CASE fitting = {}
  <2>1. take = new
    BY <1>4
  <2>. HIDE DEF take
  <2>2. NewRun(new, m, h, size)
    BY AllocateGood
  <2>3. CASE new.m.status # "running"
    <3>1. got = new
      BY <1>1, <2>1, <2>3
    <3>. HIDE DEF new
    <3>. QED
      BY <2>2, <2>3, <3>1 DEF NewRun, Allocated
  <2>4. CASE new.m.status = "running"
    <3>. HIDE DEF fitting, a, old
    <3>1. new = [m |-> new.m, a |-> new.a]
      BY DEF HeapAllocateHeader
    <3>2. got = [new EXCEPT !.m = HeapSplitHeader(new.m, h, new.a)]
      BY <1>1, <2>1, <2>4
    <3>. HIDE DEF new
    <3>3. got.m = HeapSplitHeader(new.m, h, new.a) /\ got.a = new.a
      BY <3>1, <3>2
    <3>4. Taken(new.m, m, new.a, h, size)
      <4>1. Stops(new.m, new.a, "page_flink")
        BY <2>2, <2>4 DEF NewRun, Standalone, Stops
      <4>2. NewUnits(new.m, m, h) /\ KeepsFiles(new.m, m, h)
        BY <2>2, <2>4 DEF NewRun, NewUnits, KeepsFiles
      <4>. QED
        BY <2>2, <2>4, <4>1, <4>2 DEF NewRun, Taken
    <3>. QED
      BY <3>3, <3>4, TakenGood
  <2>. QED
    BY <2>3, <2>4
<1>5. CASE fitting # {}
  <2>1. take = old
    BY <1>5
  <2>2. Min(fitting) \in fitting
    <3>1. fitting \subseteq Nat
      BY SMTT(30)
    <3>. HIDE DEF fitting
    <3>. QED
      BY <1>5, <3>1, MinOf
  <2>3. /\ a \in DOMAIN m.hdr /\ a # NULL /\ ~m.hdr[a].used /\ h = m.hdr[a].heap
        /\ m.hdr[a].size - S >= size
    BY Zenon, <1>3, <2>2 DEF Fits
  <2>. HIDE DEF take, a, fitting
  <2>4. m.hdr[a].size >= size + S
    BY <2>3, HeadersOf, Constants DEF Blocks
  <2>. DEFINE g == Reuse(m, h, a, size)
  <2>5. Reused(g, m, h, a, size)
    BY <2>3, <2>4, ReuseGood
  <2>6. old = [m |-> g, a |-> a]
    OBVIOUS
  <2>. HIDE DEF g, old
  <2>7. g.status = "running"
    BY <2>5 DEF Reused
  <2>8. got = [old EXCEPT !.m = HeapSplitHeader(g, h, a)]
    BY <1>1, <2>1, <2>6, <2>7
  <2>9. got.m = HeapSplitHeader(g, h, a) /\ got.a = a
    BY <2>6, <2>8
  <2>10. Taken(g, m, a, h, size)
    <3>1. NewUnits(g, m, h) /\ KeepsFiles(g, m, h)
      BY <2>5 DEF Reused, NewUnits, KeepsFiles
    <3>. QED
      BY <2>3, <2>5, <2>7, <3>1 DEF Reused, Taken
  <2>. QED
    BY <2>9, <2>10, TakenGood
<1>. QED
  BY <1>4, <1>5

-----------------------------------------------------------------------------
(* The calls as the machine sees them. *)

\* The pages of a block are those of its units.
LEMMA PagesOfBlock ==
  ASSUME NEW m, MemoryOK(m), NEW a \in DOMAIN m.hdr, NEW page
  PROVE  page \in BlockPages(m, a)
           <=> \E u \in a..(a + m.hdr[a].size - 1) : u \div PageSize = page
<1>. DEFINE last == a + m.hdr[a].size - 1
<1>1. a \in Nat /\ last \in Nat /\ a <= last
  <2>1. a \in Nat /\ m.hdr[a].size \in Nat \ {0}
    BY HeadersOf
  <2>. QED
    BY <2>1
<1>2. BlockPages(m, a) = (a \div PageSize)..(last \div PageSize)
  BY DEF BlockPages
<1>. HIDE DEF last
<1>3. PageSize \in Nat \ {0}
  BY Constants
<1>4. a \div PageSize \in Nat /\ last \div PageSize \in Nat
  BY <1>1, <1>3, Division
<1>5. ASSUME NEW u \in a..last
      PROVE  u \div PageSize \in BlockPages(m, a)
  <2>1. u \in Nat /\ a <= u /\ u <= last
    BY <1>1
  <2>2. a \div PageSize <= u \div PageSize /\ u \div PageSize <= last \div PageSize
    BY <1>1, <1>3, <2>1, QuotientMonotone
  <2>3. u \div PageSize \in Nat
    BY <1>3, <2>1, Division
  <2>. QED
    BY <1>2, <1>4, <2>2, <2>3
<1>6. ASSUME page \in BlockPages(m, a)
      PROVE  \E u \in a..last : u \div PageSize = page
  <2>1. page \in Nat /\ a \div PageSize <= page /\ page <= last \div PageSize
    BY <1>2, <1>4, <1>6
  <2>2. CASE page = a \div PageSize
    <3>1. a \in a..last
      BY <1>1
    <3>. QED
      BY <2>2, <3>1
  <2>3. CASE page # a \div PageSize
    <3>. DEFINE u == PageSize * page
    <3>1. u \in Nat /\ u \div PageSize = page
      <4>1. u \in Nat
        BY <1>3, <2>1
      <4>2. u < u + PageSize
        BY <1>3, <4>1
      <4>. QED
        BY <1>3, <2>1, <4>1, <4>2, Quotient
    <3>2. u <= last
      <4>1. PageSize * page <= PageSize * (last \div PageSize)
        BY <1>3, <1>4, <2>1, ProductMonotone
      <4>2. PageSize * (last \div PageSize) <= last /\ PageSize * (last \div PageSize) \in Nat
        BY <1>1, <1>3, Division
      <4>. HIDE DEF u
      <4>3. u <= PageSize * (last \div PageSize)
        BY <4>1 DEF u
      <4>. QED
        BY <1>1, <3>1, <4>2, <4>3
    <3>. HIDE DEF u
    <3>3. a <= u
      <4>1. CASE u < a
        <5>1. u \div PageSize <= a \div PageSize
          BY <1>1, <1>3, <3>1, <4>1, QuotientMonotone
        <5>. QED
          BY <1>4, <2>1, <2>3, <3>1, <5>1
      <4>. QED
        BY <1>1, <3>1, <4>1
    <3>4. u \in a..last
      BY <1>1, <3>1, <3>2, <3>3
    <3>. QED
      BY <3>1, <3>4
  <2>. QED
    BY <2>2, <2>3
<1>. QED
  BY <1>5, <1>6 DEF last

\* The lists of fewer heaps.
LEMMA FewerFiles ==
  ASSUME NEW m, NEW sound, NEW some, some \subseteq sound, Files(m, {}, sound)
  PROVE  Files(m, {}, some)
<1>1. /\ Linked(m) /\ OutOfLists(m, {}) /\ NoneAtNull(m, sound)
      /\ Filed(m, FreeOf(m, sound) \ {}) /\ Classed(m, FreeOf(m, sound) \ {})
  BY DEF Files, FilesBut
<1>2. FreeOf(m, some) \subseteq FreeOf(m, sound)
  BY DEF FreeOf
<1>3. Filed(m, FreeOf(m, some) \ {})
  <2>1. PICK rank \in [DOMAIN m.hdr -> Nat] : FiledAs(m, FreeOf(m, sound) \ {}, rank)
    BY <1>1 DEF Filed
  <2>2. FiledAs(m, FreeOf(m, some) \ {}, rank)
    BY <1>2, <2>1 DEF FiledAs
  <2>. QED
    BY <2>1, <2>2 DEF Filed
<1>4. NoneAtNull(m, some) /\ Classed(m, FreeOf(m, some) \ {})
  BY <1>1, <1>2 DEF NoneAtNull, Classed
<1>. QED
  BY <1>1, <1>3, <1>4 DEF Files, FilesBut

\* A memory between two calls: P are the pages of the program and the kernel, and the
\* lists of the heaps of sound mean something.
AtRest(m, P, sound) ==
  /\ Blocks(m) /\ NoPair(m, {}) /\ Files(m, {}, sound)
  /\ P \subseteq m.mapped
  /\ \A u \in UnitsOf(m) : u \div PageSize \in m.mapped \ P

\* The blocks in use are those that programs hold.
HeldIs(m, f) ==
  /\ DOMAIN f = UsedOf(m)
  /\ \A a \in UsedOf(m) :
       f[a] \in Nat \ {0} /\ m.hdr[a].req = f[a] /\ m.hdr[a].size >= f[a] + S

\* The blocks lie above the programs.
AboveAll(m) == \A u \in UnitsOf(m) : KernelImage <= u \div PageSize

\* One table that is gone had all the pages that are not mapped any more, of those of
\* P and of the blocks.
LostTable(m, P) ==
  \E d \in (0..SelfMap) \ m.tables : \A q \in (PagesOf(m) \cup P) \ m.mapped : TableOf(q) = d

\* The counter that free asks, of the heap and of the class that a block had.
CounterFull(r, m, h, a) ==
  r.complete_pages[h][HeapGetIndex(m.hdr[a].size - S)] = MaxComplete

\* What a call leaves when it returns: the pages of the blocks and those of P are
\* mapped, or a block of gone has been freed while its counter was at MAX_COMPLETE, and
\* a table with it.
Returned(r, m, P, sound, h, gone) ==
  /\ MemoryOK(r) /\ r.status \in {"running", "fault", "selfmap", "undefined", "mixed"}
  /\ r.status = "running" =>
       /\ Blocks(r) /\ NoPair(r, {}) /\ Files(r, {}, sound)
       /\ \/ P \subseteq r.mapped /\ \A u \in UnitsOf(r) : u \div PageSize \in r.mapped
          \/ LostTable(r, P) /\ \E a \in gone : CounterFull(r, m, h, a)
       /\ \A u \in UnitsOf(r) : u \div PageSize \notin P
       /\ h = "kernel" /\ AboveAll(m) => AboveAll(r)

\* What programs hold once they hold a block more, and those of gone no longer.
Holds(f, a, size, gone) ==
  [x \in {a} \cup (DOMAIN f \ gone) |-> IF x = a THEN size ELSE f[x]]

\* The blocks in use after a call that got one.
Holding(got, f, size, gone) ==
  HeldIs(got.m, Holds(f, got.a, size, gone))

\* A block more in use.
LEMMA HoldOne ==
  ASSUME NEW m, NEW f, HeldIs(m, f), NEW r, NEW a, NEW h, NEW size \in Nat \ {0},
         AddsUsed(r, m, a, h, size)
  PROVE  HeldIs(r, Holds(f, a, size, {}))
<1>. DEFINE g == Holds(f, a, size, {})
<1>1. DOMAIN f = UsedOf(m)
  BY DEF HeldIs
<1>2. a \notin UsedOf(m) /\ UsedOf(r) = UsedOf(m) \cup {a}
  BY DEF AddsUsed
<1>3. DOMAIN g = UsedOf(m) \cup {a} /\ g[a] = size /\ \A x \in UsedOf(m) : g[x] = f[x]
  BY <1>1, <1>2 DEF Holds
<1>. HIDE DEF g
<1>4. r.hdr[a].req = size /\ r.hdr[a].size >= size + S
  BY DEF AddsUsed
<1>5. \A x \in UsedOf(m) : r.hdr[x].size = m.hdr[x].size /\ r.hdr[x].req = m.hdr[x].req
  BY DEF AddsUsed
<1>6. \A x \in UsedOf(m) :
        f[x] \in Nat \ {0} /\ m.hdr[x].req = f[x] /\ m.hdr[x].size >= f[x] + S
  BY DEF HeldIs
<1>7. HeldIs(r, g)
  <2>1. ASSUME NEW x \in UsedOf(r)
        PROVE  g[x] \in Nat \ {0} /\ r.hdr[x].req = g[x] /\ r.hdr[x].size >= g[x] + S
    <3>1. CASE x = a
      BY <1>3, <1>4, <3>1
    <3>2. CASE x \in UsedOf(m)
      BY <1>3, <1>5, <1>6, <3>2
    <3>. QED
      BY <1>2, <2>1, <3>1, <3>2
  <2>. QED
    BY <1>2, <1>3, <2>1 DEF HeldIs
<1>. QED
  BY <1>7 DEF g

\* A block less in use.
LEMMA HoldNot ==
  ASSUME NEW m, NEW f, HeldIs(m, f), NEW r, NEW a \in DOMAIN f, KeepsUsed(r, m, UsedOf(m) \ {a})
  PROVE  HeldIs(r, [x \in DOMAIN f \ {a} |-> f[x]])
BY DEF HeldIs, KeepsUsed

\* kmalloc and malloc return.
LEMMA KmallocReturns ==
  ASSUME NEW m, NEW P, NEW sound, AtRest(m, P, sound), m.status = "running",
         NEW h \in Heaps, h = "user" /\ "user" \in sound => 0 \in P,
         NEW size \in Sizes, NEW got, got = Kmalloc(m, h, size)
  PROVE  /\ Allocated(got, m, h, size) /\ Returned(got.m, m, P, sound, h, {})
         /\ got.m.status = "running" => AtRest(got.m, P, sound)
<1>1. /\ Blocks(m) /\ NoPair(m, {}) /\ Files(m, {}, sound)
      /\ P \subseteq m.mapped
      /\ \A u \in UnitsOf(m) : u \div PageSize \in m.mapped \ P
  BY DEF AtRest
<1>2. Linked(m) /\ OutOfLists(m, {})
  BY <1>1 DEF Files, FilesBut
<1>3. /\ size \in Nat \ {0} /\ SizeToPages(size + S) <= TableSize
      /\ SizeToPages(size + S) < 128
  BY HeapAssumption
<1>4. Allocated(got, m, h, size)
  <2>1. \A u \in UnitsOf(m) : u \div PageSize \in m.mapped
    BY <1>1
  <2>. QED
    BY <1>1, <1>2, <1>3, <2>1, KmallocGood
<1>5. CASE got.m.status # "running"
  BY <1>4, <1>5 DEF Allocated, Returned
<1>6. CASE got.m.status = "running"
  <2>1. /\ MemoryOK(got.m) /\ m.mapped \subseteq got.m.mapped
        /\ Blocks(got.m) /\ NoPair(got.m, {})
        /\ NewUnits(got.m, m, h) /\ KeepsFiles(got.m, m, h)
    BY <1>4, <1>6 DEF Allocated
  <2>2. Files(got.m, {}, sound)
    <3>1. h = "user" /\ "user" \in sound => 0 \in m.mapped
      BY <1>1
    <3>. QED
      BY <1>1, <2>1, <3>1 DEF KeepsFiles
  <2>3. \A u \in UnitsOf(got.m) : u \div PageSize \in got.m.mapped \ P
    BY <1>1, <2>1 DEF NewUnits
  <2>4. h = "kernel" /\ AboveAll(m) => AboveAll(got.m)
    BY <2>1 DEF NewUnits, AboveAll
  <2>5. P \subseteq got.m.mapped
    BY <1>1, <2>1
  <2>. QED
    BY <1>4, <1>6, <2>1, <2>2, <2>3, <2>4, <2>5 DEF Returned, AtRest
<1>. QED
  BY <1>5, <1>6

\* What is lost with one table.
LEMMA LostWithTable ==
  ASSUME NEW m, MemoryOK(m), NEW P, P \subseteq m.mapped,
         \A u \in UnitsOf(m) : u \div PageSize \in m.mapped \ P,
         NEW r, UnitsOf(r) \subseteq UnitsOf(m), OneTable(r, m),
         ~(P \subseteq r.mapped /\ \A u \in UnitsOf(r) : u \div PageSize \in r.mapped)
  PROVE  LostTable(r, P)
<1>1. /\ PagesOf(m) \subseteq m.mapped \ P /\ PagesOf(r) \subseteq PagesOf(m)
      /\ P \subseteq r.mapped => \E q \in PagesOf(r) : q \notin r.mapped
  BY DEF PagesOf
<1>2. PICK lost \in (PagesOf(r) \cup P) \ r.mapped : TRUE
  BY <1>1
<1>3. PICK d : \A q \in m.mapped \ r.mapped :
                 (TableOf(q) = d /\ d \notin r.tables) \/ q \in PagesOf(m) \ PagesOf(r)
  BY DEF OneTable
<1>4. \A q \in (PagesOf(r) \cup P) \ r.mapped :
        q \in m.mapped /\ TableOf(q) = d /\ d \notin r.tables
  BY <1>1, <1>3
<1>5. d \in 0..SelfMap
  BY <1>2, <1>4 DEF MemoryOK, PagesOK
<1>. QED
  BY <1>2, <1>4, <1>5 DEF LostTable

\* free returns, for a block of its heap.
LEMMA FreeReturns ==
  ASSUME NEW m, NEW P, NEW sound, AtRest(m, P, sound), m.status = "running",
         NEW f, HeldIs(m, f), NEW a \in DOMAIN f,
         NEW h \in Heaps, m.hdr[a].heap = h,
         NEW r, r = Free(m, h, a)
  PROVE  /\ Returned(r, m, P, sound, h, {a})
         /\ r.status = "running" => HeldIs(r, [x \in DOMAIN f \ {a} |-> f[x]])
<1>1. /\ Blocks(m) /\ NoPair(m, {}) /\ Files(m, {}, sound)
      /\ P \subseteq m.mapped
      /\ \A u \in UnitsOf(m) : u \div PageSize \in m.mapped \ P
  BY DEF AtRest
<1>2. a \in DOMAIN m.hdr /\ m.hdr[a].used /\ m.hdr[a].size > S
  <2>1. a \in UsedOf(m) /\ f[a] \in Nat \ {0} /\ m.hdr[a].size >= f[a] + S
    BY DEF HeldIs
  <2>2. a \in DOMAIN m.hdr /\ m.hdr[a].used
    BY <2>1 DEF UsedOf
  <2>3. m.hdr[a].size \in Nat
    BY <1>1, <2>2, HeadersOf DEF Blocks
  <2>. QED
    BY <2>1, <2>2, <2>3, Constants
<1>3. Freed(r, m, h, a)
  BY <1>1, <1>2, FreeGood
<1>4. CASE r.status # "running"
  BY <1>3, <1>4 DEF Freed, Returned
<1>5. CASE r.status = "running"
  <2>1. /\ MemoryOK(r) /\ Blocks(r) /\ UnitsOf(r) \subseteq UnitsOf(m) /\ NoPair(r, {})
        /\ KeepsUsed(r, m, UsedOf(m) \ {a})
        /\ Files(r, {}, sound)
        /\ r.mapped # m.mapped => CounterFull(r, m, h, a)
        /\ OneTable(r, m)
    BY <1>1, <1>3, <1>5 DEF Freed, CounterFull
  <2>2. HeldIs(r, [x \in DOMAIN f \ {a} |-> f[x]])
    BY <2>1, HoldNot
  <2>3. AboveAll(m) => AboveAll(r)
    BY <2>1 DEF AboveAll
  <2>4. \A u \in UnitsOf(r) : u \div PageSize \notin P
    BY <1>1, <2>1
  <2>5. ASSUME ~(P \subseteq r.mapped /\ \A u \in UnitsOf(r) : u \div PageSize \in r.mapped)
        PROVE  LostTable(r, P) /\ \E x \in {a} : CounterFull(r, m, h, x)
    <3>1. r.mapped # m.mapped
      BY <1>1, <2>1, <2>5
    <3>2. CounterFull(r, m, h, a)
      BY <2>1, <3>1
    <3>3. MemoryOK(m)
      BY <1>1 DEF Blocks
    <3>4. LostTable(r, P)
      BY <1>1, <2>1, <2>5, <3>3, LostWithTable
    <3>. QED
      BY <3>2, <3>4
  <2>. QED
    BY <1>5, <2>1, <2>2, <2>3, <2>4, <2>5 DEF Returned
<1>. QED
  BY <1>4, <1>5

\* What kmalloc returns is a memory and a block.
LEMMA KmallocPair ==
  ASSUME NEW m, NEW h, NEW size
  PROVE  Kmalloc(m, h, size) = [m |-> Kmalloc(m, h, size).m, a |-> Kmalloc(m, h, size).a]
<1>. DEFINE list == FreeList(m, h, HeapGetIndex(size))
            fitting == {i \in 1..Len(list) : Fits(m, list[i], size)}
            b == list[Min(fitting)]
            new == HeapAllocateHeader(m, h, size)
            old == [m |-> Reuse(m, h, b, size), a |-> b]
            take == IF fitting = {} THEN new ELSE old
            got == Kmalloc(m, h, size)
<1>1. got = IF take.m.status # "running" THEN take
            ELSE [take EXCEPT !.m = HeapSplitHeader(take.m, h, take.a)]
  BY DEF Kmalloc
<1>2. new = [m |-> new.m, a |-> new.a]
  BY DEF HeapAllocateHeader
<1>. HIDE DEF new, got
<1>3. take = [m |-> take.m, a |-> take.a]
  <2>1. old = [m |-> old.m, a |-> old.a]
    OBVIOUS
  <2>. HIDE DEF old, fitting
  <2>. QED
    BY <1>2, <2>1
<1>. HIDE DEF take
<1>4. got = [m |-> got.m, a |-> got.a]
  BY <1>1, <1>3
<1>. QED
  BY <1>4 DEF got

\* krealloc and realloc return.
LEMMA KreallocReturns ==
  ASSUME NEW m, NEW P, NEW sound, AtRest(m, P, sound), m.status = "running",
         NEW f, HeldIs(m, f), NEW a \in DOMAIN f,
         NEW h \in Heaps, m.hdr[a].heap = h, h = "user" /\ "user" \in sound => 0 \in P,
         NEW size \in Sizes, NEW got, got = Krealloc(m, h, a, size)
  PROVE  /\ \/ Returned(got.m, m, P, sound, h, {})
            \/ got.a # a /\ Returned(got.m, m, P, sound, h, {a})
         /\ got.m.status = "running" => Holding(got, f, size, {a})
<1>. DEFINE new == Kmalloc(m, h, size)
            freed == Free(new.m, "kernel", a)
<1>1. DOMAIN f = UsedOf(m) /\ a \in UsedOf(m) /\ f[a] \in Nat \ {0}
      /\ m.hdr[a].req = f[a] /\ m.hdr[a].size >= f[a] + S
  BY DEF HeldIs
<1>2. CASE m.hdr[a].req = size
  <2>1. got.m = m /\ got.a = a
    BY <1>2 DEF Krealloc
  <2>2. Returned(m, m, P, sound, h, {})
    BY DEF AtRest, Returned, Blocks
  <2>3. Holds(f, a, size, {a}) = [x \in DOMAIN f |-> f[x]]
    BY <1>1, <1>2 DEF Holds
  <2>4. HeldIs(m, [x \in DOMAIN f |-> f[x]])
    BY DEF HeldIs
  <2>. QED
    BY <2>1, <2>2, <2>3, <2>4 DEF Holding
<1>3. CASE m.hdr[a].req # size
  <2>1. /\ Allocated(new, m, h, size) /\ Returned(new.m, m, P, sound, h, {})
        /\ new.m.status = "running" => AtRest(new.m, P, sound)
    BY KmallocReturns
  <2>2. got = IF new.m.status # "running" THEN new
              ELSE IF h = "kernel" THEN [new EXCEPT !.m = freed]
              ELSE [new EXCEPT !.m = Stop(freed, "mixed")]
    BY <1>3 DEF Krealloc
  <2>3. new = [m |-> new.m, a |-> new.a]
    BY KmallocPair
  <2>. HIDE DEF new
  <2>4. CASE new.m.status # "running"
    <3>1. got.m = new.m /\ got.m.status # "running"
      BY <2>2, <2>4
    <3>. QED
      BY <2>1, <3>1
  <2>5. CASE new.m.status = "running"
    <3>1. /\ Blocks(new.m) /\ NoPair(new.m, {}) /\ AddsUsed(new.m, m, new.a, h, size)
      BY <2>1, <2>5 DEF Allocated
    <3>. DEFINE g == Holds(f, new.a, size, {})
    <3>2. HeldIs(new.m, g)
      BY <3>1, HoldOne, HeapAssumption
    <3>3. new.a # a /\ new.m.hdr[a].heap = h
      BY <1>1, <3>1 DEF AddsUsed
    <3>4. DOMAIN g = DOMAIN f \cup {new.a}
      BY DEF Holds
    <3>5. [x \in DOMAIN g \ {a} |-> g[x]] = Holds(f, new.a, size, {a})
      BY <1>1, <3>1, <3>3 DEF Holds, AddsUsed
    <3>. HIDE DEF g
    <3>6. CASE h = "kernel"
      <4>1. got.m = freed /\ got.a = new.a
        BY <2>2, <2>3, <2>5, <3>6
      <4>. HIDE DEF freed
      <4>2. /\ Returned(freed, new.m, P, sound, h, {a})
            /\ freed.status = "running" => HeldIs(freed, [x \in DOMAIN g \ {a} |-> g[x]])
        <5>1. freed = Free(new.m, h, a)
          BY <3>6 DEF freed
        <5>2. AtRest(new.m, P, sound)
          BY <2>1, <2>5
        <5>3. a \in DOMAIN g
          BY <3>4
        <5>. QED
          BY <2>5, <3>2, <3>3, <5>1, <5>2, <5>3, FreeReturns
      <4>3. Returned(got.m, m, P, sound, h, {a})
        <5>1. new.m.hdr[a].size = m.hdr[a].size
          BY <1>1, <3>1 DEF AddsUsed
        <5>2. CounterFull(freed, new.m, h, a) => CounterFull(freed, m, h, a)
          BY <5>1 DEF CounterFull
        <5>3. h = "kernel" /\ AboveAll(m) => AboveAll(new.m)
          BY <2>1, <2>5 DEF Returned
        <5>. QED
          BY <2>5, <4>1, <4>2, <5>2, <5>3 DEF Returned
      <4>. QED
        BY <3>3, <3>5, <4>1, <4>2, <4>3 DEF Holding
    <3>7. CASE h # "kernel"
      <4>1. got.m = Stop(freed, "mixed")
        BY <2>2, <2>3, <2>5, <3>7
      <4>. HIDE DEF freed
      <4>2. Freed(freed, new.m, "kernel", a)
        <5>1. a \in UsedOf(new.m) /\ new.m.hdr[a].size = m.hdr[a].size
          BY <1>1, <3>1 DEF AddsUsed
        <5>2. a \in DOMAIN new.m.hdr /\ new.m.hdr[a].used
          BY <5>1 DEF UsedOf
        <5>3. new.m.hdr[a].size \in Nat
          BY <3>1, <5>2, HeadersOf DEF Blocks
        <5>4. new.m.hdr[a].size > S
          BY <1>1, <5>1, <5>3, Constants
        <5>5. "kernel" \in Heaps
          BY DEF Heaps
        <5>. QED
          BY <3>1, <5>2, <5>4, <5>5, FreeGood DEF freed
      <4>3. MemoryOK(freed) /\ freed.status \in {"running", "undefined", "fault"}
        BY <2>5, <4>2 DEF Freed
      <4>4. MemoryOK(got.m) /\ got.m.status \in {"mixed", "undefined", "fault"}
        BY <4>1, <4>3, Stopped
      <4>5. Returned(got.m, m, P, sound, h, {})
        BY <4>4 DEF Returned
      <4>. QED
        BY <4>4, <4>5
    <3>. QED
      BY <3>6, <3>7
  <2>. QED
    BY <2>4, <2>5
<1>. QED
  BY <1>2, <1>3

-----------------------------------------------------------------------------
(* The inductive invariant. *)

\* The pages of the program and of the kernel.
Own == LoadedPages \cup {KernelImage}

\* The heaps whose lists are in order: until the program runs, both.
Ordered == IF loaded < Len(image) THEN Heaps ELSE {h \in Heaps : Sound(h)}

Statuses == {"running", "fault", "selfmap", "undefined", "mixed", "lost"}

HeapInvariant ==
  /\ MemoryOK(memory) /\ memory.status \in Statuses
  /\ image \in Images /\ loaded \in 0..Len(image)
  /\ IsFiniteSet(DOMAIN held) /\ Cardinality(DOMAIN held) <= MaxHeld
  /\ Running => AtRest(memory, Own, Ordered) /\ HeldIs(memory, held)
  /\ Running /\ loaded < Len(image) => AboveAll(memory)

\* A machine that is lost has lost a table, in the free of a block of gone that found its
\* counter at MAX_COMPLETE.
LostFor(s, m, h, gone) ==
  s.status = "lost" => LostTable(s, Own) /\ \E a \in gone : CounterFull(s, m, h, a)

\* The pages in use.
LEMMA InUseIs ==
  ASSUME NEW m, MemoryOK(m)
  PROVE  InUse(m) = PagesOf(m) \cup Own
<1>1. ASSUME NEW page
      PROVE  page \in InUse(m) <=> page \in Own \/ \E u \in UnitsOf(m) : u \div PageSize = page
  <2>1. \A a \in DOMAIN m.hdr : page \in BlockPages(m, a)
           <=> \E u \in a..(a + m.hdr[a].size - 1) : u \div PageSize = page
    BY PagesOfBlock
  <2>2. (\E u \in UnitsOf(m) : u \div PageSize = page)
          <=> \E a \in DOMAIN m.hdr : \E u \in a..(a + m.hdr[a].size - 1) : u \div PageSize = page
    BY UnitOf
  <2>3. page \in InUse(m) <=> page \in Own \/ \E a \in DOMAIN m.hdr : page \in BlockPages(m, a)
    BY DEF InUse, Own
  <2>. QED
    BY <2>1, <2>2, <2>3
<1>2. ASSUME NEW page
      PROVE  page \in PagesOf(m) <=> \E u \in UnitsOf(m) : u \div PageSize = page
  BY DEF PagesOf
<1>. QED
  BY <1>1, <1>2

\* What Settled makes of a call's result.
LEMMA SettledReturns ==
  ASSUME NEW r, NEW m, NEW sound, NEW h \in Heaps, NEW gone,
         Returned(r, m, Own, sound, h, gone), NEW s, s = Settled(r)
  PROVE  /\ MemoryOK(s) /\ s.status \in Statuses
         /\ LostFor(s, m, h, gone) /\ (s.status = "lost" => r.status = "running")
         /\ s.status = "running" =>
              /\ s = r /\ AtRest(r, Own, sound)
              /\ h = "kernel" /\ AboveAll(m) => AboveAll(r)
<1>1. MemoryOK(r) /\ r.status \in Statuses \ {"lost"}
  BY DEF Returned, Statuses
<1>2. s = IF InUse(r) \subseteq r.mapped THEN r ELSE Stop(r, "lost")
  BY DEF Settled
<1>3. InUse(r) \subseteq r.mapped
        <=> Own \subseteq r.mapped /\ \A u \in UnitsOf(r) : u \div PageSize \in r.mapped
  <2>1. InUse(r) = PagesOf(r) \cup Own
    BY <1>1, InUseIs
  <2>2. PagesOf(r) \subseteq r.mapped <=> \A u \in UnitsOf(r) : u \div PageSize \in r.mapped
    BY DEF PagesOf
  <2>. QED
    BY <2>1, <2>2
<1>4. CASE r.status # "running"
  <2>1. s = r
    BY <1>2, <1>4 DEF Stop
  <2>. QED
    BY <1>1, <1>4, <2>1 DEF LostFor
<1>5. CASE r.status = "running" /\ InUse(r) \subseteq r.mapped
  <2>1. s = r
    BY <1>2, <1>5
  <2>2. /\ Blocks(r) /\ NoPair(r, {}) /\ Files(r, {}, sound)
        /\ \A u \in UnitsOf(r) : u \div PageSize \notin Own
        /\ h = "kernel" /\ AboveAll(m) => AboveAll(r)
    BY <1>5 DEF Returned
  <2>3. AtRest(r, Own, sound)
    BY <1>3, <1>5, <2>2 DEF AtRest
  <2>. QED
    BY <1>1, <1>5, <2>1, <2>2, <2>3 DEF LostFor
<1>6. CASE r.status = "running" /\ ~(InUse(r) \subseteq r.mapped)
  <2>1. s = Stop(r, "lost")
    BY <1>2, <1>6
  <2>2. /\ MemoryOK(s) /\ s.status = "lost" /\ s.complete_pages = r.complete_pages
        /\ s.hdr = r.hdr /\ s.tables = r.tables /\ s.mapped = r.mapped
    BY <1>1, <1>6, <2>1, Stopped
  <2>3. LostTable(r, Own) /\ \E a \in gone : CounterFull(r, m, h, a)
    BY <1>3, <1>6 DEF Returned
  <2>4. PagesOf(s) = PagesOf(r)
    BY <2>2 DEF PagesOf, UnitsOf
  <2>5. LostTable(s, Own) /\ \E a \in gone : CounterFull(s, m, h, a)
    BY <2>2, <2>3, <2>4 DEF LostTable, CounterFull
  <2>. QED
    BY <1>6, <2>2, <2>5 DEF Statuses, LostFor
<1>. QED
  BY <1>4, <1>5, <1>6

\* A call keeps the invariant.
LEMMA CallKeeps ==
  ASSUME HeapInvariant, Running, NEW h \in Heaps, NEW r,
         NEW gone, Returned(r, memory, Own, Ordered, h, gone),
         memory' = Settled(r), UNCHANGED <<image, loaded>>,
         h = "user" => loaded = Len(image),
         IsFiniteSet(DOMAIN held'), Cardinality(DOMAIN held') <= MaxHeld,
         r.status = "running" => HeldIs(r, held')
  PROVE  /\ HeapInvariant'
         /\ LostFor(memory', memory, h, gone) /\ (memory'.status = "lost" => r.status = "running")
<1>1. /\ image \in Images /\ loaded \in 0..Len(image)
      /\ loaded < Len(image) => AboveAll(memory)
  BY DEF HeapInvariant
<1>2. Own' = Own /\ Ordered' = Ordered
  BY DEF Own, Ordered, LoadedPages, Sound
<1>3. PICK s : s = memory'
  OBVIOUS
<1>4. /\ MemoryOK(s) /\ s.status \in Statuses
      /\ LostFor(s, memory, h, gone) /\ (s.status = "lost" => r.status = "running")
      /\ s.status = "running" =>
           /\ s = r /\ AtRest(r, Own, Ordered)
           /\ h = "kernel" /\ AboveAll(memory) => AboveAll(r)
  BY <1>3, SettledReturns
<1>5. image' = image /\ loaded' = loaded
  OBVIOUS
<1>6. loaded < Len(image) => h = "kernel"
  <2>1. Heaps = {"kernel", "user"} /\ (h = "user" => loaded = Len(image))
    BY DEF Heaps
  <2>2. loaded \in Int
    BY <1>1
  <2>. QED
    BY <2>1, <2>2
<1>7. memory' = s
  BY <1>3
<1>8. Running' => AtRest(memory', Own', Ordered') /\ HeldIs(memory', held')
  BY <1>2, <1>4, <1>7 DEF Running
<1>9. Running' /\ loaded' < Len(image') => AboveAll(memory')
  BY <1>1, <1>4, <1>5, <1>6, <1>7 DEF Running
<1>. QED
  BY <1>1, <1>4, <1>5, <1>7, <1>8, <1>9 DEF HeapInvariant

\* The machine begins without a block.
LEMMA HeapInit == Init => HeapInvariant
<1>. SUFFICES ASSUME Init PROVE HeapInvariant
  OBVIOUS
<1>1. /\ TableSize \in Nat /\ KernelEntry \in Nat /\ KernelEntry < SelfMap /\ SelfMap \in Nat
      /\ KernelImage \in Nat /\ SelfMap = TableSize - 1
  BY Constants
<1>2. TableOf(KernelImage) = KernelEntry
  <2>1. KernelImage = TableSize * KernelEntry
    BY <1>1 DEF KernelImage
  <2>2. TableSize * KernelEntry < TableSize * KernelEntry + TableSize
    BY <1>1, <2>1
  <2>3. TableSize \in Nat \ {0}
    BY <1>1
  <2>. QED
    BY <1>1, <2>1, <2>2, <2>3, Quotient DEF TableOf
<1>3. PagesOK(memory)
  <2>1. KernelImage \in Pages
    BY <1>1, <1>2, PagesOfTables
  <2>. QED
    BY <1>1, <1>2, <2>1 DEF Init, PagesOK
<1>4. DOMAIN memory.hdr = {} /\ IsFiniteSet({})
  BY FS_EmptySet DEF Init
<1>5. memory.hdr \in [DOMAIN memory.hdr -> HeaderType]
  BY <1>4 DEF Init
<1>6. /\ memory.free_blocks = [h \in Heaps |-> [index \in Classes |-> NULL]]
      /\ memory.complete_pages = [h \in Heaps |-> [index \in Classes |-> 0]]
      /\ memory.status = "running" /\ memory.mapped = {KernelImage}
  BY DEF Init
<1>7. Whole(memory)
  BY DEF Init, Whole, MemoryFields
<1>8. MemoryOK(memory)
  <2>1. memory.free_blocks \in [Heaps -> [Classes -> Nat]]
    BY <1>6, Constants
  <2>2. memory.complete_pages \in [Heaps -> [Classes -> 0..255]]
    BY <1>6
  <2>. QED
    BY <1>3, <1>4, <1>5, <1>7, <2>1, <2>2 DEF MemoryOK
<1>9. Blocks(memory) /\ NoPair(memory, {}) /\ UnitsOf(memory) = {}
  <2>1. Runs(memory)
    <3>1. RunsAs(memory, [x \in {} |-> 0])
      BY <1>4 DEF RunsAs
    <3>2. [x \in {} |-> 0] \in [DOMAIN memory.hdr -> Nat]
      BY <1>4
    <3>. QED
      BY <3>1, <3>2 DEF Runs
  <2>2. Tiled(memory) /\ High(memory) /\ NoPair(memory, {}) /\ UnitsOf(memory) = {}
    BY <1>4 DEF Tiled, High, NoPair, UnitsOf
  <2>. QED
    BY <1>8, <2>1, <2>2 DEF Blocks
<1>10. \A sound : Files(memory, {}, sound)
  <2>. TAKE sound
  <2>1. Linked(memory)
    BY <1>4, <1>6 DEF Linked
  <2>2. OutOfLists(memory, {}) /\ NoneAtNull(memory, sound)
        /\ Classed(memory, FreeOf(memory, sound) \ {}) /\ FreeOf(memory, sound) = {}
    BY <1>4 DEF OutOfLists, NoneAtNull, Classed, FreeOf
  <2>3. Filed(memory, {})
    <3>1. [x \in {} |-> 0] \in [DOMAIN memory.hdr -> Nat]
      BY <1>4
    <3>2. FiledAs(memory, {}, [x \in {} |-> 0])
      BY DEF FiledAs
    <3>. QED
      BY <3>1, <3>2 DEF Filed
  <2>. QED
    BY <2>1, <2>2, <2>3 DEF Files, FilesBut
<1>11. Own = {KernelImage}
  BY <1>1 DEF Own, LoadedPages, Init
<1>12. AtRest(memory, Own, Ordered)
  BY <1>6, <1>9, <1>10, <1>11 DEF AtRest
<1>13. HeldIs(memory, held) /\ DOMAIN held = {}
  BY <1>4 DEF Init, HeldIs, UsedOf
<1>14. IsFiniteSet(DOMAIN held) /\ Cardinality(DOMAIN held) <= MaxHeld
  BY <1>4, <1>13, FS_EmptySet, HeapAssumption
<1>15. image \in Images /\ loaded \in 0..Len(image)
  <2>1. image \in Images /\ loaded = 0
    BY DEF Init
  <2>2. Len(image) \in Nat
    BY <2>1, ImagesAssumption
  <2>. QED
    BY <2>1, <2>2
<1>16. AboveAll(memory)
  BY <1>9 DEF AboveAll
<1>. QED
  BY <1>6, <1>8, <1>12, <1>13, <1>14, <1>15, <1>16 DEF HeapInvariant, Statuses

\* Where elf_map maps a segment, and how many pages.
LEMMA SegmentPlace ==
  ASSUME HeapInvariant, Running, loaded < Len(image)
  PROVE  /\ image[loaded + 1][1] \div PageSize \in Pages
         /\ SizeToPages(image[loaded + 1][2]) \in Nat
<1>. DEFINE begin == image[loaded + 1][1]
            length == image[loaded + 1][2]
            page == begin \div PageSize
<1>1. MemoryOK(memory) /\ image \in Images /\ loaded \in 0..Len(image)
  BY DEF HeapInvariant
<1>2. loaded < Len(image)
  OBVIOUS
<1>3. AtRest(memory, Own, Ordered)
  BY DEF HeapInvariant
<1>4. Len(image) \in Nat /\ loaded \in Nat /\ loaded + 1 \in 1..Len(image)
  <2>1. Len(image) \in Nat
    BY <1>1, ImagesAssumption
  <2>. QED
    BY <1>1, <1>2, <2>1
<1>5. /\ begin \in Nat /\ length \in Nat \ {0}
      /\ (begin + length - 1) \div PageSize < KernelImage
  BY <1>1, <1>4, ImagesAssumption
<1>. HIDE DEF begin, length
<1>7. /\ page \in Nat /\ (begin + length - 1) \div PageSize \in Nat
      /\ page <= (begin + length - 1) \div PageSize
  <2>1. PageSize \in Nat \ {0}
    BY Constants
  <2>. DEFINE last == begin + length - 1
  <2>2. begin \in Nat /\ last \in Nat /\ begin <= last
    BY <1>5
  <2>. HIDE DEF last
  <2>3. begin \div PageSize \in Nat /\ last \div PageSize \in Nat
    BY <2>1, <2>2, Division
  <2>4. begin \div PageSize <= last \div PageSize
    BY <2>1, <2>2, QuotientMonotone
  <2>. QED
    BY <2>3, <2>4 DEF last
<1>9. page \in Pages
  <2>1. KernelImage \in Pages
    <3>1. KernelImage \in memory.mapped /\ memory.mapped \subseteq Pages
      BY <1>1, <1>3 DEF AtRest, Own, MemoryOK, PagesOK
    <3>. QED
      BY <3>1
  <2>2. page < KernelImage
    BY <1>5, <1>7, Constants
  <2>3. Pages = 0..(TableSize * TableSize - 1)
    BY DEF Pages
  <2>4. PICK top \in Int : top = TableSize * TableSize - 1
    BY Constants
  <2>5. Pages = 0..top
    BY <2>3, <2>4
  <2>. QED
    BY <1>7, <2>1, <2>2, <2>4, <2>5, Constants
<1>10. SizeToPages(length) \in Nat
  BY <1>5, PagesNeeded
<1>. QED
  BY <1>9, <1>10 DEF page, begin, length

\* elf_map keeps the invariant.
LEMMA MapKeeps ==
  ASSUME HeapInvariant, MapSegment
  PROVE  HeapInvariant' /\ memory'.status # "lost"
<1>. DEFINE begin == image[loaded + 1][1]
            length == image[loaded + 1][2]
            page == begin \div PageSize
            touched == Touched(image[loaded + 1])
            r == PageMapAt(memory, page, SizeToPages(length))
<1>1. /\ MemoryOK(memory) /\ image \in Images /\ loaded \in 0..Len(image)
      /\ IsFiniteSet(DOMAIN held) /\ Cardinality(DOMAIN held) <= MaxHeld
  BY DEF HeapInvariant
<1>2. Running /\ loaded < Len(image)
      /\ memory' = (IF touched \subseteq r.mapped THEN r ELSE Stop(r, "fault"))
      /\ loaded' = loaded + 1 /\ held' = held /\ image' = image
  BY DEF MapSegment
<1>3. AtRest(memory, Own, Ordered) /\ HeldIs(memory, held) /\ AboveAll(memory)
  BY <1>2 DEF HeapInvariant
<1>4. Len(image) \in Nat /\ loaded \in Nat /\ loaded + 1 \in 1..Len(image)
  <2>1. Len(image) \in Nat
    BY <1>1, ImagesAssumption
  <2>. QED
    BY <1>1, <1>2, <2>1
<1>5. /\ begin \in Nat /\ length \in Nat \ {0}
      /\ (begin + length - 1) \div PageSize < KernelImage
  BY <1>1, <1>4, ImagesAssumption
<1>6. touched = page..((begin + length - 1) \div PageSize)
  BY DEF Touched
<1>. HIDE DEF begin, length, touched
<1>7. /\ page \in Nat /\ (begin + length - 1) \div PageSize \in Nat
      /\ page <= (begin + length - 1) \div PageSize
  <2>1. PageSize \in Nat \ {0}
    BY Constants
  <2>. DEFINE last == begin + length - 1
  <2>2. begin \in Nat /\ last \in Nat /\ begin <= last
    BY <1>5
  <2>. HIDE DEF last
  <2>3. begin \div PageSize \in Nat /\ last \div PageSize \in Nat
    BY <2>1, <2>2, Division
  <2>4. begin \div PageSize <= last \div PageSize
    BY <2>1, <2>2, QuotientMonotone
  <2>. QED
    BY <2>3, <2>4 DEF last
<1>8. \A q \in touched : q \in Int /\ q < KernelImage
  BY <1>5, <1>6, <1>7, Constants
<1>9. page \in Pages /\ SizeToPages(length) \in Nat
  BY <1>2, SegmentPlace DEF begin, length
<1>. HIDE DEF page
<1>11. /\ MemoryOK(r)
       /\ r.hdr = memory.hdr /\ r.free_blocks = memory.free_blocks
       /\ memory.mapped \subseteq r.mapped
       /\ r.status \in {"running", "fault"}
  BY <1>1, <1>2, <1>9, PageMapAtKeeps DEF Running
<1>. HIDE DEF r
<1>12. PICK s : s = memory'
  OBVIOUS
<1>13. MemoryOK(s) /\ s.status \in {"running", "fault"}
  BY <1>2, <1>11, <1>12, Stopped
<1>14. s.status = "running" => s = r /\ touched \subseteq r.mapped
  <2>1. CASE ~(touched \subseteq r.mapped)
    <3>1. s = Stop(r, "fault")
      BY <1>2, <1>12, <2>1
    <3>2. s.status # "running"
      BY <1>11, <3>1, Stopped
    <3>. QED
      BY <3>2
  <2>. QED
    BY <1>2, <1>12, <2>1
<1>15. Own' = Own \cup touched
  <2>1. LoadedPages' = LoadedPages \cup touched
    <3>1. 1..(loaded + 1) = 1..loaded \cup {loaded + 1}
      BY <1>4
    <3>2. LoadedPages' = UNION {Touched(image[i]) : i \in 1..(loaded + 1)}
      BY <1>2 DEF LoadedPages
    <3>. QED
      BY <3>1, <3>2 DEF LoadedPages, touched
  <2>. QED
    BY <2>1 DEF Own
<1>16. Ordered = Heaps /\ Ordered' \subseteq Heaps
  BY <1>2 DEF Ordered
<1>17. ASSUME s.status = "running"
       PROVE  /\ AtRest(memory', Own', Ordered') /\ HeldIs(memory', held')
              /\ AboveAll(memory')
  <2>1. s = r /\ touched \subseteq r.mapped
    BY <1>14, <1>17
  <2>2. /\ Blocks(memory) /\ NoPair(memory, {}) /\ Files(memory, {}, Heaps)
        /\ Own \subseteq memory.mapped
        /\ \A u \in UnitsOf(memory) : u \div PageSize \in memory.mapped \ Own
    BY <1>3, <1>16 DEF AtRest
  <2>3. /\ Blocks(r) /\ NoPair(r, {}) /\ UnitsOf(r) = UnitsOf(memory)
        /\ FilesBut(r, {}, {}, Heaps)
    BY <1>11, <2>2, SameHeaders DEF Files
  <2>4. Files(r, {}, Ordered')
    <3>1. PICK some : some = Ordered'
      OBVIOUS
    <3>2. Files(r, {}, Heaps) /\ some \subseteq Heaps
      BY <1>16, <2>3, <3>1 DEF Files
    <3>3. Files(r, {}, some)
      BY <3>2, FewerFiles
    <3>. QED
      BY <3>1, <3>3
  <2>5. \A u \in UnitsOf(r) : u \div PageSize \in r.mapped \ (Own \cup touched)
    <3>1. ASSUME NEW u \in UnitsOf(r)
          PROVE  u \div PageSize \notin touched
      <4>1. KernelImage <= u \div PageSize
        BY <1>3, <2>3 DEF AboveAll
      <4>2. u \div PageSize \in Nat
        <5>1. u \div PageSize \in memory.mapped
          BY <2>2, <2>3
        <5>2. memory.mapped \subseteq Pages
          BY <1>1 DEF MemoryOK, PagesOK
        <5>. QED
          BY <5>1, <5>2, PagesNatural
      <4>. QED
        BY <1>8, <4>1, <4>2, Constants
    <3>. QED
      BY <1>11, <2>2, <2>3, <3>1
  <2>6. Own \cup touched \subseteq r.mapped
    BY <1>11, <2>1, <2>2
  <2>7. AtRest(memory', Own', Ordered')
    BY <1>12, <1>15, <2>1, <2>3, <2>4, <2>5, <2>6 DEF AtRest
  <2>8. HeldIs(memory', held')
    BY <1>2, <1>3, <1>11, <1>12, <2>1 DEF HeldIs, UsedOf
  <2>9. AboveAll(memory')
    BY <1>3, <1>12, <2>1, <2>3 DEF AboveAll
  <2>. QED
    BY <2>7, <2>8, <2>9
<1>18. image' \in Images /\ loaded' \in 0..Len(image')
  BY <1>1, <1>2, <1>4
<1>. QED
  BY <1>1, <1>2, <1>12, <1>13, <1>17, <1>18 DEF HeapInvariant, Running, Statuses

\* One block more, or another.
LEMMA HeldBound ==
  ASSUME NEW f, IsFiniteSet(DOMAIN f), NEW a, NEW size, NEW gone
  PROVE  /\ IsFiniteSet(DOMAIN Holds(f, a, size, gone))
         /\ gone = {} /\ Cardinality(DOMAIN f) < MaxHeld =>
              Cardinality(DOMAIN Holds(f, a, size, gone)) <= MaxHeld
         /\ (\E x \in DOMAIN f : gone = {x}) /\ Cardinality(DOMAIN f) <= MaxHeld =>
              Cardinality(DOMAIN Holds(f, a, size, gone)) <= MaxHeld
<1>1. DOMAIN Holds(f, a, size, gone) = (DOMAIN f \ gone) \cup {a}
  BY DEF Holds
<1>2. IsFiniteSet(DOMAIN f \ gone) /\ MaxHeld \in Nat
  BY FS_Subset, HeapAssumption
<1>3. \A T : IsFiniteSet(T) => /\ IsFiniteSet(T \cup {a}) /\ Cardinality(T) \in Nat
                               /\ Cardinality(T \cup {a}) <= Cardinality(T) + 1
  <2>. TAKE T
  <2>. HAVE IsFiniteSet(T)
  <2>1. Cardinality(T) \in Nat
    BY FS_CardinalityType
  <2>2. /\ IsFiniteSet(T \cup {a})
        /\ Cardinality(T \cup {a}) = IF a \in T THEN Cardinality(T) ELSE Cardinality(T) + 1
    BY FS_AddElement
  <2>. QED
    BY <2>1, <2>2
<1>4. ASSUME NEW x \in DOMAIN f, gone = {x}
      PROVE  Cardinality(DOMAIN f \ gone) = Cardinality(DOMAIN f) - 1
  BY <1>4, FS_RemoveElement
<1>5. Cardinality(DOMAIN f) \in Nat
  BY FS_CardinalityType
<1>6. gone = {} => DOMAIN f \ gone = DOMAIN f
  OBVIOUS
<1>. QED
  <2>. DEFINE n == Cardinality(DOMAIN f)
              k == Cardinality(DOMAIN f \ gone)
              c == Cardinality((DOMAIN f \ gone) \cup {a})
  <2>1. n \in Nat /\ k \in Nat /\ c <= k + 1 /\ IsFiniteSet((DOMAIN f \ gone) \cup {a})
        /\ c \in Nat
    BY <1>2, <1>3, <1>5, FS_CardinalityType
  <2>2. gone = {} => k = n
    BY <1>6
  <2>3. (\E x \in DOMAIN f : gone = {x}) => k = n - 1
    BY <1>4
  <2>. HIDE DEF n, k, c
  <2>4. /\ gone = {} /\ n < MaxHeld => c <= MaxHeld
        /\ (\E x \in DOMAIN f : gone = {x}) /\ n <= MaxHeld => c <= MaxHeld
    BY <1>2, <2>1, <2>2, <2>3
  <2>. QED
    BY <1>1, <2>1, <2>4 DEF n, c

\* How a machine is lost in a step.
Loss ==
  memory'.status = "lost" =>
    \E h \in Heaps : \E a \in HeldIn(h) \ DOMAIN held' :
      /\ memory'.complete_pages[h][HeapGetIndex(memory.hdr[a].size - S)] = MaxComplete
      /\ \E d \in (0..SelfMap) \ memory'.tables :
           \A page \in InUse(memory)' \ memory'.mapped : TableOf(page) = d

\* The blocks of gone were held before the step, and are not after it.
LEMMA LossOf ==
  ASSUME HeapInvariant', UNCHANGED <<image, loaded>>, NEW h \in Heaps, NEW gone,
         LostFor(memory', memory, h, gone),
         memory'.status = "lost" => gone \subseteq HeldIn(h) \ DOMAIN held'
  PROVE  Loss
<1>. SUFFICES ASSUME memory'.status = "lost"
              PROVE  \E a \in HeldIn(h) \ DOMAIN held' :
      /\ memory'.complete_pages[h][HeapGetIndex(memory.hdr[a].size - S)] = MaxComplete
      /\ \E d \in (0..SelfMap) \ memory'.tables :
           \A page \in InUse(memory)' \ memory'.mapped : TableOf(page) = d
  BY DEF Loss
<1>1. LostTable(memory', Own) /\ \E a \in gone : CounterFull(memory', memory, h, a)
  BY DEF LostFor
<1>2. PICK a \in HeldIn(h) \ DOMAIN held' :
        memory'.complete_pages[h][HeapGetIndex(memory.hdr[a].size - S)] = MaxComplete
  BY <1>1 DEF CounterFull
<1>3. InUse(memory)' = PagesOf(memory') \cup Own
  <2>1. MemoryOK(memory')
    BY DEF HeapInvariant
  <2>2. PICK s : s = memory'
    OBVIOUS
  <2>3. InUse(s) = PagesOf(s) \cup Own
    BY <2>1, <2>2, InUseIs
  <2>4. InUse(memory)' = InUse(s)
    BY <2>2 DEF InUse, LoadedPages, BlockPages
  <2>. QED
    BY <2>2, <2>3, <2>4
<1>. QED
  BY <1>1, <1>2, <1>3 DEF LostTable

\* A call that gets a block keeps the invariant.
LEMMA HoldKeeps ==
  ASSUME HeapInvariant, Running, NEW h \in Heaps, h = "user" => loaded = Len(image),
         NEW got, NEW size, NEW gone, NEW freed \in SUBSET gone, got.a \notin freed,
         Returned(got.m, memory, Own, Ordered, h, freed), freed \subseteq HeldIn(h),
         got.m.status = "running" => Holding(got, held, size, gone),
         \/ gone = {} /\ Cardinality(DOMAIN held) < MaxHeld
         \/ \E x \in DOMAIN held : gone = {x},
         Hold(got, size, gone)
  PROVE  HeapInvariant' /\ Loss
<1>1. /\ memory' = Settled(got.m) /\ UNCHANGED <<image, loaded>>
      /\ held' = IF got.m.status \notin {"running", "mixed"} THEN held
                 ELSE Holds(held, got.a, size, gone)
  BY DEF Hold, Holds
<1>2. IsFiniteSet(DOMAIN held) /\ Cardinality(DOMAIN held) <= MaxHeld
  BY DEF HeapInvariant
<1>3. IsFiniteSet(DOMAIN held') /\ Cardinality(DOMAIN held') <= MaxHeld
  BY <1>1, <1>2, HeldBound
<1>4. got.m.status = "running" => HeldIs(got.m, held')
  BY <1>1 DEF Holding
<1>5. PICK r : r = got.m
  OBVIOUS
<1>6. /\ HeapInvariant'
      /\ LostFor(memory', memory, h, freed) /\ (memory'.status = "lost" => r.status = "running")
  BY <1>1, <1>3, <1>4, <1>5, CallKeeps
<1>7. ASSUME memory'.status = "lost" PROVE freed \subseteq HeldIn(h) \ DOMAIN held'
  <2>1. held' = Holds(held, got.a, size, gone)
    BY <1>1, <1>5, <1>6, <1>7
  <2>. QED
    BY <2>1 DEF Holds
<1>. QED
  BY <1>1, <1>6, <1>7, LossOf

\* A call that frees a block keeps the invariant.
LEMMA ReleaseKeeps ==
  ASSUME HeapInvariant, Running, NEW h \in Heaps, h = "user" => loaded = Len(image),
         NEW a \in HeldIn(h), Release(h, a)
  PROVE  HeapInvariant' /\ Loss
<1>1. AtRest(memory, Own, Ordered) /\ HeldIs(memory, held)
      /\ IsFiniteSet(DOMAIN held) /\ Cardinality(DOMAIN held) <= MaxHeld
  BY DEF HeapInvariant
<1>2. memory.status = "running" /\ a \in DOMAIN held /\ memory.hdr[a].heap = h
  BY DEF Running, HeldIn
<1>3. PICK r : r = Free(memory, h, a)
  OBVIOUS
<1>4. /\ memory' = Settled(r) /\ UNCHANGED <<image, loaded>>
      /\ held' = [x \in DOMAIN held \ {a} |-> held[x]]
  BY <1>3 DEF Release
<1>5. /\ Returned(r, memory, Own, Ordered, h, {a})
      /\ r.status = "running" => HeldIs(r, [x \in DOMAIN held \ {a} |-> held[x]])
  BY <1>1, <1>2, <1>3, FreeReturns
<1>6. IsFiniteSet(DOMAIN held') /\ Cardinality(DOMAIN held') <= MaxHeld
  <2>1. DOMAIN held' = DOMAIN held \ {a}
    BY <1>4
  <2>2. /\ IsFiniteSet(DOMAIN held \ {a})
        /\ Cardinality(DOMAIN held \ {a}) = Cardinality(DOMAIN held) - 1
    BY <1>1, <1>2, FS_RemoveElement
  <2>3. Cardinality(DOMAIN held) \in Nat /\ MaxHeld \in Nat
    BY <1>1, FS_CardinalityType, HeapAssumption
  <2>. QED
    BY <1>1, <2>1, <2>2, <2>3
<1>7. HeapInvariant' /\ LostFor(memory', memory, h, {a})
  BY <1>4, <1>5, <1>6, CallKeeps
<1>8. {a} \subseteq HeldIn(h) \ DOMAIN held'
  BY <1>4
<1>. QED
  BY <1>4, <1>7, <1>8, LossOf

\* An allocation keeps the invariant.
LEMMA AllocatesKeeps ==
  ASSUME HeapInvariant, Running, NEW h \in Heaps, h = "user" => loaded = Len(image),
         Cardinality(DOMAIN held) < MaxHeld,
         NEW size \in Sizes, Hold(Kmalloc(memory, h, size), size, {})
  PROVE  HeapInvariant' /\ Loss
<1>1. AtRest(memory, Own, Ordered) /\ HeldIs(memory, held)
  BY DEF HeapInvariant
<1>2. memory.status = "running"
  BY DEF Running
<1>3. h = "user" /\ "user" \in Ordered => 0 \in Own
  BY DEF Ordered, Sound, Own, Heaps
<1>4. PICK got : got = Kmalloc(memory, h, size)
  OBVIOUS
<1>5. Allocated(got, memory, h, size) /\ Returned(got.m, memory, Own, Ordered, h, {})
  BY <1>1, <1>2, <1>3, <1>4, KmallocReturns
<1>6. got.m.status = "running" => Holding(got, held, size, {})
  <2>1. got.m.status = "running" => AddsUsed(got.m, memory, got.a, h, size)
    BY <1>5 DEF Allocated
  <2>2. size \in Nat \ {0}
    BY HeapAssumption
  <2>. QED
    BY <1>1, <2>1, <2>2, HoldOne DEF Holding
<1>7. Hold(got, size, {})
  BY <1>4
<1>. QED
  BY <1>5, <1>6, <1>7, HoldKeeps

\* A reallocation keeps the invariant.
LEMMA ReallocatesKeeps ==
  ASSUME HeapInvariant, Running, NEW h \in Heaps, h = "user" => loaded = Len(image),
         NEW a \in HeldIn(h), NEW size \in Sizes,
         Hold(Krealloc(memory, h, a, size), size, {a})
  PROVE  HeapInvariant' /\ Loss
<1>1. AtRest(memory, Own, Ordered) /\ HeldIs(memory, held)
  BY DEF HeapInvariant
<1>2. memory.status = "running" /\ a \in DOMAIN held /\ memory.hdr[a].heap = h
  BY DEF Running, HeldIn
<1>3. h = "user" /\ "user" \in Ordered => 0 \in Own
  BY DEF Ordered, Sound, Own, Heaps
<1>4. PICK got : got = Krealloc(memory, h, a, size)
  OBVIOUS
<1>5. /\ \/ Returned(got.m, memory, Own, Ordered, h, {})
         \/ got.a # a /\ Returned(got.m, memory, Own, Ordered, h, {a})
      /\ got.m.status = "running" => Holding(got, held, size, {a})
  BY <1>1, <1>2, <1>3, <1>4, KreallocReturns
<1>6. Hold(got, size, {a})
  BY <1>4
<1>7. PICK freed : /\ freed \subseteq {a} /\ got.a \notin freed
                   /\ Returned(got.m, memory, Own, Ordered, h, freed)
  BY <1>5
<1>8. PICK gone : gone = {a}
  OBVIOUS
<1>9. freed \in SUBSET gone /\ freed \subseteq HeldIn(h)
  BY <1>7, <1>8
<1>10. (\E x \in DOMAIN held : gone = {x}) /\ Hold(got, size, gone)
  BY <1>2, <1>6, <1>8
<1>11. got.m.status = "running" => Holding(got, held, size, gone)
  BY <1>5, <1>8
<1>. QED
  BY <1>7, <1>9, <1>10, <1>11, HoldKeeps

\* Each step keeps the invariant.
LEMMA HeapStep ==
  ASSUME HeapInvariant, Next
  PROVE  HeapInvariant' /\ Loss
<1>1. CASE MapSegment
  BY <1>1, MapKeeps DEF Loss
<1>2. CASE KernelAllocates
  BY <1>2, AllocatesKeeps DEF KernelAllocates, Heaps
<1>3. CASE KernelFrees
  BY <1>3, ReleaseKeeps DEF KernelFrees, Heaps
<1>4. CASE KernelReallocates
  BY <1>4, ReallocatesKeeps DEF KernelReallocates, Heaps
<1>5. CASE UserAllocates
  BY <1>5, AllocatesKeeps DEF UserAllocates, UserRuns, Heaps
<1>6. CASE UserFrees
  BY <1>6, ReleaseKeeps DEF UserFrees, UserRuns, Heaps
<1>7. CASE UserReallocates
  BY <1>7, ReallocatesKeeps DEF UserReallocates, UserRuns, Heaps
<1>. QED
  BY <1>1, <1>2, <1>3, <1>4, <1>5, <1>6, <1>7 DEF Next

\* The inductive invariant.
THEOREM HeapInductive == Spec => []HeapInvariant
<1>1. HeapInvariant /\ [Next]_vars => HeapInvariant'
  <2>1. HeapInvariant /\ UNCHANGED vars => HeapInvariant'
    BY DEF vars, HeapInvariant, Running, Own, LoadedPages, Ordered, Sound
  <2>. QED
    BY <2>1, HeapStep
<1>. QED
  BY HeapInit, <1>1, PTL DEF Spec

-----------------------------------------------------------------------------
(* The theorems. *)

\* Pages keep their tables, what is in use stays mapped, and counters are bytes.
THEOREM HeapTypeCorrect == Spec => []MemTypeOK
<1>1. HeapInvariant => MemTypeOK
  <2>. SUFFICES ASSUME HeapInvariant PROVE MemTypeOK
    OBVIOUS
  <2>1. Running => InUse(memory) \subseteq memory.mapped
    <3>1. InUse(memory) = PagesOf(memory) \cup Own
      BY InUseIs DEF HeapInvariant
    <3>. QED
      BY <3>1 DEF HeapInvariant, AtRest, PagesOf
  <2>. QED
    BY <2>1 DEF HeapInvariant, MemTypeOK, MemoryOK, PagesOK, Statuses
<1>. QED
  BY HeapInductive, <1>1, PTL

\* The blocks of a run of pages lie side by side.
THEOREM BlocksStayInPlace == Spec => []BlocksTile
<1>1. HeapInvariant => BlocksTile
  <2>. SUFFICES ASSUME HeapInvariant, Running, NEW a \in DOMAIN memory.hdr
                PROVE  LET b == memory.hdr[a] IN
                       /\ \A other \in DOMAIN memory.hdr : other \notin (a + 1)..(a + b.size - 1)
                       /\ IF b.page_flink = NULL THEN (a + b.size) % PageSize = 0
                          ELSE b.page_flink = a + b.size /\ memory.hdr[b.page_flink].page_blink = a
                       /\ IF b.page_blink # NULL THEN memory.hdr[b.page_blink].page_flink = a
                          ELSE \/ a % PageSize = 0
                               \/ 0 \in DOMAIN memory.hdr /\ memory.hdr[0].page_flink = a
    BY DEF BlocksTile
  <2>1. Tiled(memory)
    BY DEF HeapInvariant, AtRest, Blocks
  <2>. QED
    BY <2>1, Constants DEF Tiled
<1>. QED
  BY HeapInductive, <1>1, PTL

\* free merges a block with its neighbours.
THEOREM FreeBlocksMerged == Spec => []NoAdjacentFree
<1>1. HeapInvariant => NoAdjacentFree
  BY Constants DEF HeapInvariant, AtRest, NoPair, NoAdjacentFree
<1>. QED
  BY HeapInductive, <1>1, PTL

\* The free lists hold the unused blocks of their class, each once.
THEOREM FreeListsCorrect == Spec => []FreeListsExact
<1>1. HeapInvariant => FreeListsExact
  <2>. SUFFICES ASSUME HeapInvariant, Running, NEW h \in Heaps, Sound(h),
                       NEW index \in Classes, NEW list, list = FreeList(memory, h, index)
                PROVE  /\ IsInjective(list)
                       /\ \A i \in 1..Len(list) :
                            memory.hdr[list[i]].blink = IF i = 1 THEN NULL ELSE list[i - 1]
                       /\ ToSet(list) = {a \in UnusedOf(h) :
                                           HeapGetIndex(memory.hdr[a].size - S) = index}
    BY DEF FreeListsExact
  <2>1. MemoryOK(memory) /\ Files(memory, {}, Ordered) /\ h \in Ordered
    BY DEF HeapInvariant, AtRest, Ordered
  <2>2. /\ IsInjective(list)
        /\ \A i \in 1..Len(list) :
             memory.hdr[list[i]].blink = IF i = 1 THEN NULL ELSE list[i - 1]
        /\ ToSet(list) = {a \in DOMAIN memory.hdr :
             /\ memory.hdr[a].heap = h /\ ~memory.hdr[a].used
             /\ HeapGetIndex(memory.hdr[a].size - S) = index}
    BY <2>1, FreeListExact
  <2>. QED
    BY <2>2 DEF UnusedOf
<1>. QED
  BY HeapInductive, <1>1, PTL

\* A block in use keeps its size, and lies on nothing else.
THEOREM OwnersSafe == Spec => []OwnersKeepTheirBlocks
<1>1. HeapInvariant => OwnersKeepTheirBlocks
  <2>. SUFFICES ASSUME HeapInvariant, Running
                PROVE  /\ DOMAIN held = {a \in DOMAIN memory.hdr : memory.hdr[a].used}
                       /\ \A a \in DOMAIN held :
                            /\ memory.hdr[a].req = held[a]
                            /\ memory.hdr[a].size >= held[a] + S
                            /\ \A other \in DOMAIN held \ {a} :
                                 other \notin a..(a + S + held[a] - 1)
                            /\ BlockPages(memory, a) \cap (LoadedPages \cup {KernelImage}) = {}
    BY DEF OwnersKeepTheirBlocks
  <2>1. /\ MemoryOK(memory) /\ Tiled(memory) /\ HeldIs(memory, held)
        /\ \A u \in UnitsOf(memory) : u \div PageSize \notin Own
    BY DEF HeapInvariant, AtRest, Blocks
  <2>2. DOMAIN held = {a \in DOMAIN memory.hdr : memory.hdr[a].used}
    BY <2>1 DEF HeldIs, UsedOf
  <2>3. ASSUME NEW a \in DOMAIN held
        PROVE  /\ memory.hdr[a].req = held[a]
               /\ memory.hdr[a].size >= held[a] + S
               /\ \A other \in DOMAIN held \ {a} :
                    other \notin a..(a + S + held[a] - 1)
               /\ BlockPages(memory, a) \cap (LoadedPages \cup {KernelImage}) = {}
    <3>1. /\ a \in DOMAIN memory.hdr /\ memory.hdr[a].req = held[a] /\ held[a] \in Nat
          /\ memory.hdr[a].size >= held[a] + S
      BY <2>1, <2>2 DEF HeldIs
    <3>2. a \in Nat /\ memory.hdr[a].size \in Nat
      BY <2>1, <3>1, HeadersOf
    <3>3. ASSUME NEW other \in DOMAIN held \ {a}
          PROVE  other \notin a..(a + S + held[a] - 1)
      <4>1. other \in DOMAIN memory.hdr /\ other # a /\ other \in Nat
        BY <2>1, <2>2, HeadersOf
      <4>2. other \notin (a + 1)..(a + memory.hdr[a].size - 1)
        BY <2>1, <3>1, <4>1 DEF Tiled
      <4>. QED
        BY <3>1, <3>2, <4>1, <4>2, Constants
    <3>4. BlockPages(memory, a) \cap Own = {}
      <4>1. ASSUME NEW page \in BlockPages(memory, a)
            PROVE  page \notin Own
        <5>1. PICK u \in a..(a + memory.hdr[a].size - 1) : u \div PageSize = page
          BY <2>1, <3>1, PagesOfBlock
        <5>2. u \in UnitsOf(memory)
          BY <3>1, UnitOf
        <5>. QED
          BY <2>1, <5>1, <5>2
      <4>. QED
        BY <4>1
    <3>. QED
      BY <3>1, <3>3, <3>4 DEF Own
  <2>. QED
    BY <2>2, <2>3
<1>. QED
  BY HeapInductive, <1>1, PTL

\* Pages in use are only lost in a free that finds the counter of its heap at
\* MAX_COMPLETE, and with one table.
THEOREM LossNeedsFullCounter == Spec => LostOnlyByUnmap
<1>1. HeapInvariant /\ [Next]_vars =>
        [Running /\ memory'.status = "lost" =>
           \E h \in Heaps : \E a \in HeldIn(h) \ DOMAIN held' :
             /\ memory'.complete_pages[h][HeapGetIndex(memory.hdr[a].size - S)] = MaxComplete
             /\ \E d \in (0..SelfMap) \ memory'.tables :
                  \A page \in InUse(memory)' \ memory'.mapped : TableOf(page) = d]_vars
  BY HeapStep DEF Loss
<1>. QED
  BY HeapInductive, <1>1, PTL DEF Spec, LostOnlyByUnmap

-----------------------------------------------------------------------------
(* The counters of unused runs of pages. *)

\* The counters of a heap, added up as bytes.
Total(c) == FoldFunction(LAMBDA x, y : (x + y) % 256, 0, c)

\* A byte that is cut off early or late.
LEMMA ByteSum ==
  ASSUME NEW x \in Nat, NEW y \in Nat
  PROVE  /\ (x + y) % 256 \in 0..255 /\ x % 256 \in 0..255
         /\ ((x % 256) + y) % 256 = (x + y) % 256
         /\ (x + (y % 256)) % 256 = (x + y) % 256
BY SMTT(30)

\* And in the middle of a sum.
LEMMA ByteInside ==
  ASSUME NEW a \in Nat, NEW b \in Nat, NEW d \in Nat
  PROVE  /\ (((a + d) % 256) + b) % 256 = (((a + b) % 256) + d) % 256
         /\ (a + ((b + d) % 256)) % 256 = (((a + b) % 256) + d) % 256
BY SMTT(30)

\* One step of adding them up.
TotalStep(f, c, t) ==
  IF t = {} THEN 0 ELSE LET x == CHOOSE x \in t : TRUE IN (c[x] + f[t \ {x}]) % 256

\* What Total computes, set of classes by set of classes.
SolvesTotal(f, c) == f = [t \in SUBSET DOMAIN c |-> TotalStep(f, c, t)]

\* It can be computed.
LEMMA TotalExists ==
  ASSUME NEW c, IsFiniteSet(DOMAIN c), c \in [DOMAIN c -> 0..255]
  PROVE  \E f \in [SUBSET DOMAIN c -> 0..255] : SolvesTotal(f, c)
<1>. DEFINE D == DOMAIN c
            N == {n \in Nat : \E f \in [SUBSET D -> 0..255] :
                    \A t \in SUBSET D : Cardinality(t) <= n => f[t] = TotalStep(f, c, t)}
<1>1. \A t \in SUBSET D : IsFiniteSet(t) /\ Cardinality(t) \in Nat /\ Cardinality(t) <= Cardinality(D)
  BY FS_Subset, FS_CardinalityType
<1>2. Cardinality(D) \in Nat
  BY FS_CardinalityType
<1>. HIDE DEF D
<1>3. 0 \in N
  <2>. DEFINE f == [t \in SUBSET D |-> 0]
  <2>1. ASSUME NEW t \in SUBSET D, Cardinality(t) <= 0 PROVE f[t] = TotalStep(f, c, t)
    <3>1. Cardinality(t) = 0
      BY <1>1, <2>1
    <3>2. t = {}
      BY <1>1, <3>1, FS_EmptySet
    <3>. QED
      BY <3>2 DEF TotalStep
  <2>2. f \in [SUBSET D -> 0..255]
    OBVIOUS
  <2>. QED
    BY <2>1, <2>2
<1>4. ASSUME NEW n \in Nat, n \in N PROVE n + 1 \in N
  <2>1. PICK f \in [SUBSET D -> 0..255] :
          \A t \in SUBSET D : Cardinality(t) <= n => f[t] = TotalStep(f, c, t)
    BY <1>4
  <2>. DEFINE g == [t \in SUBSET D |-> IF Cardinality(t) = n + 1 THEN TotalStep(f, c, t) ELSE f[t]]
  <2>2. ASSUME NEW t \in SUBSET D
        PROVE  /\ TotalStep(f, c, t) \in 0..255
               /\ Cardinality(t) <= n + 1 => TotalStep(g, c, t) = TotalStep(f, c, t)
    <3>1. CASE t = {}
      BY <3>1 DEF TotalStep
    <3>2. CASE t # {}
      <4>. DEFINE x == CHOOSE x \in t : TRUE
      <4>1. x \in t
        BY <3>2
      <4>2. /\ TotalStep(f, c, t) = (c[x] + f[t \ {x}]) % 256
            /\ TotalStep(g, c, t) = (c[x] + g[t \ {x}]) % 256
        BY <3>2 DEF TotalStep
      <4>. HIDE DEF x, g
      <4>3. /\ t \ {x} \in SUBSET D /\ Cardinality(t \ {x}) = Cardinality(t) - 1
            /\ c[x] \in Nat
        BY <1>1, <4>1, FS_RemoveElement DEF D
      <4>4. f[t \ {x}] \in Nat
        BY <4>3
      <4>5. (c[x] + f[t \ {x}]) % 256 \in 0..255
        <5>1. \A p, q \in Nat : (p + q) % 256 \in 0..255
          BY ByteSum
        <5>. QED
          BY Zenon, <4>3, <4>4, <5>1
      <4>6. ASSUME Cardinality(t) <= n + 1 PROVE g[t \ {x}] = f[t \ {x}]
        <5>1. Cardinality(t \ {x}) # n + 1
          BY <1>1, <4>3, <4>6
        <5>. QED
          BY <4>3, <5>1 DEF g
      <4>. QED
        BY <4>2, <4>5, <4>6
    <3>. QED
      BY <3>1, <3>2
  <2>3. g \in [SUBSET D -> 0..255]
    BY <2>2
  <2>4. ASSUME NEW t \in SUBSET D, Cardinality(t) <= n + 1 PROVE g[t] = TotalStep(g, c, t)
    <3>1. TotalStep(g, c, t) = TotalStep(f, c, t)
      BY <2>2, <2>4
    <3>2. CASE Cardinality(t) = n + 1
      BY <3>1, <3>2
    <3>3. CASE Cardinality(t) # n + 1
      <4>1. Cardinality(t) <= n
        BY <1>1, <2>4, <3>3
      <4>2. g[t] = f[t] /\ f[t] = TotalStep(f, c, t)
        BY <2>1, <3>3, <4>1
      <4>. HIDE DEF g
      <4>. QED
        BY <3>1, <4>2
    <3>. QED
      BY <3>2, <3>3
  <2>. HIDE DEF g
  <2>. QED
    BY <2>3, <2>4
<1>. HIDE DEF N
<1>5. Cardinality(D) \in N
  BY <1>2, <1>3, <1>4, SetInduction
<1>6. PICK f \in [SUBSET D -> 0..255] :
        \A t \in SUBSET D : Cardinality(t) <= Cardinality(D) => f[t] = TotalStep(f, c, t)
  BY <1>5 DEF N
<1>7. \A t \in SUBSET D : f[t] = TotalStep(f, c, t)
  BY <1>1, <1>6
<1>8. f = [t \in SUBSET D |-> f[t]]
  OBVIOUS
<1>9. f = [t \in SUBSET D |-> TotalStep(f, c, t)]
  BY <1>7, <1>8
<1>. QED
  BY <1>9 DEF SolvesTotal, D

\* Total computes it.
LEMMA TotalSolved ==
  ASSUME NEW c, IsFiniteSet(DOMAIN c), c \in [DOMAIN c -> 0..255]
  PROVE  \E f : SolvesTotal(f, c) /\ Total(c) = f[DOMAIN c]
<1>. DEFINE f == CHOOSE f : SolvesTotal(f, c)
<1>1. SolvesTotal(f, c)
  BY TotalExists
<1>2. Total(c) = f[DOMAIN c]
  BY Zenon DEF Total, FoldFunction, FoldFunctionOnSet, MapThenFoldSet, SolvesTotal, TotalStep
<1>. QED
  BY <1>1, <1>2

\* Counters, one of which goes up by d.
Raised(c, i, d) == [c EXCEPT ![i] = (@ + d) % 256]

\* A counter goes up by d: so does the sum.
LEMMA TotalChanged ==
  ASSUME NEW c \in [Classes -> 0..255], NEW i \in Classes, NEW d \in Nat,
         NEW e, e = Raised(c, i, d)
  PROVE  Total(c) \in 0..255 /\ Total(e) = (Total(c) + d) % 256
<1>1. IsFiniteSet(Classes)
  <2>1. 0 \in Int /\ 7 \in Int
    OBVIOUS
  <2>. QED
    BY <2>1, FS_Interval DEF Classes
<1>2. \A x, y \in Nat : /\ (x + y) % 256 \in 0..255
                        /\ ((x % 256) + y) % 256 = (x + y) % 256
                        /\ (x + (y % 256)) % 256 = (x + y) % 256
  BY ByteSum
<1>12. c[i] \in Nat
  OBVIOUS
<1>13. e[i] = (c[i] + d) % 256 /\ e[i] \in 0..255
  <2>1. e[i] = (c[i] + d) % 256
    BY DEF Raised
  <2>2. (c[i] + d) % 256 \in 0..255
    BY Zenon, <1>2, <1>12
  <2>. QED
    BY <2>1, <2>2
<1>15. /\ DOMAIN c = Classes /\ DOMAIN e = Classes
       /\ \A x \in Classes : x # i => e[x] = c[x]
  BY DEF Raised
<1>3. /\ DOMAIN c = Classes /\ DOMAIN e = Classes
      /\ \A x \in Classes : x # i => e[x] = c[x]
      /\ \A x \in Classes : c[x] \in Nat /\ e[x] \in 0..255 /\ e[x] \in Nat
  BY <1>13, <1>15
<1>14. e \in [Classes -> 0..255]
  <2>1. e = [x \in Classes |-> e[x]]
    BY DEF Raised
  <2>. QED
    BY <1>3, <2>1
<1>4. PICK f : SolvesTotal(f, c) /\ Total(c) = f[Classes]
  BY <1>1, <1>3, <1>14, TotalSolved
<1>5. PICK g : SolvesTotal(g, e) /\ Total(e) = g[Classes]
  BY <1>1, <1>3, <1>14, TotalSolved
<1>. DEFINE Right(t) == /\ f[t] \in 0..255
                       /\ g[t] = IF i \in t THEN (f[t] + d) % 256 ELSE f[t]
            N == {n \in Nat : \A t \in SUBSET Classes : Cardinality(t) = n => Right(t)}
<1>6. \A t \in SUBSET Classes : f[t] = TotalStep(f, c, t) /\ g[t] = TotalStep(g, e, t)
  BY <1>3, <1>4, <1>5 DEF SolvesTotal
<1>7. \A t \in SUBSET Classes : IsFiniteSet(t) /\ Cardinality(t) \in Nat
  BY <1>1, FS_Subset, FS_CardinalityType
<1>8. 0 \in N
  <2>1. ASSUME NEW t \in SUBSET Classes, Cardinality(t) = 0 PROVE Right(t)
    <3>1. t = {}
      BY <1>7, <2>1, FS_EmptySet
    <3>2. f[t] = 0 /\ g[t] = 0
      BY <1>6, <3>1 DEF TotalStep
    <3>. QED
      BY <3>1, <3>2
  <2>. QED
    BY <2>1
<1>9. ASSUME NEW n \in Nat, n \in N PROVE n + 1 \in N
  <2>1. ASSUME NEW t \in SUBSET Classes, Cardinality(t) = n + 1 PROVE Right(t)
    <3>. DEFINE x == CHOOSE x \in t : TRUE
                u == t \ {x}
    <3>1. t # {}
      BY <2>1, FS_EmptySet
    <3>2. x \in t
      BY <3>1
    <3>3. f[t] = (c[x] + f[u]) % 256 /\ g[t] = (e[x] + g[u]) % 256
      BY <1>6, <3>1 DEF TotalStep
    <3>. HIDE DEF x
    <3>4. u \in SUBSET Classes /\ Cardinality(u) = n /\ x \in Classes
      BY <1>7, <2>1, <3>2, FS_RemoveElement
    <3>5. Right(u)
      BY <1>9, <3>4
    <3>6. i \in u <=> i \in t /\ x # i
      OBVIOUS
    <3>. HIDE DEF u
    <3>7. PICK a \in Nat, b \in Nat : a = c[x] /\ b = f[u]
      BY <1>3, <3>4, <3>5
    <3>8. f[t] = (a + b) % 256 /\ f[t] \in 0..255
      <4>1. f[t] = (a + b) % 256
        BY Zenon, <3>3, <3>7
      <4>2. (a + b) % 256 \in 0..255
        BY Zenon, <1>2, <3>7
      <4>. QED
        BY Zenon, <4>1, <4>2
    <3>13. a \in Nat /\ b \in Nat /\ d \in Nat
      BY <3>7
    <3>12. /\ (((a + d) % 256) + b) % 256 = (((a + b) % 256) + d) % 256
           /\ (a + ((b + d) % 256)) % 256 = (((a + b) % 256) + d) % 256
      <4>1. (((a + d) % 256) + b) % 256 = (((a + b) % 256) + d) % 256
        BY SMTT(30), <3>13
      <4>2. (a + ((b + d) % 256)) % 256 = (((a + b) % 256) + d) % 256
        BY SMTT(30), <3>13
      <4>. QED
        BY <4>1, <4>2
    <3>9. CASE x = i
      <4>1. g[u] = b /\ e[x] = (a + d) % 256
        BY Zenon, <1>3, <1>13, <3>5, <3>6, <3>7, <3>9
      <4>2. g[t] = (f[t] + d) % 256
        <5>1. g[t] = (e[x] + g[u]) % 256
          BY Zenon, <3>3
        <5>. QED
          BY ZenonT(30), <3>8, <3>12, <4>1, <5>1
      <4>. QED
        BY Zenon, <3>2, <3>8, <3>9, <4>2
    <3>10. CASE x # i /\ i \in t
      <4>1. g[u] = (b + d) % 256 /\ e[x] = a
        BY Zenon, <1>3, <3>4, <3>5, <3>6, <3>7, <3>10
      <4>2. g[t] = (f[t] + d) % 256
        <5>1. g[t] = (e[x] + g[u]) % 256
          BY Zenon, <3>3
        <5>. QED
          BY ZenonT(30), <3>8, <3>12, <4>1, <5>1
      <4>. QED
        BY Zenon, <3>8, <3>10, <4>2
    <3>11. CASE x # i /\ i \notin t
      <4>1. g[u] = b /\ e[x] = a
        BY Zenon, <1>3, <3>4, <3>5, <3>6, <3>7, <3>11
      <4>2. g[t] = f[t]
        BY Zenon, <3>3, <3>7, <4>1
      <4>. QED
        BY Zenon, <3>8, <3>11, <4>2
    <3>. QED
      BY <3>9, <3>10, <3>11
  <2>. QED
    BY <2>1
<1>. HIDE DEF N
<1>10. Cardinality(Classes) \in N
  BY <1>7, <1>8, <1>9, SetInduction
<1>11. Right(Classes) /\ i \in Classes
  BY <1>10 DEF N
<1>. QED
  BY <1>4, <1>5, <1>11

\* The unused blocks of a heap that are a run of pages each.
Alone(m, g) == {x \in DOMAIN m.hdr : m.hdr[x].heap = g /\ ~m.hdr[x].used /\ Standalone(m, x)}

\* The counters of a heap tell how many those are, but for the blocks of E.
Counted(m, E, g) == Total(m.complete_pages[g]) = Cardinality(Alone(m, g) \ E) % 256

\* What is counted is the same.
LEMMA CountedSame ==
  ASSUME NEW m, NEW r, NEW g, NEW E, NEW D, r.complete_pages = m.complete_pages,
         Alone(r, g) \ D = Alone(m, g) \ E, Counted(m, E, g)
  PROVE  Counted(r, D, g)
BY Zenon DEF Counted

\* The blocks are the same.
LEMMA SameAlone ==
  ASSUME NEW m, NEW r, SameBlocks(r, m), NEW g
  PROVE  Alone(r, g) = Alone(m, g)
BY DEF SameBlocks, Alone, Standalone

\* There are finitely many.
LEMMA AloneFinite ==
  ASSUME NEW m, MemoryOK(m), NEW g, NEW E
  PROVE  IsFiniteSet(Alone(m, g) \ E) /\ Cardinality(Alone(m, g) \ E) \in Nat
<1>1. Alone(m, g) \ E \subseteq DOMAIN m.hdr
  BY DEF Alone
<1>2. IsFiniteSet(DOMAIN m.hdr)
  BY DEF MemoryOK
<1>. QED
  BY <1>1, <1>2, FS_Subset, FS_CardinalityType

\* A block that is not in use any more.
LEMMA MarkCounts ==
  ASSUME NEW m, Blocks(m), NEW a \in DOMAIN m.hdr, m.hdr[a].used,
         NEW r, r = [m EXCEPT !.hdr[a].used = FALSE], NEW g, Counted(m, {}, g)
  PROVE  Counted(r, {a}, g)
<1>1. Marks(r, m, a, FALSE, m.hdr[a].req)
  BY MarkUnused DEF Blocks
<1>2. r.complete_pages = m.complete_pages
  BY <1>1 DEF Marks, SamePages
<1>3. Alone(r, g) \ {a} = Alone(m, g) \ {}
  BY <1>1 DEF Marks, Alone, Standalone
<1>. QED
  BY <1>2, <1>3, CountedSame

\* A step of heap_melt_left.
LEMMA MeltStepCounts ==
  ASSUME NEW m, Blocks(m), NEW a \in DOMAIN m.hdr, ~m.hdr[a].used,
         ~Stops(m, a, "page_blink"), NEW p, p = m.hdr[a].page_blink, NEW h \in Heaps,
         NEW n, n = HeapRemoveHeader(Absorb(m, p, a), h, p), NEW g, Counted(m, {a}, g)
  PROVE  Counted(n, {p}, g)
<1>. DEFINE r == Absorb(m, p, a)
<1>1. /\ p \in DOMAIN m.hdr /\ p # NULL /\ p \in Nat /\ a \in Nat
      /\ m.hdr[p].page_flink = a /\ a # NULL /\ p # a
  BY NextLeft
<1>2. MemoryOK(r) /\ Absorbs(r, m, p, a)
  BY <1>1, AbsorbFields DEF Blocks
<1>. HIDE DEF r
<1>3. p \in DOMAIN r.hdr /\ DOMAIN r.hdr = DOMAIN m.hdr \ {a}
  BY <1>1, <1>2 DEF Absorbs
<1>4. Unlists(n, r, h, p)
  BY Zenon, <1>2, <1>3, RemoveFields DEF r
<1>5. SameBlocks(n, r) /\ n.complete_pages = m.complete_pages
  BY Zenon, <1>2, <1>4 DEF Unlists, Absorbs, SamePages
<1>6. Alone(n, g) = Alone(r, g)
  BY <1>5, SameAlone
<1>7. p \notin Alone(m, g)
  BY <1>1 DEF Alone, Standalone
<1>8. ASSUME NEW x \in DOMAIN m.hdr \ {a}, x # p
      PROVE  /\ r.hdr[x].used = m.hdr[x].used /\ r.hdr[x].heap = m.hdr[x].heap
             /\ r.hdr[x].page_flink = m.hdr[x].page_flink
             /\ r.hdr[x].page_blink = NULL <=> m.hdr[x].page_blink = NULL
  <2>1. /\ r.hdr[x].used = m.hdr[x].used /\ r.hdr[x].heap = m.hdr[x].heap
        /\ r.hdr[x].page_flink = m.hdr[x].page_flink
        /\ r.hdr[x].page_blink = IF x = m.hdr[a].page_flink /\ x # NULL THEN p
                                 ELSE m.hdr[x].page_blink
    BY Zenon, <1>2, <1>8 DEF Absorbs
  <2>2. CASE x = m.hdr[a].page_flink /\ x # NULL
    <3>1. m.hdr[x].page_blink = a
      BY <2>2, RightOf DEF Blocks
    <3>. QED
      BY <1>1, <2>1, <2>2, <3>1
  <2>3. CASE ~(x = m.hdr[a].page_flink /\ x # NULL)
    BY <2>1, <2>3
  <2>. QED
    BY <2>2, <2>3
<1>9. Alone(r, g) \ {p} = Alone(m, g) \ {a}
  <2>1. ASSUME NEW x PROVE x \in Alone(r, g) \ {p} <=> x \in Alone(m, g) \ {a}
    <3>1. CASE x \in DOMAIN m.hdr \ {a} /\ x # p
      BY <1>3, <1>8, <3>1 DEF Alone, Standalone
    <3>2. CASE ~(x \in DOMAIN m.hdr \ {a} /\ x # p)
      BY <1>3, <1>7, <3>2 DEF Alone
    <3>. QED
      BY <3>1, <3>2
  <2>. QED
    BY <2>1
<1>. QED
  BY <1>5, <1>6, <1>9, CountedSame

\* A step of heap_eat_right.  A block next to address 0 may look like a run of its own,
\* but its heap is then not one whose lists mean something.
LEMMA EatStepCounts ==
  ASSUME NEW m, Blocks(m), NEW a \in DOMAIN m.hdr, ~m.hdr[a].used,
         ~Stops(m, a, "page_flink"), NEW p, p = m.hdr[a].page_flink, NEW h \in Heaps,
         NEW n, n = Absorb(HeapRemoveHeader(m, h, p), a, p),
         NEW g, NoneAtNull(m, {g}), Counted(m, {a}, g)
  PROVE  Counted(n, {a}, g)
<1>. DEFINE r == HeapRemoveHeader(m, h, p)
            q == m.hdr[p].page_flink
<1>1. /\ p \in DOMAIN m.hdr /\ p # NULL /\ p \in Nat /\ a \in Nat /\ p # a
  BY NextRight
<1>2. m.hdr[p].page_blink = a /\ m.hdr[p].heap = m.hdr[a].heap
  BY <1>1, RightOf DEF Blocks
<1>3. MemoryOK(r) /\ Unlists(r, m, h, p)
  BY Zenon, <1>1, RemoveFields DEF Blocks
<1>. HIDE DEF r
<1>4. SameBlocks(r, m) /\ SamePages(r, m)
  BY Zenon, <1>3 DEF Unlists
<1>5. /\ DOMAIN r.hdr = DOMAIN m.hdr /\ a \in DOMAIN r.hdr /\ p \in DOMAIN r.hdr
      /\ r.hdr[p].page_flink = q
  BY <1>1, <1>4 DEF SameBlocks
<1>6. Absorbs(n, r, a, p)
  BY <1>1, <1>3, <1>5, AbsorbFields DEF r
<1>7. n.complete_pages = m.complete_pages
  BY ZenonT(30), <1>4, <1>6 DEF Absorbs, SamePages
<1>8. DOMAIN n.hdr = DOMAIN m.hdr \ {p}
  BY ZenonT(30), <1>5, <1>6 DEF Absorbs
<1>9. a = NULL => m.hdr[a].heap # g
  BY DEF NoneAtNull
<1>10. p \notin Alone(m, g)
  BY <1>2, <1>9 DEF Alone, Standalone
<1>11. ASSUME NEW x \in DOMAIN m.hdr \ {p}, x # a, m.hdr[x].heap = g
       PROVE  /\ n.hdr[x].used = m.hdr[x].used
              /\ n.hdr[x].page_flink = m.hdr[x].page_flink
              /\ n.hdr[x].page_blink = NULL <=> m.hdr[x].page_blink = NULL
  <2>1. /\ n.hdr[x].used = r.hdr[x].used
        /\ n.hdr[x].page_flink = r.hdr[x].page_flink
        /\ n.hdr[x].page_blink = IF x = q /\ x # NULL THEN a ELSE r.hdr[x].page_blink
    <3>1. x \in DOMAIN r.hdr \ {p}
      BY <1>5
    <3>2. /\ n.hdr[x].used = r.hdr[x].used
          /\ n.hdr[x].page_flink = IF x = a THEN r.hdr[p].page_flink ELSE r.hdr[x].page_flink
          /\ n.hdr[x].page_blink = IF x = r.hdr[p].page_flink /\ x # NULL THEN a
                                   ELSE r.hdr[x].page_blink
      BY Zenon, <1>6, <3>1 DEF Absorbs
    <3>. QED
      BY <1>5, <1>11, <3>2
  <2>2. /\ r.hdr[x].used = m.hdr[x].used
        /\ r.hdr[x].page_flink = m.hdr[x].page_flink
        /\ r.hdr[x].page_blink = m.hdr[x].page_blink
    BY <1>4 DEF SameBlocks
  <2>3. CASE x = q /\ x # NULL
    <3>1. m.hdr[x].page_blink = p /\ m.hdr[x].heap = m.hdr[p].heap
      BY <1>1, <2>3, RightOf DEF Blocks
    <3>2. a # NULL
      BY <1>2, <1>9, <1>11, <3>1
    <3>. QED
      BY <1>1, <2>1, <2>2, <2>3, <3>1, <3>2
  <2>4. CASE ~(x = q /\ x # NULL)
    BY <2>1, <2>2, <2>4
  <2>. QED
    BY <2>3, <2>4
<1>12. ASSUME NEW x \in DOMAIN m.hdr \ {p} PROVE n.hdr[x].heap = m.hdr[x].heap
  <2>1. n.hdr[x].heap = r.hdr[x].heap
    BY Zenon, <1>5, <1>6 DEF Absorbs
  <2>2. r.hdr[x].heap = m.hdr[x].heap
    BY <1>4 DEF SameBlocks
  <2>. QED
    BY <2>1, <2>2
<1>13. Alone(n, g) \ {a} = Alone(m, g) \ {a}
  <2>1. ASSUME NEW x PROVE x \in Alone(n, g) \ {a} <=> x \in Alone(m, g) \ {a}
    <3>1. CASE x \in DOMAIN m.hdr \ {p} /\ x # a /\ m.hdr[x].heap = g
      BY <1>8, <1>11, <1>12, <3>1 DEF Alone, Standalone
    <3>2. CASE ~(x \in DOMAIN m.hdr \ {p} /\ x # a /\ m.hdr[x].heap = g)
      BY <1>8, <1>10, <1>12, <3>2 DEF Alone
    <3>. QED
      BY <3>1, <3>2
  <2>. QED
    BY <2>1
<1>. QED
  BY <1>7, <1>13, CountedSame

\* The counters of the heaps, one of which goes up by d.
HeapRaised(c, h, i, d) == [c EXCEPT ![h][i] = (@ + d) % 256]

\* They are bytes still.
LEMMA RaisedBytes ==
  ASSUME NEW c \in [Heaps -> [Classes -> 0..255]], NEW h \in Heaps, NEW index \in Classes,
         NEW d \in Nat
  PROVE  HeapRaised(c, h, index, d) \in [Heaps -> [Classes -> 0..255]]
<1>1. c[h][index] \in Nat
  OBVIOUS
<1>2. \A x, y \in Nat : (x + y) % 256 \in 0..255
  BY ByteSum
<1>3. (c[h][index] + d) % 256 \in 0..255
  BY Zenon, <1>1, <1>2
<1>. QED
  BY <1>3 DEF HeapRaised

\* A counter of a heap goes up by d.
LEMMA CounterMoves ==
  ASSUME NEW c \in [Heaps -> [Classes -> 0..255]], NEW h \in Heaps, NEW index \in Classes,
         NEW d \in Nat, NEW k, k = HeapRaised(c, h, index, d), NEW g \in Heaps
  PROVE  /\ k \in [Heaps -> [Classes -> 0..255]] /\ Total(c[g]) \in 0..255
         /\ Total(k[g]) = IF g = h THEN (Total(c[g]) + d) % 256 ELSE Total(c[g])
<1>. DEFINE b == c[g]
            e == Raised(c[h], index, d)
<1>1. b \in [Classes -> 0..255] /\ c[h] \in [Classes -> 0..255]
  OBVIOUS
<1>2. k = [c EXCEPT ![h] = e]
  BY DEF HeapRaised, Raised
<1>. HIDE DEF b
<1>4. Total(b) \in 0..255
  BY Zenon, <1>1, TotalChanged
<1>5. Total(e) = (Total(c[h]) + d) % 256
  <2>1. PICK f \in [Classes -> 0..255] : f = c[h]
    BY <1>1
  <2>2. Total(Raised(f, index, d)) = (Total(f) + d) % 256
    BY <2>1, TotalChanged
  <2>. QED
    BY <2>1, <2>2
<1>. HIDE DEF e
<1>6. k \in [Heaps -> [Classes -> 0..255]]
  BY Zenon, RaisedBytes
<1>7. CASE g = h
  <2>1. k[g] = e
    BY <1>2, <1>7
  <2>. QED
    BY Zenon, <1>4, <1>5, <1>6, <1>7, <2>1 DEF b
<1>8. CASE g # h
  <2>1. k[g] = c[g]
    BY <1>2, <1>8
  <2>. QED
    BY Zenon, <1>4, <1>6, <1>8, <2>1 DEF b
<1>. QED
  BY <1>7, <1>8

\* One more, of the right heap or of another.
LEMMA CountedUp ==
  ASSUME NEW m, MemoryOK(m), NEW r, NEW h \in Heaps, NEW index \in Classes,
         NEW a \in DOMAIN m.hdr, m.hdr[a].heap = h, a \in Alone(m, h),
         r.complete_pages = HeapRaised(m.complete_pages, h, index, 1),
         NEW g \in Heaps, Alone(r, g) = Alone(m, g), Counted(m, {a}, g)
  PROVE  Counted(r, {}, g)
<1>. DEFINE c == m.complete_pages
            k == r.complete_pages
            A == Alone(m, g)
<1>1. /\ Total(c[g]) \in 0..255
      /\ Total(k[g]) = IF g = h THEN (Total(c[g]) + 1) % 256 ELSE Total(c[g])
  <2>1. c \in [Heaps -> [Classes -> 0..255]] /\ 1 \in Nat
    BY DEF MemoryOK
  <2>2. k = HeapRaised(c, h, index, 1)
    OBVIOUS
  <2>. HIDE DEF c, k
  <2>. QED
    BY SMTT(30), <2>1, <2>2, CounterMoves
<1>2. Total(c[g]) = Cardinality(A \ {a}) % 256 /\ Alone(r, g) \ {} = A
  BY DEF Counted
<1>3. IsFiniteSet(A) /\ Cardinality(A \ {a}) \in Nat
  <2>1. IsFiniteSet(Alone(m, g) \ {})
    BY Zenon, AloneFinite
  <2>2. Cardinality(Alone(m, g) \ {a}) \in Nat
    BY Zenon, AloneFinite
  <2>. QED
    BY <2>1, <2>2
<1>. HIDE DEF c, k, A
<1>4. CASE g = h
  <2>1. a \in A
    BY <1>4 DEF A
  <2>2. Cardinality(A) = Cardinality(A \ {a}) + 1
    <3>1. Cardinality(A \ {a}) = Cardinality(A) - 1
      BY <1>3, <2>1, FS_RemoveElement
    <3>2. Cardinality(A) \in Nat
      BY <1>3, FS_CardinalityType
    <3>. QED
      BY <3>1, <3>2
  <2>3. ((Cardinality(A \ {a}) % 256) + 1) % 256 = (Cardinality(A \ {a}) + 1) % 256
    <3>1. PICK n \in Nat : n = Cardinality(A \ {a})
      BY <1>3
    <3>2. n \in Nat
      BY <3>1
    <3>3. ((n % 256) + 1) % 256 = (n + 1) % 256
      BY SMTT(30), <3>2
    <3>. QED
      BY Zenon, <3>1, <3>3
  <2>4. Total(k[g]) = Cardinality(A) % 256
    BY Zenon, <1>1, <1>2, <1>4, <2>2, <2>3
  <2>. QED
    BY Zenon, <1>2, <2>4 DEF Counted, k
<1>5. CASE g # h
  <2>1. a \notin A
    BY <1>5 DEF A, Alone
  <2>2. A \ {a} = A
    BY <2>1
  <2>3. Total(k[g]) = Cardinality(A) % 256
    BY Zenon, <1>1, <1>2, <1>5, <2>2
  <2>. QED
    BY Zenon, <1>2, <2>3 DEF Counted, k
<1>. QED
  BY <1>4, <1>5

\* One less.
LEMMA CountedDown ==
  ASSUME NEW m, MemoryOK(m), NEW r, NEW h \in Heaps, NEW index \in Classes,
         NEW a \in DOMAIN m.hdr, m.hdr[a].heap = h, a \in Alone(m, h),
         r.complete_pages = HeapRaised(m.complete_pages, h, index, 255),
         NEW g \in Heaps, Alone(r, g) = Alone(m, g) \ {a}, Counted(m, {}, g)
  PROVE  Counted(r, {}, g)
<1>. DEFINE c == m.complete_pages
            k == r.complete_pages
            A == Alone(m, g)
<1>1. /\ Total(c[g]) \in 0..255
      /\ Total(k[g]) = IF g = h THEN (Total(c[g]) + 255) % 256 ELSE Total(c[g])
  <2>1. c \in [Heaps -> [Classes -> 0..255]] /\ 255 \in Nat
    BY DEF MemoryOK
  <2>2. k = HeapRaised(c, h, index, 255)
    OBVIOUS
  <2>. HIDE DEF c, k
  <2>. QED
    BY SMTT(30), <2>1, <2>2, CounterMoves
<1>2. /\ Total(c[g]) = Cardinality(A) % 256 /\ Alone(r, g) \ {} = A \ {a}
  <2>1. A \ {} = A
    OBVIOUS
  <2>. QED
    BY <2>1 DEF Counted
<1>3. IsFiniteSet(A) /\ Cardinality(A \ {a}) \in Nat
  <2>1. IsFiniteSet(Alone(m, g) \ {})
    BY Zenon, AloneFinite
  <2>2. Cardinality(Alone(m, g) \ {a}) \in Nat
    BY Zenon, AloneFinite
  <2>. QED
    BY <2>1, <2>2
<1>. HIDE DEF c, k, A
<1>4. CASE g = h
  <2>1. a \in A
    BY <1>4 DEF A
  <2>2. Cardinality(A) = Cardinality(A \ {a}) + 1
    <3>1. Cardinality(A \ {a}) = Cardinality(A) - 1
      BY <1>3, <2>1, FS_RemoveElement
    <3>2. Cardinality(A) \in Nat
      BY <1>3, FS_CardinalityType
    <3>. QED
      BY <3>1, <3>2
  <2>3. (((Cardinality(A \ {a}) + 1) % 256) + 255) % 256 = Cardinality(A \ {a}) % 256
    <3>1. PICK n \in Nat : n = Cardinality(A \ {a})
      BY <1>3
    <3>2. n \in Nat
      BY <3>1
    <3>3. (((n + 1) % 256) + 255) % 256 = n % 256
      BY SMTT(30), <3>2
    <3>. QED
      BY Zenon, <3>1, <3>3
  <2>4. Total(k[g]) = Cardinality(A \ {a}) % 256
    BY Zenon, <1>1, <1>2, <1>4, <2>2, <2>3
  <2>. QED
    BY Zenon, <1>2, <2>4 DEF Counted, k
<1>5. CASE g # h
  <2>1. a \notin A
    BY <1>5 DEF A, Alone
  <2>2. A \ {a} = A
    BY <2>1
  <2>3. Total(k[g]) = Cardinality(A \ {a}) % 256
    BY Zenon, <1>1, <1>2, <1>5, <2>2
  <2>. QED
    BY Zenon, <1>2, <2>3 DEF Counted, k
<1>. QED
  BY <1>4, <1>5

\* The end of free: a run of pages that is put in a list is counted, one that is given
\* back is not.
LEMMA GiveBackCounts ==
  ASSUME NEW m, Blocks(m), NEW a \in DOMAIN m.hdr, ~m.hdr[a].used,
         NEW h \in Heaps, h = m.hdr[a].heap, NEW index \in Classes,
         NEW r, r = GiveBack(m, h, a, index), r.status = "running",
         NEW g \in Heaps, NoneAtNull(m, {g}), Counted(m, {a}, g)
  PROVE  Counted(r, {}, g)
<1>1. MemoryOK(m) /\ a \in Nat
  BY HeadersOf DEF Blocks
<1>2. CASE ~Standalone(m, a)
  <2>1. r = HeapInsertUnused(m, h, a)
    BY <1>2 DEF GiveBack
  <2>2. SameBlocks(r, m) /\ r.complete_pages = m.complete_pages
    <3>1. Inserted(r, m, h, a)
      BY <2>1, InsertGood
    <3>. QED
      BY <3>1 DEF Inserted
  <2>3. Alone(r, g) \ {} = Alone(m, g) \ {a}
    <3>1. a \notin Alone(m, g)
      BY <1>2 DEF Alone
    <3>. QED
      BY <2>2, <3>1, SameAlone
  <2>. QED
    BY <2>2, <2>3, CountedSame
<1>3. CASE Standalone(m, a) /\ ~TooMany(m, h, index)
  <2>. DEFINE c == [m EXCEPT !.complete_pages[h][index] = (@ + 1) % 256]
              k == HeapRaised(m.complete_pages, h, index, 1)
  <2>1. r = HeapInsertUnused(c, h, a)
    BY Zenon, <1>3 DEF GiveBack
  <2>2. k \in [Heaps -> [Classes -> 0..255]]
    <3>1. m.complete_pages \in [Heaps -> [Classes -> 0..255]] /\ 1 \in Nat
      BY <1>1 DEF MemoryOK
    <3>2. k = HeapRaised(m.complete_pages, h, index, 1)
      OBVIOUS
    <3>. HIDE DEF c, k
    <3>. QED
      BY <3>1, <3>2, RaisedBytes
  <2>3. c = [m EXCEPT !.complete_pages = k]
    BY DEF HeapRaised
  <2>. HIDE DEF c, k
  <2>4. MemoryOK(c) /\ c.hdr = m.hdr /\ c.free_blocks = m.free_blocks /\ c.complete_pages = k
    BY <1>1, <2>2, <2>3, WithCounters
  <2>5. Blocks(c)
    BY <2>4, SameHeaders
  <2>6. SameBlocks(r, c) /\ r.complete_pages = k
    BY <2>1, <2>4, <2>5, InsertGood DEF Inserted
  <2>7. Alone(r, g) = Alone(m, g)
    <3>1. Alone(r, g) = Alone(c, g)
      BY <2>6, SameAlone
    <3>2. Alone(c, g) = Alone(m, g)
      BY <2>4 DEF Alone, Standalone
    <3>. QED
      BY <3>1, <3>2
  <2>8. a \in Alone(m, h)
    BY <1>3 DEF Alone
  <2>9. r.complete_pages = HeapRaised(m.complete_pages, h, index, 1)
    BY <2>6 DEF k
  <2>. QED
    BY <1>1, <2>7, <2>8, <2>9, CountedUp
<1>4. CASE Standalone(m, a) /\ TooMany(m, h, index) /\ a % PageSize # 0
  <2>1. r = m
    BY <1>4 DEF GiveBack
  <2>2. a # NULL
    BY <1>4, Constants DEF NULL
  <2>3. NULL \in DOMAIN m.hdr /\ m.hdr[NULL].page_flink = a
    BY <1>4 DEF Standalone, Blocks, Tiled
  <2>4. m.hdr[NULL].heap = m.hdr[a].heap
    BY <2>2, <2>3, RightOf DEF Blocks
  <2>5. a \notin Alone(m, g)
    BY <2>3, <2>4 DEF NoneAtNull, Alone
  <2>6. Alone(r, g) \ {} = Alone(m, g) \ {a}
    BY <2>1, <2>5
  <2>. QED
    BY <2>1, <2>6, CountedSame
<1>5. CASE Standalone(m, a) /\ TooMany(m, h, index) /\ a % PageSize = 0
  <2>. DEFINE pages == SizeToPages(m.hdr[a].size)
              without == [m EXCEPT !.hdr = [x \in DOMAIN @ \ {a} |-> @[x]]]
              page == a \div PageSize
  <2>1. r = PageUnmap(without, page, pages)
    BY <1>5 DEF GiveBack
  <2>2. page \in Nat /\ pages \in Nat
    <3>1. m.hdr[a].size \in Nat
      BY <1>1, HeadersOf
    <3>2. PageSize \in Nat \ {0}
      BY Constants
    <3>. QED
      BY <1>1, <3>1, <3>2, PagesNeeded, Division
  <2>3. /\ MemoryOK(without) /\ SamePages(without, m)
        /\ DOMAIN without.hdr = DOMAIN m.hdr \ {a}
        /\ \A x \in DOMAIN m.hdr \ {a} : without.hdr[x] = m.hdr[x]
    BY <1>1, HeaderGone
  <2>. HIDE DEF without, pages, page
  <2>4. r.hdr = without.hdr /\ r.complete_pages = m.complete_pages
    BY <2>1, <2>2, <2>3, PageUnmapKeeps DEF SamePages
  <2>5. Alone(r, g) \ {} = Alone(m, g) \ {a}
    BY <2>3, <2>4 DEF Alone, Standalone
  <2>. QED
    BY <2>4, <2>5, CountedSame
<1>. QED
  BY <1>2, <1>3, <1>4, <1>5

\* No block of a heap lies at address 0 if the lists of the heap mean something.
LEMMA FilesAboveNull ==
  ASSUME NEW m, NEW E, NEW sound, Files(m, E, sound)
  PROVE  NoneAtNull(m, sound)
BY DEF Files, FilesBut

\* heap_melt_left.
LEMMA MeltCounts ==
  ASSUME NEW m, Blocks(m), NEW a \in DOMAIN m.hdr, ~m.hdr[a].used, NoPair(m, {a}),
         NEW h \in Heaps, NEW at, at = HeapMeltLeft(m, h, a), NEW g, Counted(m, {a}, g)
  PROVE  Counted(at.m, {at.a}, g)
<1>. DEFINE p == m.hdr[a].page_blink
<1>1. Short(m, "page_blink") /\ (~Stops(m, a, "page_blink") => Stops(m, m.hdr[a].page_blink, "page_blink"))
  BY ShortLeft
<1>2. Unused(m, a, "page_blink") = IF Stops(m, a, "page_blink") THEN <<>> ELSE <<p>>
  BY <1>1, UnusedNext
<1>3. CASE Stops(m, a, "page_blink")
  <2>1. at.m = m /\ at.a = a
    BY <1>2, <1>3, MeltLeftIs
  <2>. QED
    BY <2>1
<1>4. CASE ~Stops(m, a, "page_blink")
  <2>1. at = [m |-> HeapRemoveHeader(Absorb(m, p, a), h, p), a |-> p]
    BY <1>2, <1>4, MeltLeftIs
  <2>2. at.m = HeapRemoveHeader(Absorb(m, p, a), h, p) /\ at.a = p
    BY <2>1
  <2>3. PICK n : n = at.m
    OBVIOUS
  <2>. HIDE DEF p
  <2>4. p = m.hdr[a].page_blink
    BY DEF p
  <2>5. Counted(n, {p}, g)
    BY <1>4, <2>2, <2>3, <2>4, MeltStepCounts
  <2>. QED
    BY <2>2, <2>3, <2>5
<1>. QED
  BY <1>3, <1>4

\* heap_eat_right.
LEMMA EatCounts ==
  ASSUME NEW m, Blocks(m), NEW a \in DOMAIN m.hdr, ~m.hdr[a].used, NoPair(m, {a}),
         NEW h \in Heaps, NEW n, n = HeapEatRight(m, h, a),
         NEW g, NoneAtNull(m, {g}), Counted(m, {a}, g)
  PROVE  Counted(n, {a}, g)
<1>. DEFINE p == m.hdr[a].page_flink
<1>1. Short(m, "page_flink") /\ (~Stops(m, a, "page_flink") => Stops(m, m.hdr[a].page_flink, "page_flink"))
  BY ShortRight
<1>2. Unused(m, a, "page_flink") = IF Stops(m, a, "page_flink") THEN <<>> ELSE <<p>>
  BY <1>1, UnusedNext
<1>3. CASE Stops(m, a, "page_flink")
  <2>1. n = m
    BY <1>2, <1>3, EatRightIs
  <2>. QED
    BY <2>1
<1>4. CASE ~Stops(m, a, "page_flink")
  <2>1. n = Absorb(HeapRemoveHeader(m, h, p), a, p)
    BY <1>2, <1>4, EatRightIs
  <2>. HIDE DEF p
  <2>2. p = m.hdr[a].page_flink
    BY DEF p
  <2>. QED
    BY <1>4, <2>1, <2>2, EatStepCounts
<1>. QED
  BY <1>3, <1>4

\* free and free_3, for a block of their heap.
LEMMA FreeCounts ==
  ASSUME NEW m, Blocks(m), NoPair(m, {}), NEW a \in DOMAIN m.hdr, m.hdr[a].used,
         m.hdr[a].size > S, NEW h \in Heaps, h = m.hdr[a].heap,
         NEW r, r = Free(m, h, a), r.status = "running",
         NEW g \in Heaps, Files(m, {}, {g}), Counted(m, {}, g)
  PROVE  Counted(r, {}, g)
<1>. DEFINE index == HeapGetIndex(m.hdr[a].size - S)
            m1 == [m EXCEPT !.hdr[a].used = FALSE]
            at == HeapMeltLeft(m1, h, a)
            m3 == HeapEatRight(at.m, h, at.a)
<1>1. r = GiveBack(m3, h, at.a, index)
  BY DEF Free
<1>2. index \in Classes
  <2>1. m.hdr[a].size # S
    <3>1. m.hdr[a].size \in Nat
      BY HeadersOf DEF Blocks
    <3>. QED
      BY <3>1, Constants
  <2>. QED
    BY <2>1, ClassOfBlock
<1>3. /\ Blocks(m1) /\ NoPair(m1, {a})
      /\ a \in DOMAIN m1.hdr /\ ~m1.hdr[a].used /\ m1.hdr[a].heap = m.hdr[a].heap
      /\ Files(m1, {a}, {g})
  BY MarkFree
<1>4. Counted(m1, {a}, g)
  BY MarkCounts
<1>. HIDE DEF m1, index
<1>5. Melted(at, m1, h, a)
  BY <1>3, Melt
<1>. DEFINE m2 == at.m
            p == at.a
<1>6. m3 = HeapEatRight(m2, h, p)
  OBVIOUS
<1>7. /\ Blocks(m2) /\ NoPair(m2, {p})
      /\ p \in DOMAIN m2.hdr /\ ~m2.hdr[p].used /\ m2.hdr[p].heap = h
      /\ Stops(m2, p, "page_blink") /\ Files(m2, {p}, {g})
  BY <1>3, <1>5 DEF Melted
<1>8. Counted(m2, {p}, g)
  BY <1>3, <1>4, MeltCounts
<1>9. r = GiveBack(m3, h, p, index)
  BY <1>1
<1>. HIDE DEF at, m2, p, m3
<1>10. /\ Blocks(m3) /\ p \in DOMAIN m3.hdr /\ ~m3.hdr[p].used /\ m3.hdr[p].heap = h
       /\ Files(m3, {p}, {g})
  <2>1. Eaten(m3, m2, h, p)
    BY <1>6, <1>7, Eat
  <2>. QED
    BY <1>7, <2>1 DEF Eaten
<1>11. Counted(m3, {p}, g)
  <2>1. NoneAtNull(m2, {g})
    BY <1>7, FilesAboveNull
  <2>. QED
    BY <1>6, <1>7, <1>8, <2>1, EatCounts
<1>. QED
  <2>1. NoneAtNull(m3, {g})
    BY <1>10, FilesAboveNull
  <2>. QED
    BY <1>2, <1>9, <1>10, <1>11, <2>1, GiveBackCounts

\* kmalloc takes a block from a list: if it is a run of pages it is counted no more.
LEMMA ReuseCounts ==
  ASSUME NEW m, Blocks(m), NEW a \in DOMAIN m.hdr, ~m.hdr[a].used,
         NEW h, h = m.hdr[a].heap, NEW size \in Nat,
         NEW r, r = Reuse(m, h, a, size), NEW g \in Heaps, Counted(m, {}, g)
  PROVE  Counted(r, {}, g)
<1>. DEFINE m1 == [m EXCEPT !.hdr[a].used = TRUE, !.hdr[a].req = size]
            n == HeapRemoveHeader(m1, h, a)
            index == m.hdr[a].index
            k == HeapRaised(n.complete_pages, h, index, 255)
            c == [n EXCEPT !.complete_pages = k]
<1>1. MemoryOK(m) /\ h \in Heaps /\ index \in Classes
  BY HeadersOf DEF Blocks
<1>2. MemoryOK(m1) /\ Marks(m1, m, a, TRUE, size)
  BY Zenon, <1>1, MarkUsed
<1>3. r = IF Standalone(m, a) THEN c ELSE n
  BY Zenon DEF Reuse, HeapRaised
<1>. HIDE DEF m1, index, k
<1>4. a \in DOMAIN m1.hdr /\ DOMAIN m1.hdr = DOMAIN m.hdr
  BY <1>2 DEF Marks
<1>5. MemoryOK(n) /\ Unlists(n, m1, h, a)
  BY <1>1, <1>2, <1>4, RemoveFields
<1>. HIDE DEF n
<1>6. SameBlocks(n, m1) /\ n.complete_pages = m.complete_pages
  BY Zenon, <1>2, <1>5 DEF Unlists, SamePages, Marks
<1>7. Alone(n, g) = Alone(m, g) \ {a}
  <2>1. Alone(n, g) = Alone(m1, g)
    BY <1>6, SameAlone
  <2>2. ASSUME NEW x \in DOMAIN m.hdr
        PROVE  /\ m1.hdr[x].used = IF x = a THEN TRUE ELSE m.hdr[x].used
               /\ m1.hdr[x].heap = m.hdr[x].heap
               /\ m1.hdr[x].page_flink = m.hdr[x].page_flink
               /\ m1.hdr[x].page_blink = m.hdr[x].page_blink
    BY Zenon, <1>2 DEF Marks
  <2>3. Alone(m1, g) = Alone(m, g) \ {a}
    BY <1>4, <2>2 DEF Alone, Standalone
  <2>. QED
    BY <2>1, <2>3
<1>8. CASE Standalone(m, a)
  <2>1. k \in [Heaps -> [Classes -> 0..255]]
    <3>1. n.complete_pages \in [Heaps -> [Classes -> 0..255]] /\ 255 \in Nat
      BY <1>5 DEF MemoryOK
    <3>2. k = HeapRaised(n.complete_pages, h, index, 255)
      BY DEF k
    <3>. QED
      BY <1>1, <3>1, <3>2, RaisedBytes
  <2>2. c.hdr = n.hdr /\ c.complete_pages = k
    BY <1>5, <2>1, WithCounters
  <2>. HIDE DEF c
  <2>3. r = c
    BY <1>3, <1>8
  <2>4. Alone(r, g) = Alone(m, g) \ {a}
    BY <1>7, <2>2, <2>3 DEF Alone, Standalone
  <2>5. r.complete_pages = HeapRaised(m.complete_pages, h, index, 255)
    BY <1>6, <2>2, <2>3 DEF k
  <2>6. a \in Alone(m, h)
    BY <1>8 DEF Alone
  <2>. QED
    BY <1>1, <2>4, <2>5, <2>6, CountedDown
<1>9. CASE ~Standalone(m, a)
  <2>1. r = n
    BY <1>3, <1>9
  <2>2. a \notin Alone(m, g)
    BY <1>9 DEF Alone
  <2>3. Alone(r, g) \ {} = Alone(m, g) \ {}
    BY <1>7, <2>1, <2>2
  <2>. QED
    BY <1>6, <2>1, <2>3, CountedSame
<1>. QED
  BY <1>8, <1>9

\* heap_split_header: what it cuts off has a neighbour on the left.
LEMMA SplitCounts ==
  ASSUME NEW m, Blocks(m), NEW a \in DOMAIN m.hdr, m.hdr[a].used,
         NEW h, h = m.hdr[a].heap, Stops(m, a, "page_flink"),
         m.hdr[a].size >= m.hdr[a].req + S,
         NEW rest, rest = m.hdr[a].size - m.hdr[a].req - S,
         NEW new, new = a + S + m.hdr[a].req,
         a = NULL /\ rest >= S => new % PageSize # 0 /\ (new % PageSize) + rest <= PageSize,
         NEW r, r = HeapSplitHeader(m, h, a), r.status = "running",
         NEW g, NoneAtNull(m, {g}), Counted(m, {}, g)
  PROVE  Counted(r, {}, g)
<1>. DEFINE q == m.hdr[a].page_flink
<1>1. /\ a \in Nat /\ m.hdr[a].size \in Nat /\ m.hdr[a].req \in Nat /\ S = 1 /\ NULL = 0
      /\ h \in Heaps /\ MemoryOK(m) /\ q \in Nat
  BY HeadersOf, Constants DEF Blocks
<1>2. rest \in Nat /\ new \in Nat
  BY <1>1
<1>3. CASE S > rest
  <2>1. r = m
    BY Zenon, <1>3 DEF HeapSplitHeader
  <2>. QED
    BY <2>1
<1>4. CASE ~(S > rest)
  <2>. DEFINE c == Cut(m, h, a)
  <2>1. r = HeapInsertUnused(c, h, new)
    BY Zenon, <1>4 DEF HeapSplitHeader, Cut
  <2>2. rest >= S
    BY <1>1, <1>2, <1>4
  <2>3. new \notin DOMAIN m.hdr
    BY <2>2, CutPlace
  <2>4. MemoryOK(c) /\ Cuts(c, m, h, a)
    BY <1>1, <2>2, <2>3, CutFields
  <2>. HIDE DEF c
  <2>5. Blocks(c)
    BY <2>2, <2>4, CutTiled
  <2>6. /\ c.complete_pages = m.complete_pages
        /\ DOMAIN c.hdr = DOMAIN m.hdr \cup {new}
        /\ c.hdr[new] = Header(rest, rest - S, a, q, 0, h, FALSE)
    BY <2>4 DEF Cuts, SamePages
  <2>7. ~c.hdr[new].used /\ c.hdr[new].heap = h /\ c.hdr[new].page_blink = a
    BY <2>6 DEF Header
  <2>8. Inserted(r, c, h, new)
    <3>1. new \in DOMAIN c.hdr
      BY <2>6
    <3>. QED
      BY <1>1, <2>1, <2>5, <2>7, <3>1, InsertGood
  <2>9. SameBlocks(r, c) /\ r.complete_pages = m.complete_pages
    BY <2>6, <2>7, <2>8 DEF Inserted
  <2>10. Alone(r, g) = Alone(c, g)
    BY <2>9, SameAlone
  <2>11. new \notin Alone(c, g)
    <3>1. a = NULL => h # g
      BY DEF NoneAtNull
    <3>. QED
      BY <2>7, <3>1 DEF Alone, Standalone
  <2>12. ASSUME NEW x \in DOMAIN m.hdr
         PROVE  /\ c.hdr[x].used = m.hdr[x].used /\ c.hdr[x].heap = m.hdr[x].heap
                /\ ~m.hdr[x].used => /\ c.hdr[x].page_flink = m.hdr[x].page_flink
                                     /\ c.hdr[x].page_blink = m.hdr[x].page_blink
    <3>1. /\ c.hdr[x].used = m.hdr[x].used /\ c.hdr[x].heap = m.hdr[x].heap
          /\ c.hdr[x].page_flink = IF x = a THEN new ELSE m.hdr[x].page_flink
          /\ c.hdr[x].page_blink = IF x = q /\ x # NULL THEN new ELSE m.hdr[x].page_blink
      BY <2>4 DEF Cuts
    <3>2. ~m.hdr[x].used => x # a /\ ~(x = q /\ x # NULL)
      BY DEF Stops
    <3>. QED
      BY <3>1, <3>2
  <2>13. Alone(c, g) = Alone(m, g)
    <3>1. ASSUME NEW x PROVE x \in Alone(c, g) <=> x \in Alone(m, g)
      <4>1. CASE x \in DOMAIN m.hdr
        BY <2>6, <2>12, <4>1 DEF Alone, Standalone
      <4>2. CASE x \notin DOMAIN m.hdr
        BY <2>6, <2>11, <4>2 DEF Alone
      <4>. QED
        BY <4>1, <4>2
    <3>. QED
      BY <3>1
  <2>14. Alone(r, g) \ {} = Alone(m, g) \ {}
    BY <2>10, <2>13
  <2>. QED
    BY <2>9, <2>14, CountedSame
<1>. QED
  BY <1>3, <1>4

\* Pages that are free are mapped for a block, which is in use.
LEMMA NewRunCounts ==
  ASSUME NEW m, Blocks(m), \A u \in UnitsOf(m) : u \div PageSize \in m.mapped,
         NEW h \in Heaps, NEW size,
         NEW n \in 1..127, NEW c, NewBlock(c, n, h, size), NEW page, RoomAt(m, page, n, h),
         NEW r, r = WithHeader(PageMapAt(m, page, n), PageSize * page, c),
         NEW g, Counted(m, {}, g)
  PROVE  Counted(r, {}, g)
<1>. DEFINE m1 == PageMapAt(m, page, n)
            a == PageSize * page
<1>1. MemoryOK(m) /\ n \in Nat /\ page \in Pages /\ Run(page, n) \cap m.mapped = {}
  BY DEF Blocks, RoomAt
<1>2. c \in HeaderType /\ c.used
  BY DEF NewBlock
<1>3. MemoryOK(m1) /\ m1.hdr = m.hdr /\ m1.complete_pages = m.complete_pages
  BY <1>1, PageMapAtKeeps
<1>4. page \in Nat /\ PageSize \in Nat /\ PageSize >= 1
  BY <1>1, PagesNatural, Constants
<1>5. a \in Nat /\ a \div PageSize = page
  <2>1. a \in Nat
    BY <1>4
  <2>2. PageSize * page <= a /\ a < PageSize * page + PageSize /\ PageSize \in Nat \ {0}
    BY <1>4
  <2>. HIDE DEF a
  <2>. QED
    BY <1>4, <2>1, <2>2, Quotient
<1>6. r = WithHeader(m1, a, c)
  OBVIOUS
<1>. HIDE DEF m1
<1>7. a \notin DOMAIN m.hdr
  <2>. SUFFICES ASSUME a \in DOMAIN m.hdr PROVE FALSE
    OBVIOUS
  <2>1. a \in a..(a + m.hdr[a].size - 1)
    <3>1. m.hdr[a].size \in Nat \ {0}
      BY <1>1, HeadersOf
    <3>. HIDE DEF a
    <3>. QED
      BY <1>5, <3>1
  <2>2. a \in UnitsOf(m)
    <3>. HIDE DEF a
    <3>. QED
      BY <2>1, UnitOf
  <2>3. page \in m.mapped
    <3>. HIDE DEF a
    <3>. QED
      BY <1>5, <2>2
  <2>4. page \in Run(page, n)
    BY <1>4 DEF Run
  <2>. QED
    BY <1>1, <2>3, <2>4
<1>. HIDE DEF a
<1>8. /\ SamePages(r, m1) /\ DOMAIN r.hdr = DOMAIN m.hdr \cup {a} /\ r.hdr[a] = c
      /\ \A x \in DOMAIN m.hdr \ {a} : r.hdr[x] = m.hdr[x]
  BY SMTT(30), <1>2, <1>3, <1>5, <1>6, NewHeader
<1>9. Alone(r, g) \ {} = Alone(m, g) \ {}
  BY <1>2, <1>7, <1>8 DEF Alone, Standalone
<1>10. r.complete_pages = m.complete_pages
  BY <1>3, <1>8 DEF SamePages
<1>. QED
  BY <1>9, <1>10, CountedSame

\* heap_allocate_header.
LEMMA AllocateCounts ==
  ASSUME NEW m, Blocks(m), m.status = "running",
         \A u \in UnitsOf(m) : u \div PageSize \in m.mapped,
         NEW h \in Heaps, NEW size \in Nat \ {0},
         SizeToPages(size + S) <= TableSize, SizeToPages(size + S) < 128,
         NEW got, got = HeapAllocateHeader(m, h, size), got.m.status = "running",
         NEW g, Counted(m, {}, g)
  PROVE  Counted(got.m, {}, g)
<1>. DEFINE n == SizeToPages(size + S)
            free == PageGetFreeAddr(m, n, h = "kernel")
            c == Header(n * PageSize, size, NULL, NULL, HeapGetIndex(n * PageSize - S), h, TRUE)
<1>1. got.m = WithHeader(PageMapAt(free.m, free.page, n), PageSize * free.page, c)
  BY DEF HeapAllocateHeader
<1>2. MemoryOK(m)
  BY DEF Blocks
<1>3. /\ n \in 1..TableSize /\ n \in 1..127 /\ n \in Nat
      /\ NewBlock(c, n, h, size)
  BY NewBlockOK
<1>. HIDE DEF n, c
<1>4. free = PageGetFreeAddr(m, n, h = "kernel")
  OBVIOUS
<1>. HIDE DEF free
<1>5. CASE free.m = m /\ RoomAt(m, free.page, n, h)
  <2>1. PICK page : page = free.page
    OBVIOUS
  <2>2. got.m = WithHeader(PageMapAt(m, page, n), PageSize * page, c)
    BY <1>1, <1>5, <2>1
  <2>3. n \in 1..127 /\ NewBlock(c, n, h, size) /\ RoomAt(m, page, n, h)
    BY <1>3, <1>5, <2>1
  <2>4. PICK r : r = got.m
    OBVIOUS
  <2>5. Counted(r, {}, g)
    BY <2>2, <2>3, <2>4, NewRunCounts
  <2>. QED
    BY <2>4, <2>5
<1>6. CASE /\ MemoryOK(free.m) /\ free.m.mapped = m.mapped /\ free.page \in Pages
           /\ free.m.status = "selfmap"
  <2>. DEFINE m1 == PageMapAt(free.m, free.page, n)
  <2>1. MemoryOK(m1) /\ m1.status \in {"fault", "selfmap"}
    BY <1>3, <1>6, PageMapAtKeeps
  <2>2. PageSize * free.page \in Nat
    <3>1. free.page \in Nat /\ PageSize \in Nat
      BY <1>6, PagesNatural, Constants
    <3>. HIDE DEF m1
    <3>. QED
      BY <3>1
  <2>3. got.m = WithHeader(m1, PageSize * free.page, c) /\ c \in HeaderType
    BY <1>1, <1>3 DEF NewBlock
  <2>. HIDE DEF m1
  <2>4. SamePages(got.m, m1)
    BY <2>1, <2>2, <2>3, NewHeader
  <2>. QED
    BY <2>1, <2>4 DEF SamePages
<1>. QED
  <2>1. n \in 1..TableSize
    BY <1>3
  <2>. QED
    BY <1>2, <1>4, <1>5, <1>6, <2>1, FreeAddr

\* kmalloc has got a block, and splits it.
LEMMA TakenCounts ==
  ASSUME NEW m, NEW n, NEW a, NEW h, NEW size \in Nat, Taken(n, m, a, h, size),
         NEW r, r = HeapSplitHeader(n, h, a), r.status = "running",
         NEW g, NoneAtNull(n, {g}), Counted(n, {}, g)
  PROVE  Counted(r, {}, g)
<1>1. /\ Blocks(n) /\ a \in DOMAIN n.hdr /\ n.hdr[a].used /\ Stops(n, a, "page_flink")
  BY DEF Taken
<1>2. n.hdr[a].req = size /\ n.hdr[a].heap = h /\ n.hdr[a].size >= size + S
  BY DEF Taken, AddsUsed
<1>3. PICK rest, new : /\ rest = n.hdr[a].size - n.hdr[a].req - S
                       /\ new = a + S + n.hdr[a].req
  OBVIOUS
<1>4. a = NULL /\ rest >= S => new % PageSize # 0 /\ (new % PageSize) + rest <= PageSize
  <2>. SUFFICES ASSUME a = NULL, rest >= S
                PROVE  new % PageSize # 0 /\ (new % PageSize) + rest <= PageSize
    OBVIOUS
  <2>1. new = size + S /\ rest = n.hdr[a].size - size - S
    BY <1>2, <1>3, Constants
  <2>. QED
    BY <2>1 DEF Taken
<1>. QED
  BY <1>1, <1>2, <1>3, <1>4, SplitCounts

\* kmalloc and malloc.
LEMMA KmallocCounts ==
  ASSUME NEW m, Blocks(m), NoPair(m, {}), m.status = "running",
         \A u \in UnitsOf(m) : u \div PageSize \in m.mapped,
         NEW h \in Heaps, NEW size \in Nat \ {0},
         SizeToPages(size + S) <= TableSize, SizeToPages(size + S) < 128,
         NEW got, got = Kmalloc(m, h, size), got.m.status = "running",
         NEW g \in Heaps, h = "user" /\ g = "user" => 0 \in m.mapped,
         Files(m, {}, {g}), Counted(m, {}, g)
  PROVE  Counted(got.m, {}, g)
<1>. DEFINE index == HeapGetIndex(size)
            list == FreeList(m, h, index)
            fitting == {i \in 1..Len(list) : Fits(m, list[i], size)}
            new == HeapAllocateHeader(m, h, size)
            a == list[Min(fitting)]
            old == [m |-> Reuse(m, h, a, size), a |-> a]
            take == IF fitting = {} THEN new ELSE old
<1>1. got = IF take.m.status # "running" THEN take
            ELSE [take EXCEPT !.m = HeapSplitHeader(take.m, h, take.a)]
  BY DEF Kmalloc
<1>2. index \in Classes
  BY FittingClass
<1>. HIDE DEF index
<1>3. /\ list \in Seq(DOMAIN m.hdr) /\ Len(list) \in Nat
      /\ \A i \in 1..Len(list) :
           /\ list[i] \in DOMAIN m.hdr /\ list[i] # NULL /\ ~m.hdr[list[i]].used
           /\ m.hdr[list[i]].heap = h
  BY <1>2, FreeListUnused DEF Blocks, Files, FilesBut
<1>. HIDE DEF list
<1>4. h = "user" /\ "user" \in {g} => 0 \in m.mapped
  OBVIOUS
<1>5. CASE fitting = {}
  <2>1. take = new
    BY <1>5
  <2>. HIDE DEF take, fitting, a, old
  <2>2. NewRun(new, m, h, size)
    BY AllocateGood
  <2>3. new.m.status = "running"
    BY <1>1, <2>1
  <2>4. new = [m |-> new.m, a |-> new.a]
    BY DEF HeapAllocateHeader
  <2>5. got = [new EXCEPT !.m = HeapSplitHeader(new.m, h, new.a)]
    BY <1>1, <2>1, <2>3
  <2>6. Counted(new.m, {}, g)
    BY <2>3, AllocateCounts
  <2>. HIDE DEF new
  <2>7. got.m = HeapSplitHeader(new.m, h, new.a)
    BY <2>4, <2>5
  <2>8. Taken(new.m, m, new.a, h, size)
    <3>1. Stops(new.m, new.a, "page_flink")
      BY <2>2, <2>3 DEF NewRun, Standalone, Stops
    <3>2. NewUnits(new.m, m, h) /\ KeepsFiles(new.m, m, h)
      BY <2>2, <2>3 DEF NewRun, NewUnits, KeepsFiles
    <3>. QED
      BY <2>2, <2>3, <3>1, <3>2 DEF NewRun, Taken
  <2>9. NoneAtNull(new.m, {g})
    <3>1. Files(new.m, {}, {g})
      BY <1>4, <2>8 DEF Taken, KeepsFiles
    <3>. QED
      BY <3>1, FilesAboveNull
  <2>. QED
    BY <2>6, <2>7, <2>8, <2>9, TakenCounts
<1>6. CASE fitting # {}
  <2>1. take = old
    BY <1>6
  <2>2. Min(fitting) \in fitting
    <3>1. fitting \subseteq Nat
      BY SMTT(30)
    <3>. HIDE DEF fitting
    <3>. QED
      BY <1>6, <3>1, MinOf
  <2>3. /\ a \in DOMAIN m.hdr /\ a # NULL /\ ~m.hdr[a].used /\ h = m.hdr[a].heap
        /\ m.hdr[a].size - S >= size
    BY Zenon, <1>3, <2>2 DEF Fits
  <2>. HIDE DEF take, a, fitting
  <2>4. m.hdr[a].size >= size + S
    BY <2>3, HeadersOf, Constants DEF Blocks
  <2>. DEFINE n == Reuse(m, h, a, size)
  <2>5. Reused(n, m, h, a, size)
    BY <2>3, <2>4, ReuseGood
  <2>6. Counted(n, {}, g)
    BY <2>3, ReuseCounts
  <2>7. old = [m |-> n, a |-> a]
    OBVIOUS
  <2>. HIDE DEF n, old
  <2>8. n.status = "running"
    BY <2>5 DEF Reused
  <2>9. got = [old EXCEPT !.m = HeapSplitHeader(n, h, a)]
    BY <1>1, <2>1, <2>7, <2>8
  <2>10. got.m = HeapSplitHeader(n, h, a)
    BY <2>7, <2>9
  <2>11. Taken(n, m, a, h, size)
    <3>1. NewUnits(n, m, h) /\ KeepsFiles(n, m, h)
      BY <2>5 DEF Reused, NewUnits, KeepsFiles
    <3>. QED
      BY <2>3, <2>5, <2>8, <3>1 DEF Reused, Taken
  <2>12. NoneAtNull(n, {g})
    <3>1. Files(n, {}, {g})
      BY <2>5 DEF Reused
    <3>. QED
      BY <3>1, FilesAboveNull
  <2>. QED
    BY <2>6, <2>10, <2>11, <2>12, TakenCounts
<1>. QED
  BY <1>5, <1>6

\* Counters that are all 0 add up to 0.
LEMMA TotalZero ==
  ASSUME NEW c \in [Classes -> 0..255], \A i \in Classes : c[i] = 0
  PROVE  Total(c) = 0
<1>1. IsFiniteSet(Classes)
  <2>1. 0 \in Int /\ 7 \in Int
    OBVIOUS
  <2>. QED
    BY <2>1, FS_Interval DEF Classes
<1>2. PICK f : SolvesTotal(f, c) /\ Total(c) = f[Classes]
  <2>1. DOMAIN c = Classes
    OBVIOUS
  <2>. QED
    BY <1>1, <2>1, TotalSolved
<1>3. \A t \in SUBSET Classes : f[t] = TotalStep(f, c, t)
  BY <1>2 DEF SolvesTotal
<1>4. \A t \in SUBSET Classes : IsFiniteSet(t) /\ Cardinality(t) \in Nat
  BY <1>1, FS_Subset, FS_CardinalityType
<1>. DEFINE N == {n \in Nat : \A t \in SUBSET Classes : Cardinality(t) <= n => f[t] = 0}
<1>5. 0 \in N
  <2>1. ASSUME NEW t \in SUBSET Classes, Cardinality(t) <= 0 PROVE f[t] = 0
    <3>1. Cardinality(t) = 0
      BY <1>4, <2>1
    <3>2. t = {}
      BY <1>4, <3>1, FS_EmptySet
    <3>. QED
      BY <1>3, <3>2 DEF TotalStep
  <2>. QED
    BY <2>1
<1>6. ASSUME NEW n \in Nat, n \in N PROVE n + 1 \in N
  <2>1. ASSUME NEW t \in SUBSET Classes, Cardinality(t) <= n + 1 PROVE f[t] = 0
    <3>1. CASE t = {}
      BY <1>3, <3>1 DEF TotalStep
    <3>2. CASE t # {}
      <4>. DEFINE x == CHOOSE x \in t : TRUE
      <4>1. x \in t
        BY <3>2
      <4>2. f[t] = (c[x] + f[t \ {x}]) % 256
        BY <1>3, <3>2 DEF TotalStep
      <4>. HIDE DEF x
      <4>3. t \ {x} \in SUBSET Classes /\ Cardinality(t \ {x}) = Cardinality(t) - 1
        BY <1>4, <4>1, FS_RemoveElement
      <4>4. c[x] = 0
        BY <4>1
      <4>5. f[t \ {x}] = 0
        <5>1. Cardinality(t \ {x}) <= n
          BY <1>4, <2>1, <4>3
        <5>. QED
          BY <1>6, <4>3, <5>1
      <4>6. (0 + 0) % 256 = 0
        OBVIOUS
      <4>. QED
        BY Zenon, <4>2, <4>4, <4>5, <4>6
    <3>. QED
      BY <3>1, <3>2
  <2>. QED
    BY <2>1
<1>. HIDE DEF N
<1>7. \E n \in N : Cardinality(Classes) <= n
  <2>1. Cardinality(Classes) \in N
    BY <1>4, <1>5, <1>6, SetInduction
  <2>. QED
    BY <1>4, <2>1
<1>. QED
  BY <1>2, <1>7 DEF N

\* kmalloc and malloc, as the machine sees them.
LEMMA MallocCounts ==
  ASSUME NEW m, NEW P, NEW sound, AtRest(m, P, sound), m.status = "running",
         NEW h \in Heaps, h = "user" /\ "user" \in sound => 0 \in P,
         NEW size \in Sizes, NEW got, got = Kmalloc(m, h, size), got.m.status = "running",
         NEW g \in Heaps, g \in sound, Counted(m, {}, g)
  PROVE  Counted(got.m, {}, g)
<1>1. /\ Blocks(m) /\ NoPair(m, {}) /\ Files(m, {}, sound)
      /\ P \subseteq m.mapped
      /\ \A u \in UnitsOf(m) : u \div PageSize \in m.mapped
  BY DEF AtRest
<1>2. Files(m, {}, {g})
  <2>1. {g} \subseteq sound
    OBVIOUS
  <2>. QED
    BY <1>1, <2>1, FewerFiles
<1>3. /\ size \in Nat \ {0} /\ SizeToPages(size + S) <= TableSize
      /\ SizeToPages(size + S) < 128
  BY HeapAssumption
<1>4. h = "user" /\ g = "user" => 0 \in m.mapped
  BY <1>1
<1>. QED
  BY <1>1, <1>2, <1>3, <1>4, KmallocCounts

\* krealloc and realloc, if the machine runs on.
LEMMA KreallocCounts ==
  ASSUME NEW m, NEW P, NEW sound, AtRest(m, P, sound), m.status = "running",
         NEW f, HeldIs(m, f), NEW a \in DOMAIN f,
         NEW h \in Heaps, m.hdr[a].heap = h, h = "user" /\ "user" \in sound => 0 \in P,
         NEW size \in Sizes, NEW got, got = Krealloc(m, h, a, size), got.m.status = "running",
         NEW g \in Heaps, g \in sound, Counted(m, {}, g)
  PROVE  Counted(got.m, {}, g)
<1>. DEFINE new == Kmalloc(m, h, size)
            freed == Free(new.m, "kernel", a)
<1>1. a \in UsedOf(m) /\ f[a] \in Nat \ {0} /\ m.hdr[a].size >= f[a] + S
  BY DEF HeldIs
<1>2. CASE m.hdr[a].req = size
  <2>1. got.m = m
    BY <1>2 DEF Krealloc
  <2>. QED
    BY <2>1
<1>3. CASE m.hdr[a].req # size
  <2>1. /\ Allocated(new, m, h, size)
        /\ new.m.status = "running" => AtRest(new.m, P, sound)
    BY KmallocReturns
  <2>2. got = IF new.m.status # "running" THEN new
              ELSE IF h = "kernel" THEN [new EXCEPT !.m = freed]
              ELSE [new EXCEPT !.m = Stop(freed, "mixed")]
    BY <1>3 DEF Krealloc
  <2>3. new = [m |-> new.m, a |-> new.a]
    BY KmallocPair
  <2>4. new.m.status = "running" => Counted(new.m, {}, g)
    BY MallocCounts
  <2>. HIDE DEF new
  <2>5. new.m.status = "running"
    BY <2>2
  <2>6. AddsUsed(new.m, m, new.a, h, size) /\ Blocks(new.m) /\ NoPair(new.m, {})
        /\ Files(new.m, {}, {g})
    <3>1. Files(new.m, {}, sound) /\ {g} \subseteq sound
      BY <2>1, <2>5 DEF AtRest
    <3>2. Files(new.m, {}, {g})
      BY <3>1, FewerFiles
    <3>. QED
      BY <2>1, <2>5, <3>2 DEF Allocated
  <2>7. /\ a \in DOMAIN new.m.hdr /\ new.m.hdr[a].used /\ new.m.hdr[a].heap = h
        /\ new.m.hdr[a].size > S
    <3>1. a \in UsedOf(new.m) /\ new.m.hdr[a].size = m.hdr[a].size /\ new.m.hdr[a].heap = h
      BY <1>1, <2>6 DEF AddsUsed
    <3>2. a \in DOMAIN new.m.hdr /\ new.m.hdr[a].used
      BY <3>1 DEF UsedOf
    <3>3. new.m.hdr[a].size \in Nat
      BY <2>6, <3>2, HeadersOf DEF Blocks
    <3>. QED
      BY <1>1, <3>1, <3>2, <3>3, Constants
  <2>8. CASE h = "kernel"
    <3>1. got.m = Free(new.m, h, a)
      BY <2>2, <2>3, <2>5, <2>8
    <3>2. PICK r : r = got.m
      OBVIOUS
    <3>3. r = Free(new.m, h, a) /\ r.status = "running"
      BY <3>1, <3>2
    <3>4. PICK n : n = new.m
      OBVIOUS
    <3>5. Counted(r, {}, g)
      BY <2>4, <2>5, <2>6, <2>7, <3>3, <3>4, FreeCounts
    <3>. QED
      BY <3>2, <3>5
  <2>9. CASE h # "kernel"
    <3>1. got.m = Stop(freed, "mixed")
      BY <2>2, <2>3, <2>5, <2>9
    <3>. HIDE DEF freed
    <3>2. MemoryOK(freed)
      <4>1. "kernel" \in Heaps
        BY DEF Heaps
      <4>2. Freed(freed, new.m, "kernel", a)
        BY <2>6, <2>7, <4>1, FreeGood DEF freed
      <4>. QED
        BY <4>2 DEF Freed
    <3>3. got.m.status # "running"
      BY <3>1, <3>2, Stopped
    <3>. QED
      BY <3>3
  <2>. QED
    BY <2>8, <2>9
<1>. QED
  BY <1>2, <1>3

\* While the machine runs, the counters of the heaps whose lists mean something tell
\* how many runs of pages are unused.
CountersOK == Running => \A g \in Ordered : Counted(memory, {}, g)

\* A memory that the machine runs on with after a call is the one the call returned.
LEMMA SettledRuns ==
  ASSUME NEW r, NEW s, s = Settled(r), s.status = "running", MemoryOK(r)
  PROVE  s = r
<1>1. s = r \/ s = Stop(r, "lost")
  BY DEF Settled
<1>2. s = Stop(r, "lost") => r.status # "running" /\ s.status = r.status
  BY Stopped
<1>. QED
  BY <1>1, <1>2

\* A call keeps the counters right.
LEMMA CallCounts ==
  ASSUME CountersOK, Running, NEW r, MemoryOK(r), memory' = Settled(r),
         UNCHANGED <<image, loaded>>,
         r.status = "running" => \A g \in Ordered : Counted(r, {}, g)
  PROVE  CountersOK'
<1>1. Ordered' = Ordered
  BY DEF Ordered, LoadedPages, Sound
<1>2. PICK s : s = memory'
  OBVIOUS
<1>3. ASSUME s.status = "running" PROVE s = r
  BY <1>2, <1>3, SettledRuns
<1>4. ASSUME s.status = "running", NEW g \in Ordered PROVE Counted(s, {}, g)
  <2>1. s = r
    BY <1>3, <1>4
  <2>. QED
    BY <1>4, <2>1
<1>. QED
  BY <1>1, <1>2, <1>4 DEF CountersOK, Running

\* elf_map maps pages and moves no block.
LEMMA MapCounts ==
  ASSUME HeapInvariant, CountersOK, MapSegment
  PROVE  CountersOK'
<1>. DEFINE begin == image[loaded + 1][1]
            length == image[loaded + 1][2]
            page == begin \div PageSize
            touched == Touched(image[loaded + 1])
            r == PageMapAt(memory, page, SizeToPages(length))
<1>1. MemoryOK(memory) /\ image \in Images /\ loaded \in 0..Len(image)
  BY DEF HeapInvariant
<1>2. /\ Running /\ loaded < Len(image)
      /\ memory' = (IF touched \subseteq r.mapped THEN r ELSE Stop(r, "fault"))
  BY DEF MapSegment
<1>3. page \in Pages /\ SizeToPages(length) \in Nat
  BY <1>2, SegmentPlace
<1>4. MemoryOK(r) /\ r.hdr = memory.hdr /\ r.complete_pages = memory.complete_pages
  BY <1>1, <1>3, PageMapAtKeeps
<1>. HIDE DEF r, touched
<1>5. PICK s : s = memory'
  OBVIOUS
<1>6. s.hdr = memory.hdr /\ s.complete_pages = memory.complete_pages
  BY <1>2, <1>4, <1>5, Stopped
<1>7. Ordered = Heaps /\ Ordered' \subseteq Heaps
  BY <1>2 DEF Ordered
<1>8. ASSUME NEW g \in Ordered' PROVE Counted(s, {}, g)
  <2>1. Counted(memory, {}, g)
    BY <1>2, <1>7 DEF CountersOK
  <2>2. Alone(s, g) = Alone(memory, g)
    BY <1>6 DEF Alone, Standalone
  <2>. QED
    BY <1>6, <2>1, <2>2, CountedSame
<1>. QED
  BY <1>5, <1>8 DEF CountersOK

\* What holds of the machine between two calls.
LEMMA RunningFacts ==
  ASSUME HeapInvariant, CountersOK, Running, NEW h
  PROVE  /\ AtRest(memory, Own, Ordered) /\ HeldIs(memory, held) /\ memory.status = "running"
         /\ \A g \in Ordered : g \in Heaps /\ Counted(memory, {}, g)
         /\ (h = "user" => loaded = Len(image)) => (h = "user" /\ "user" \in Ordered => 0 \in Own)
<1>1. AtRest(memory, Own, Ordered) /\ HeldIs(memory, held) /\ memory.status = "running"
  BY DEF HeapInvariant, Running
<1>2. \A g \in Ordered : g \in Heaps /\ Counted(memory, {}, g)
  BY DEF CountersOK, Ordered
<1>3. (h = "user" => loaded = Len(image)) => (h = "user" /\ "user" \in Ordered => 0 \in Own)
  BY DEF Ordered, Sound, Own, Heaps
<1>. QED
  BY <1>1, <1>2, <1>3

\* An allocation keeps the counters right.
LEMMA AllocatesCounts ==
  ASSUME HeapInvariant, CountersOK, Running, NEW h \in Heaps, h = "user" => loaded = Len(image),
         NEW size \in Sizes, Hold(Kmalloc(memory, h, size), size, {})
  PROVE  CountersOK'
<1>1. /\ AtRest(memory, Own, Ordered) /\ memory.status = "running"
      /\ \A g \in Ordered : g \in Heaps /\ Counted(memory, {}, g)
      /\ h = "user" /\ "user" \in Ordered => 0 \in Own
  BY RunningFacts
<1>2. PICK got : got = Kmalloc(memory, h, size)
  OBVIOUS
<1>3. MemoryOK(got.m)
  <2>1. Returned(got.m, memory, Own, Ordered, h, {})
    BY <1>1, <1>2, KmallocReturns
  <2>. QED
    BY <2>1 DEF Returned
<1>4. ASSUME got.m.status = "running", NEW g \in Ordered PROVE Counted(got.m, {}, g)
  <2>1. g \in Heaps /\ Counted(memory, {}, g)
    BY <1>1
  <2>. QED
    BY <1>1, <1>2, <1>4, <2>1, MallocCounts
<1>5. memory' = Settled(got.m) /\ UNCHANGED <<image, loaded>>
  BY <1>2 DEF Hold
<1>. QED
  BY <1>3, <1>4, <1>5, CallCounts

\* A reallocation keeps the counters right.
LEMMA ReallocatesCounts ==
  ASSUME HeapInvariant, CountersOK, Running, NEW h \in Heaps, h = "user" => loaded = Len(image),
         NEW a \in HeldIn(h), NEW size \in Sizes,
         Hold(Krealloc(memory, h, a, size), size, {a})
  PROVE  CountersOK'
<1>1. /\ AtRest(memory, Own, Ordered) /\ HeldIs(memory, held) /\ memory.status = "running"
      /\ \A g \in Ordered : g \in Heaps /\ Counted(memory, {}, g)
      /\ h = "user" /\ "user" \in Ordered => 0 \in Own
  BY RunningFacts
<1>2. a \in DOMAIN held /\ memory.hdr[a].heap = h
  BY DEF HeldIn
<1>3. PICK got : got = Krealloc(memory, h, a, size)
  OBVIOUS
<1>4. MemoryOK(got.m)
  <2>1. \/ Returned(got.m, memory, Own, Ordered, h, {})
        \/ Returned(got.m, memory, Own, Ordered, h, {a})
    BY <1>1, <1>2, <1>3, KreallocReturns
  <2>. QED
    BY <2>1 DEF Returned
<1>5. ASSUME got.m.status = "running", NEW g \in Ordered PROVE Counted(got.m, {}, g)
  <2>1. g \in Heaps /\ Counted(memory, {}, g)
    BY <1>1
  <2>. QED
    BY <1>1, <1>2, <1>3, <1>5, <2>1, KreallocCounts
<1>6. memory' = Settled(got.m) /\ UNCHANGED <<image, loaded>>
  BY <1>3 DEF Hold
<1>. QED
  BY <1>4, <1>5, <1>6, CallCounts

\* A block that is freed keeps the counters right.
LEMMA ReleaseCounts ==
  ASSUME HeapInvariant, CountersOK, Running, NEW h \in Heaps, NEW a \in HeldIn(h), Release(h, a)
  PROVE  CountersOK'
<1>1. /\ AtRest(memory, Own, Ordered) /\ HeldIs(memory, held) /\ memory.status = "running"
      /\ \A g \in Ordered : g \in Heaps /\ Counted(memory, {}, g)
  BY RunningFacts
<1>2. a \in DOMAIN held /\ memory.hdr[a].heap = h
  BY DEF HeldIn
<1>3. PICK r : r = Free(memory, h, a)
  OBVIOUS
<1>4. Blocks(memory) /\ NoPair(memory, {}) /\ Files(memory, {}, Ordered)
  BY <1>1 DEF AtRest
<1>5. a \in DOMAIN memory.hdr /\ memory.hdr[a].used /\ memory.hdr[a].size > S
  <2>1. a \in UsedOf(memory) /\ held[a] \in Nat \ {0} /\ memory.hdr[a].size >= held[a] + S
    BY <1>1, <1>2 DEF HeldIs
  <2>2. a \in DOMAIN memory.hdr /\ memory.hdr[a].used
    BY <2>1 DEF UsedOf
  <2>3. memory.hdr[a].size \in Nat
    BY <1>4, <2>2, HeadersOf DEF Blocks
  <2>. QED
    BY <2>1, <2>2, <2>3, Constants
<1>6. MemoryOK(r)
  <2>1. Freed(r, memory, h, a)
    BY <1>3, <1>4, <1>5, FreeGood
  <2>. QED
    BY <2>1 DEF Freed
<1>7. ASSUME r.status = "running", NEW g \in Ordered PROVE Counted(r, {}, g)
  <2>1. g \in Heaps /\ Counted(memory, {}, g)
    BY <1>1
  <2>2. Files(memory, {}, {g})
    <3>1. {g} \subseteq Ordered
      OBVIOUS
    <3>2. PICK some, sound : some = {g} /\ sound = Ordered
      OBVIOUS
    <3>3. Files(memory, {}, some)
      BY <1>4, <3>1, <3>2, FewerFiles
    <3>. QED
      BY <3>2, <3>3
  <2>. QED
    BY <1>2, <1>3, <1>4, <1>5, <1>7, <2>1, <2>2, FreeCounts
<1>8. memory' = Settled(r) /\ UNCHANGED <<image, loaded>>
  BY <1>3 DEF Release
<1>. QED
  BY <1>6, <1>7, <1>8, CallCounts

\* The machine begins with counters of 0, and without a block.
LEMMA CountersInit == Init => CountersOK
<1>. SUFFICES ASSUME Init, NEW g \in Heaps PROVE Counted(memory, {}, g)
  BY DEF CountersOK, Ordered
<1>1. memory.complete_pages = [h \in Heaps |-> [index \in Classes |-> 0]] /\ DOMAIN memory.hdr = {}
  BY DEF Init
<1>2. Total(memory.complete_pages[g]) = 0
  <2>1. PICK c : c = memory.complete_pages[g]
    OBVIOUS
  <2>2. c = [index \in Classes |-> 0]
    BY <1>1, <2>1
  <2>3. c \in [Classes -> 0..255] /\ \A i \in Classes : c[i] = 0
    BY <2>2
  <2>. QED
    BY <2>1, <2>3, TotalZero
<1>3. Alone(memory, g) \ {} = {}
  BY <1>1 DEF Alone
<1>4. Cardinality({}) = 0
  BY FS_EmptySet
<1>5. 0 % 256 = 0
  OBVIOUS
<1>. QED
  BY Zenon, <1>2, <1>3, <1>4, <1>5 DEF Counted

\* Each step keeps the counters right.
LEMMA CountersStep ==
  ASSUME HeapInvariant, CountersOK, Next
  PROVE  CountersOK'
<1>1. CASE MapSegment
  BY <1>1, MapCounts
<1>2. CASE KernelAllocates
  BY <1>2, AllocatesCounts DEF KernelAllocates, Heaps
<1>3. CASE KernelFrees
  BY <1>3, ReleaseCounts DEF KernelFrees, Heaps
<1>4. CASE KernelReallocates
  BY <1>4, ReallocatesCounts DEF KernelReallocates, Heaps
<1>5. CASE UserAllocates
  BY <1>5, AllocatesCounts DEF UserAllocates, UserRuns, Heaps
<1>6. CASE UserFrees
  BY <1>6, ReleaseCounts DEF UserFrees, UserRuns, Heaps
<1>7. CASE UserReallocates
  BY <1>7, ReallocatesCounts DEF UserReallocates, UserRuns, Heaps
<1>. QED
  BY <1>1, <1>2, <1>3, <1>4, <1>5, <1>6, <1>7 DEF Next

\* The counters of a heap add up to the number of its unused runs of pages, modulo 256.
THEOREM CountersAddUp == Spec => []CompleteTotal
<1>1. HeapInvariant /\ CountersOK /\ [Next]_vars => CountersOK'
  <2>1. CountersOK /\ UNCHANGED vars => CountersOK'
    BY DEF vars, CountersOK, Running, Ordered, Sound, LoadedPages
  <2>. QED
    BY <2>1, CountersStep
<1>2. CountersOK => CompleteTotal
  <2>. SUFFICES ASSUME CountersOK, Running, NEW h \in Heaps, Sound(h)
                PROVE  FoldFunction(LAMBDA x, y : (x + y) % 256, 0, memory.complete_pages[h])
                         = Cardinality({a \in UnusedOf(h) : Standalone(memory, a)}) % 256
    BY Zenon DEF CompleteTotal
  <2>1. Counted(memory, {}, h)
    BY DEF CountersOK, Ordered
  <2>2. Alone(memory, h) \ {} = {a \in UnusedOf(h) : Standalone(memory, a)}
    BY DEF Alone, UnusedOf
  <2>. QED
    BY Zenon, <2>1, <2>2 DEF Counted, Total
<1>. QED
  BY HeapInductive, CountersInit, <1>1, <1>2, PTL DEF Spec

=============================================================================
