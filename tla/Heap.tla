-------------------------------- MODULE Heap --------------------------------
(***************************************************************************)
(* The two heaps, Memory/heap.c for the kernel and Memory/heap3.c for user    *)
(* programs, on top of the page tables of one address space.                *)
(*                                                                         *)
(* Sizes and addresses count units of memory; a block header is one unit.  A   *)
(* pointer to a header is its address, and 0 is NULL, also when a block lies   *)
(* there.  A call is one step: a heap has no lock, and what two calls at once   *)
(* do to it is not modelled.                                                 *)
(***************************************************************************)
EXTENDS PageMap

CONSTANTS
  MaxComplete,   \* MAX_COMPLETE
  Sizes,         \* what programs ask for
  MaxHeld,       \* the bound on the blocks in use at a time
  MaxCalls,      \* the bound on the calls
  Images         \* user programs: sequences of segments [begin, length]

NULL == 0
S == 1                     \* sizeof(heap_header_t)
Heaps == {"kernel", "user"}
NoClass == 255             \* what heap_get_index returns for a size of 0
Classes == 0..7

ASSUME HeapAssumption ==
  /\ MaxComplete \in 1..254 /\ MaxHeld \in Nat /\ MaxCalls \in Nat
  /\ Sizes \subseteq Nat \ {0}
  /\ \A size \in Sizes :
       /\ SizeToPages(size + S) <= TableSize
       /\ SizeToPages(size + S) < 128   \* from there on heap_get_index does not end

\* Programs are linked below the kernel's tables; elf_map trusts what the file says.
ASSUME ImagesAssumption ==
  /\ Images \subseteq Seq(Nat \X (Nat \ {0}))
  /\ \A program \in Images : \A i \in 1..Len(program) :
       (program[i][1] + program[i][2] - 1) \div PageSize < KernelImage

VARIABLES
  memory,   \* the page tables, and hdr, free_blocks and complete_pages
  held,     \* the blocks in use, and the size each was asked for
  image, loaded,   \* the program, and how many of its segments are in memory
  calls

vars == <<memory, held, image, loaded, calls>>

\* 2^index pages or more, and less than 2^(index+1).
HeapGetIndex(size) ==
  IF size = 0 THEN NoClass
  ELSE CHOOSE k \in Classes : 2^k <= SizeToPages(size) /\ SizeToPages(size) < 2^(k + 1)

Standalone(m, a) == m.hdr[a].page_flink = NULL /\ m.hdr[a].page_blink = NULL

-----------------------------------------------------------------------------
(* The free lists *)

\* Writes through the pointer p, unless it is NULL.
Set(m, p, field, value) == IF p = NULL THEN m ELSE [m EXCEPT !.hdr[p][field] = value]

\* heap_insert_unused_header.  The array has no place for a block without data.
HeapInsertUnused(m, h, a) ==
  LET index == HeapGetIndex(m.hdr[a].size - S)
      head == m.free_blocks[h][index]
  IN IF index = NoClass THEN Stop(m, "undefined")
     ELSE [Set(m, head, "blink", a) EXCEPT
             !.hdr[a].index = index, !.hdr[a].flink = head, !.hdr[a].heap = h,
             !.free_blocks[h][index] = a]

\* Mutant: a block in the middle of a list keeps its neighbours.
HeapRemoveHeadOnly(m, h, a) ==
  LET b == m.hdr[a]
  IN [m EXCEPT !.hdr[a].flink = NULL, !.hdr[a].blink = NULL,
               !.free_blocks[h][b.index] = IF @ = a THEN b.flink ELSE @]

HeapRemoveHeader(m, h, a) ==
  LET b == m.hdr[a]
      linked == Set(Set(m, b.flink, "blink", b.blink), b.blink, "flink", b.flink)
  IN [linked EXCEPT !.hdr[a].flink = NULL, !.hdr[a].blink = NULL,
                    !.free_blocks[h][b.index] = IF @ = a THEN b.flink ELSE @]

\* The list of a class, walked for as many steps as there are headers.
FreeList(m, h, index) ==
  LET Step(a, list) ==
        LET next == IF list = <<>> THEN m.free_blocks[h][index] ELSE m.hdr[Last(list)].flink
        IN IF next \in DOMAIN m.hdr \ {NULL} THEN Append(list, next) ELSE list
  IN FoldSet(Step, <<>>, DOMAIN m.hdr)

-----------------------------------------------------------------------------
(* Blocks *)

Header(size, req, left, right, index, h, used) ==
  [size |-> size, req |-> req, used |-> used, index |-> index, heap |-> h,
   flink |-> NULL, blink |-> NULL, page_flink |-> right, page_blink |-> left]

WithHeader(m, a, b) ==
  [m EXCEPT !.hdr = [x \in {a} \cup DOMAIN @ |-> IF x = a THEN b ELSE @[x]]]

\* Mutant: the right neighbour keeps its old left one.
SplitKeepsNeighbour(m, h, a) ==
  LET b == m.hdr[a]
      rest == b.size - b.req - S
      new == a + S + b.req
      split == WithHeader(m, new, Header(rest, rest - S, a, b.page_flink, 0, h, FALSE))
  IN IF S > rest THEN m
     ELSE HeapInsertUnused(
            [split EXCEPT !.hdr[a].page_flink = new, !.hdr[a].size = @ - rest], h, new)

\* heap_split_header: what is left of a block becomes a block of its own, if it
\* can hold a header.
HeapSplitHeader(m, h, a) ==
  LET b == m.hdr[a]
      rest == b.size - b.req - S
      new == a + S + b.req
      split == WithHeader(Set(m, b.page_flink, "page_blink", new), new,
                          Header(rest, rest - S, a, b.page_flink, 0, h, FALSE))
  IN IF S > rest THEN m
     ELSE HeapInsertUnused(
            [split EXCEPT !.hdr[a].page_flink = new, !.hdr[a].size = @ - rest], h, new)

\* The block at a takes the one at b, its right neighbour.
Absorb(m, a, b) ==
  LET right == m.hdr[b].page_flink
      joined == [Set(m, right, "page_blink", a) EXCEPT
                   !.hdr[a].size = @ + m.hdr[b].size, !.hdr[a].page_flink = right]
  IN [joined EXCEPT !.hdr = [x \in DOMAIN @ \ {b} |-> @[x]]]

\* The unused blocks next to the one at a, nearest first.
Unused(m, a, side) ==
  LET next[x \in DOMAIN m.hdr] ==
        LET p == m.hdr[x][side]
        IN IF p = NULL \/ m.hdr[p].used THEN <<>> ELSE <<p>> \o next[p]
  IN next[a]

\* heap_melt_left, and the block it returns.
HeapMeltLeft(m, h, a) ==
  LET Melt(at, p) == [m |-> HeapRemoveHeader(Absorb(at.m, p, at.a), h, p), a |-> p]
  IN FoldLeft(Melt, [m |-> m, a |-> a], Unused(m, a, "page_blink"))

\* Mutant: only looks to the left.
EatNothing(m, h, a) == m

HeapEatRight(m, h, a) ==
  LET Eat(n, p) == Absorb(HeapRemoveHeader(n, h, p), a, p)
  IN FoldLeft(Eat, m, Unused(m, a, "page_flink"))

\* heap_allocate_header, and the block it returns.
HeapAllocateHeader(m, h, size) ==
  LET n == SizeToPages(size + S)
      free == PageGetFreeAddr(m, n, h = "kernel")
      a == PageSize * free.page
  IN [m |-> WithHeader(PageMapAt(free.m, free.page, n), a,
              Header(n * PageSize, size, NULL, NULL, HeapGetIndex(n * PageSize - S), h, TRUE)),
      a |-> a]

-----------------------------------------------------------------------------
(* The calls *)

\* Mutant: a block may be as small as the data.
FitsTightly(m, a, size) == m.hdr[a].size >= size

Fits(m, a, size) == m.hdr[a].size - S >= size

\* Mutant: a run of pages that is used again is still counted.
ReuseStillCounted(m, h, a, size) ==
  HeapRemoveHeader([m EXCEPT !.hdr[a].used = TRUE, !.hdr[a].req = size], h, a)

\* kmalloc takes a block from a list.  complete_pages is a byte.
Reuse(m, h, a, size) ==
  LET taken == HeapRemoveHeader([m EXCEPT !.hdr[a].used = TRUE, !.hdr[a].req = size], h, a)
  IN IF Standalone(m, a)
       THEN [taken EXCEPT !.complete_pages[h][m.hdr[a].index] = (@ + 255) % 256]
       ELSE taken

\* kmalloc and malloc, and the block they return.  Only the list of the size is
\* searched.
Kmalloc(m, h, size) ==
  LET list == FreeList(m, h, HeapGetIndex(size))
      fitting == {i \in 1..Len(list) : Fits(m, list[i], size)}
      Taken(a) == [m |-> Reuse(m, h, a, size), a |-> a]
      Split(got) ==
        IF got.m.status # "running" THEN got
        ELSE [got EXCEPT !.m = HeapSplitHeader(@, h, got.a)]
  IN Split(IF fitting = {} THEN HeapAllocateHeader(m, h, size) ELSE Taken(list[Min(fitting)]))

\* Mutant: the last unused run of a class that may be kept is given back too.
TooManyByOne(m, h, index) == m.complete_pages[h][index] = MaxComplete - 1

TooMany(m, h, index) == m.complete_pages[h][index] = MaxComplete

\* The end of free: the block at a, merged with its neighbours, is put in a list,
\* or its pages are given back.
GiveBack(m, h, a, index) ==
  LET pages == SizeToPages(m.hdr[a].size)
      without == [m EXCEPT !.hdr = [x \in DOMAIN @ \ {a} |-> @[x]]]
  IN IF ~Standalone(m, a) THEN HeapInsertUnused(m, h, a)
     ELSE IF ~TooMany(m, h, index)
       THEN HeapInsertUnused([m EXCEPT !.complete_pages[h][index] = (@ + 1) % 256], h, a)
     ELSE IF a % PageSize # 0 THEN m    \* page_unmap returns at once
     ELSE PageUnmap(without, a \div PageSize, pages)

\* free and free_3.  The class whose counter is tested is that of the block before
\* it was merged.
Free(m, h, a) ==
  LET Whole(at) == GiveBack(HeapEatRight(at.m, h, at.a), h, at.a,
                            HeapGetIndex(m.hdr[a].size - S))
  IN Whole(HeapMeltLeft([m EXCEPT !.hdr[a].used = FALSE], h, a))

\* krealloc and realloc.  Both free the old block with the kernel's free.
Krealloc(m, h, a, size) ==
  LET Moved(got) ==
        IF got.m.status # "running" THEN got
        ELSE IF h = "kernel" THEN [got EXCEPT !.m = Free(@, "kernel", a)]
        ELSE [got EXCEPT !.m = Stop(Free(@, "kernel", a), "mixed")]
  IN IF m.hdr[a].req = size THEN [m |-> m, a |-> a] ELSE Moved(Kmalloc(m, h, size))

-----------------------------------------------------------------------------
(* The machine *)

Touched(segment) ==
  (segment[1] \div PageSize)..((segment[1] + segment[2] - 1) \div PageSize)

LoadedPages == UNION {Touched(image[i]) : i \in 1..loaded}

BlockPages(m, a) == (a \div PageSize)..((a + m.hdr[a].size - 1) \div PageSize)

InUse(m) == (UNION {BlockPages(m, a) : a \in DOMAIN m.hdr}) \cup LoadedPages \cup {KernelImage}

\* A machine that has unmapped a page that is in use is lost.
Settled(m) == IF InUse(m) \subseteq m.mapped THEN m ELSE Stop(m, "lost")

Init ==
  /\ memory = [tables |-> {KernelEntry, SelfMap}, mapped |-> {KernelImage},
               status |-> "running", hdr |-> [a \in {} |-> {}],
               free_blocks |-> [h \in Heaps |-> [index \in Classes |-> NULL]],
               complete_pages |-> [h \in Heaps |-> [index \in Classes |-> 0]]]
  /\ held = [a \in {} |-> 0]
  /\ image \in Images
  /\ loaded = 0
  /\ calls = 0

Running == memory.status = "running"
HeldIn(h) == {a \in DOMAIN held : memory.hdr[a].heap = h}

\* elf_map maps as many pages as the length of a segment needs, from the one it
\* begins in, and copies to it whether page_map could or not.
MapSegment ==
  /\ Running /\ loaded < Len(image)
  /\ LET segment == image[loaded + 1]
         m == PageMapAt(memory, segment[1] \div PageSize, SizeToPages(segment[2]))
     IN memory' = IF Touched(segment) \subseteq m.mapped THEN m ELSE Stop(m, "fault")
  /\ loaded' = loaded + 1
  /\ UNCHANGED <<held, image, calls>>

\* What a call leaves: got.a is in use for size units, and gone is not.
Hold(got, size, gone) ==
  /\ calls < MaxCalls /\ calls' = calls + 1
  /\ memory' = Settled(got.m)
  /\ held' = IF got.m.status \notin {"running", "mixed"} THEN held
             ELSE [a \in {got.a} \cup (DOMAIN held \ gone) |->
                     IF a = got.a THEN size ELSE held[a]]
  /\ UNCHANGED <<image, loaded>>

Release(h, a) ==
  /\ calls < MaxCalls /\ calls' = calls + 1
  /\ memory' = Settled(Free(memory, h, a))
  /\ held' = [x \in DOMAIN held \ {a} |-> held[x]]
  /\ UNCHANGED <<image, loaded>>

KernelAllocates ==
  /\ Running /\ Cardinality(DOMAIN held) < MaxHeld
  /\ \E size \in Sizes : Hold(Kmalloc(memory, "kernel", size), size, {})

KernelFrees == Running /\ \E a \in HeldIn("kernel") : Release("kernel", a)

KernelReallocates ==
  /\ Running
  /\ \E a \in HeldIn("kernel"), size \in Sizes :
       Hold(Krealloc(memory, "kernel", a, size), size, {a})

\* A user program runs once its segments are loaded.
UserRuns == Running /\ loaded = Len(image)

UserAllocates ==
  /\ UserRuns /\ Cardinality(DOMAIN held) < MaxHeld
  /\ \E size \in Sizes : Hold(Kmalloc(memory, "user", size), size, {})

UserFrees == UserRuns /\ \E a \in HeldIn("user") : Release("user", a)

UserReallocates ==
  /\ UserRuns
  /\ \E a \in HeldIn("user"), size \in Sizes :
       Hold(Krealloc(memory, "user", a, size), size, {a})

Next ==
  \/ MapSegment
  \/ KernelAllocates \/ KernelFrees \/ KernelReallocates
  \/ UserAllocates \/ UserFrees \/ UserReallocates

Spec == Init /\ [][Next]_vars

-----------------------------------------------------------------------------
(* Properties *)

\* The user heap searches for pages from address 0.  Unless the program is in page
\* 0, its first block lies there and cannot be told from none: from then on its
\* lists and counters mean nothing.
Sound(h) == h = "kernel" \/ 0 \in LoadedPages

UnusedOf(h) == {a \in DOMAIN memory.hdr : memory.hdr[a].heap = h /\ ~memory.hdr[a].used}

\* The type invariant.  A page is mapped by a table that is present, the pages of the
\* blocks, the program and the kernel are mapped while the machine runs, and the
\* status says why the model stops.
MemTypeOK ==
  /\ memory.status \in {"running", "fault", "selfmap", "undefined", "mixed", "lost"}
  /\ memory.tables \subseteq 0..SelfMap
  /\ memory.mapped \subseteq Pages
  /\ \A page \in memory.mapped : TableOf(page) \in memory.tables
  /\ Running => InUse(memory) \subseteq memory.mapped
  /\ \A h \in Heaps, index \in Classes : memory.complete_pages[h][index] \in 0..255
  /\ loaded \in 0..Len(image)
  /\ Cardinality(DOMAIN held) <= MaxHeld

\* The blocks of a run of pages lie one after the other from its first page to its
\* last, and their neighbour links say so: what splitting and merging in heap.c
\* rests on.
BlocksTile ==
  Running =>
    \A a \in DOMAIN memory.hdr :
      LET b == memory.hdr[a] IN
      /\ \A other \in DOMAIN memory.hdr : other \notin (a + 1)..(a + b.size - 1)
      /\ IF b.page_flink = NULL THEN (a + b.size) % PageSize = 0
         ELSE b.page_flink = a + b.size /\ memory.hdr[b.page_flink].page_blink = a
      /\ IF b.page_blink # NULL THEN memory.hdr[b.page_blink].page_flink = a
         ELSE \/ a % PageSize = 0
              \/ 0 \in DOMAIN memory.hdr /\ memory.hdr[0].page_flink = a

\* Every unused block is in the list of its class, once, and nothing else is in a
\* list, whatever was split and merged since.
FreeListsExact ==
  Running =>
    \A h \in Heaps : Sound(h) =>
      /\ \A index \in Classes :
           LET list == FreeList(memory, h, index) IN
           /\ IsInjective(list)
           /\ \A i \in 1..Len(list) :
                memory.hdr[list[i]].blink = IF i = 1 THEN NULL ELSE list[i - 1]
           /\ ToSet(list) = {a \in UnusedOf(h) : HeapGetIndex(memory.hdr[a].size - S) = index}

\* A block in use keeps its size, and lies neither on another, nor on the program,
\* nor on the kernel, whatever the heaps and elf_map do around it.
OwnersKeepTheirBlocks ==
  Running =>
    /\ DOMAIN held = {a \in DOMAIN memory.hdr : memory.hdr[a].used}
    /\ \A a \in DOMAIN held :
         /\ memory.hdr[a].req = held[a]
         /\ memory.hdr[a].size >= held[a] + S
         /\ \A other \in DOMAIN held \ {a} :
              other \notin a..(a + S + held[a] - 1)
         /\ BlockPages(memory, a) \cap (LoadedPages \cup {KernelImage}) = {}

\* free leaves no two unused blocks side by side, but for the one next to address 0.
NoAdjacentFree ==
  Running =>
    \A a \in DOMAIN memory.hdr \ {0} :
      LET right == memory.hdr[a].page_flink
      IN ~memory.hdr[a].used /\ right # NULL => memory.hdr[right].used

\* The counters of unused runs of pages are kept under the wrong class (a block's
\* before it was merged, heap.c:168), but their sum is right, modulo the width of
\* one.
CompleteTotal ==
  Running =>
    \A h \in Heaps : Sound(h) =>
      FoldFunction(LAMBDA x, y : (x + y) % 256, 0, memory.complete_pages[h])
        = Cardinality({a \in UnusedOf(h) : Standalone(memory, a)}) % 256

\* Pages in use are lost only in a free, of a block of some heap, while the counter of
\* that heap, for the class the block had before it was merged, is at MAX_COMPLETE
\* (krealloc may have taken it there itself, from above).  All of them were mapped by
\* one table, which page_unmap has removed.
LostOnlyByUnmap ==
  [][Running /\ memory'.status = "lost" =>
       \E h \in Heaps : \E a \in HeldIn(h) \ DOMAIN held' :
         /\ memory'.complete_pages[h][HeapGetIndex(memory.hdr[a].size - S)] = MaxComplete
         /\ \E d \in (0..SelfMap) \ memory'.tables :
              \A page \in InUse(memory)' \ memory'.mapped : TableOf(page) = d]_vars

=============================================================================
