------------------------------ MODULE PageMap ------------------------------
(***************************************************************************)
(* The page tables of Memory/vmm.c.  A page is a number; its table is the     *)
(* quotient by TableSize.  The last entry of the page directory maps the      *)
(* directory itself.  Frames are not modelled here: FrameAllocator shows that  *)
(* palloc gives each of them once.                                           *)
(***************************************************************************)
EXTENDS Integers, FiniteSets, SequencesExt

CONSTANTS
  TableSize,     \* PD_ENTRIES, and as many entries in a table
  KernelEntry,   \* KERNEL_ENTRY_INDEX
  PageSize       \* PAGE_SIZE, in units of memory

ASSUME TablesAssumption ==
  TableSize \in Nat /\ KernelEntry \in 1..(TableSize - 2) /\ PageSize \in Nat \ {0}

SelfMap == TableSize - 1
Pages == 0..(TableSize * TableSize - 1)
TableOf(page) == page \div TableSize
Run(page, n) == page..(page + n - 1)
KernelImage == KernelEntry * TableSize     \* the page that holds the kernel

SizeToPages(size) == (size + PageSize - 1) \div PageSize

\* A memory m has the tables of the directory that are present, the pages that
\* are mapped, and status, which says whether the machine still runs.
Stop(m, status) == IF m.status = "running" THEN [m EXCEPT !.status = status] ELSE m

PageIsEmpty(m, d) ==
  /\ d # SelfMap
  /\ d \notin m.tables \/ \A page \in m.mapped : TableOf(page) # d

PdAssignTable(m, d) == [m EXCEPT !.tables = @ \cup {d}]

\* Mutant: the pages of a table that is removed can still be reached.
PdRemoveEntryOnly(m, d) == [m EXCEPT !.tables = @ \ {d}]

PdRemoveEntry(m, d) ==
  [m EXCEPT !.tables = @ \ {d}, !.mapped = {page \in @ : TableOf(page) # d}]

\* Mutant: a hole is as long as the pages before the first that is mapped.
RoomsAnyHole(m, d, n) ==
  IF PageIsEmpty(m, d) THEN {d * TableSize}
  ELSE {page \in Run(d * TableSize, TableSize) : page \notin m.mapped}

\* Where n pages fit in a table: at its beginning if it is empty.
Rooms(m, d, n) ==
  IF PageIsEmpty(m, d) THEN {d * TableSize}
  ELSE {page \in Run(d * TableSize, TableSize - n + 1) : Run(page, n) \cap m.mapped = {}}

\* page_memory_under4mb: the first table with room.
TablesWithRoom(m, n, kernel) ==
  {d \in (IF kernel THEN KernelEntry ELSE 0)..(SelfMap - 1) : Rooms(m, d, n) # {}}

\* page_map at a given page.  It stops at a page that is mapped, and leaves those
\* before it mapped; past the end of the table it goes on in the next one, which
\* may be absent.
PageMapAt(m, page, n) ==
  LET ready == PdAssignTable(m, TableOf(page))
      bad == {q \in Run(page, n) : q \in m.mapped \/ TableOf(q) \notin ready.tables}
      mapped == [ready EXCEPT !.mapped =
                   @ \cup (IF bad = {} THEN Run(page, n) ELSE page..(Min(bad) - 1))]
  IN IF bad # {} /\ Min(bad) \notin m.mapped THEN Stop(mapped, "fault") ELSE mapped

\* page_get_free_addr: a request for more than a table follows a physical address;
\* one that no table has room for is served from the map of the directory itself.
\* The model goes no further.
PageGetFreeAddr(m, n, kernel) ==
  LET tables == TablesWithRoom(m, n, kernel)
  IN IF n > TableSize THEN [m |-> Stop(m, "fault"), page |-> 0]
     ELSE IF tables = {} THEN [m |-> Stop(m, "selfmap"), page |-> 0]
     ELSE [m |-> m, page |-> Min(Rooms(m, Min(tables), n))]

\* page_unmap asks whether the table with the number of the page after the last
\* one is empty, and if so removes the table the pages are in.
PageUnmap(m, page, n) ==
  LET cleared == [m EXCEPT !.mapped = @ \ Run(page, n)]
      asked == (page % TableSize) + n
  IN IF asked = TableSize THEN Stop(cleared, "fault")
     ELSE IF PageIsEmpty(cleared, asked) THEN PdRemoveEntry(cleared, TableOf(page))
     ELSE cleared

=============================================================================
