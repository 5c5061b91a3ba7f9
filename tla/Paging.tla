------------------------------- MODULE Paging -------------------------------
(***************************************************************************)
(* kernel/mm/paging.c over the page allocator: one page directory, page    *)
(* tables that pmm_alloc_page provides, other callers of the allocator     *)
(* beside it.                                                              *)
(*                                                                         *)
(* The code reaches a page table through its physical address, which is a  *)
(* virtual one once paging is on.  paging_init identity-maps the first     *)
(* 16 MB; the allocator hands out pages of up to 1 GB, and callers map and *)
(* unmap any page, those of the page tables included.  An access to a page *)
(* that is not mapped faults, and the kernel stops.                        *)
(*                                                                         *)
(* Addresses are page numbers.  An entry keeps its frame and PAGE_PRESENT; *)
(* the other flags are left out, and so is the TLB, whose entry for a page *)
(* is flushed by every call that changes the page: the two accesses to a   *)
(* new table use one translation.  The pages of the kernel that hold no    *)
(* page table, the directory's among them, are not mapped anew by callers. *)
(***************************************************************************)
EXTENDS PmmClients

CONSTANTS
  ENTRIES,          \* entries of a table (1024), and of the directory
  StaticTables,     \* the pages kernel_page_tables[0], [1], ... lie in: pages of
                    \* the kernel, inside the identity map
  VirtPages,        \* the virtual pages callers map and unmap
  Frames,           \* the frames they map them to
  Starts, Lengths   \* byte ranges for paging_identity_map

Virtual == 0..(ADDRESS_SPACE \div PAGE_SIZE - 1)

ASSUME PagingAssumption ==
  /\ ENTRIES \in Nat \ {0}
  /\ StaticTables \in Seq(Pages)
  /\ \A i, j \in DOMAIN StaticTables : StaticTables[i] = StaticTables[j] => i = j
  /\ \A i \in DOMAIN StaticTables :
       /\ PAGE_TO_ADDR(StaticTables[i]) \in kernel_start..(kernel_end - 1)
       /\ StaticTables[i] < ENTRIES * Len(StaticTables)
  /\ ENTRIES * Len(StaticTables) <= ADDRESS_SPACE \div PAGE_SIZE
  /\ Frames \subseteq Virtual /\ VirtPages \subseteq Virtual
  /\ Starts \subseteq Nat /\ Lengths \subseteq Nat

VARIABLES
  page_directory,   \* the tables of the present entries, by directory index
  mem,              \* the page frames, read as tables
  paging,           \* paging_init has run
  todo,             \* pages paging_identity_map has still to map
  fault,            \* an access hit a page that is not mapped
  moved             \* pages a caller has unmapped or mapped to another frame

tableVars == <<page_directory, mem, paging, todo, fault, moved>>
pagingVars == <<clientVars, tableVars>>

IdentityPages == 0..(ENTRIES * Len(StaticTables) - 1)
Static == {StaticTables[i] : i \in DOMAIN StaticTables}

Absent == [present |-> FALSE, frame |-> 0]
Present(frame) == [present |-> TRUE, frame |-> frame]
ClearTable == [i \in 0..(ENTRIES - 1) |-> Absent]
Garbage == [i \in 0..(ENTRIES - 1) |-> Present(0)]   \* what RAM holds at first

PAGE_DIR_INDEX(v) == v \div ENTRIES
PAGE_TABLE_INDEX(v) == v % ENTRIES

HasTable(v) == PAGE_DIR_INDEX(v) \in DOMAIN page_directory
TableOf(v) == page_directory[PAGE_DIR_INDEX(v)]

\* The directory with the table of v at page p.
WithTable(p, v) ==
  [d \in DOMAIN page_directory \cup {PAGE_DIR_INDEX(v)} |->
     IF d = PAGE_DIR_INDEX(v) THEN p ELSE page_directory[d]]

\* The processor's page walk.
Walk(v) == IF HasTable(v) THEN mem[TableOf(v)][PAGE_TABLE_INDEX(v)] ELSE Absent

-----------------------------------------------------------------------------
\* Mutant: the last static table is left out of the directory.
InitShort ==
  /\ ready /\ ~paging
  /\ paging' = TRUE
  /\ page_directory' = [i \in 0..(Len(StaticTables) - 2) |-> StaticTables[i + 1]]
  /\ UNCHANGED <<clientVars, mem, todo, fault, moved>>

paging_init ==
  /\ ready /\ ~paging
  /\ paging' = TRUE
  /\ page_directory' = [i \in 0..(Len(StaticTables) - 1) |-> StaticTables[i + 1]]
  /\ mem' = [p \in Virtual |->
       IF p \in Static
       THEN [j \in 0..(ENTRIES - 1) |->
               Present(((CHOOSE i \in DOMAIN StaticTables : StaticTables[i] = p) - 1) * ENTRIES + j)]
       ELSE mem[p]]
  /\ UNCHANGED <<clientVars, todo, fault, moved>>

\* table->entries[...] = entry, for a table at a page that is mapped or not.
StoreEntry(table, v, entry) ==
  /\ IF Walk(table).present
     THEN /\ mem' = [mem EXCEPT ![Walk(table).frame][PAGE_TABLE_INDEX(v)] = entry]
          /\ UNCHANGED fault
     ELSE fault' = TRUE /\ UNCHANGED mem
  /\ UNCHANGED <<clientVars, page_directory>>

\* Mutant: the new table is not cleared.
NewTableUncleared(p, v, entry) ==
  /\ page_directory' = WithTable(p, v)
  /\ mem' = [mem EXCEPT ![Walk(p).frame] = [@ EXCEPT ![PAGE_TABLE_INDEX(v)] = entry]]
  /\ UNCHANGED fault

\* Mutant: the entry is not stored when its table had to be made.
NewTableOnly(p, v, entry) ==
  /\ page_directory' = WithTable(p, v)
  /\ mem' = [mem EXCEPT ![Walk(p).frame] = ClearTable]
  /\ UNCHANGED fault

\* get_page_table puts a new table at page p; then the entry is stored.
NewTable(p, v, entry) ==
  IF Walk(p).present
  THEN /\ page_directory' = WithTable(p, v)
       /\ mem' = [mem EXCEPT ![Walk(p).frame] =
                    [ClearTable EXCEPT ![PAGE_TABLE_INDEX(v)] = entry]]
       /\ UNCHANGED fault
  ELSE fault' = TRUE /\ UNCHANGED <<page_directory, mem>>

\* When memory is exhausted, nothing happens.
paging_map(v, entry) ==
  \/ HasTable(v) /\ StoreEntry(TableOf(v), v, entry)
  \/ /\ ~HasTable(v)
     /\ pmm_alloc_page
     /\ IF ret' = 0 THEN UNCHANGED <<page_directory, mem, fault>>
        ELSE NewTable(ADDR_TO_PAGE(ret'), v, entry)
     /\ UNCHANGED <<held, kept, usable>>

\* Mutant: the table is given back and its directory entry stays.
UnmapFreesTable(v) ==
  \/ /\ HasTable(v)
     /\ pmm_free_page(PAGE_TO_ADDR(TableOf(v)))
     /\ UNCHANGED <<page_directory, mem, fault, held, kept, usable>>
  \/ ~HasTable(v) /\ UNCHANGED <<clientVars, page_directory, mem, fault>>

\* Page tables are never given back.
paging_unmap(v) ==
  \/ HasTable(v) /\ StoreEntry(TableOf(v), v, Absent)
  \/ ~HasTable(v) /\ UNCHANGED <<clientVars, page_directory, mem, fault>>

PageFault == [present |-> FALSE, frame |-> -1]

\* What paging_get_physical reads, through the table's address.  It returns the
\* frame of an entry with PAGE_PRESENT, and otherwise 0 (Absent).
paging_get_physical(v) ==
  IF ~HasTable(v) THEN Absent
  ELSE IF ~Walk(TableOf(v)).present THEN PageFault
  ELSE mem[Walk(TableOf(v)).frame][PAGE_TABLE_INDEX(v)]

\* The pages of paging_identity_map's loop.  Near the end of the address space
\* PAGE_ALIGN_UP(start + size) wraps, and there may be none.
LoopPages(start, size) ==
  {v \in Virtual : /\ AlignDown(start) <= PAGE_TO_ADDR(v)
                   /\ PAGE_TO_ADDR(v) < AlignUp(Wrap(start + size))}

-----------------------------------------------------------------------------
Idle == paging /\ todo = {} /\ ~fault

\* The entry paging_map makes of its arguments: the processor ignores the frame of
\* one without PAGE_PRESENT.
Entry(frame, present) == IF present THEN Present(frame) ELSE Absent

MapPage(v, frame, present) ==
  /\ Idle
  /\ paging_map(v, Entry(frame, present))
  /\ moved' = IF present /\ frame = v THEN moved ELSE moved \cup {v}
  /\ UNCHANGED <<paging, todo>>

UnmapPage(v) ==
  Idle /\ paging_unmap(v) /\ moved' = moved \cup {v} /\ UNCHANGED <<paging, todo>>

IdentityMap(start, size) ==
  /\ Idle
  /\ todo' = LoopPages(start, size)
  /\ UNCHANGED <<clientVars, page_directory, mem, paging, fault, moved>>

\* The flags of paging_identity_map include PAGE_PRESENT.
IdentityStep ==
  /\ todo # {} /\ ~fault
  /\ paging_map(First(todo), Present(First(todo)))
  /\ todo' = todo \ {First(todo)}
  /\ UNCHANGED <<paging, moved>>

OtherCallers == todo = {} /\ ~fault /\ ClientNext /\ UNCHANGED tableVars

PagingInit ==
  /\ ClientInit
  /\ page_directory = [d \in {} |-> 0] /\ mem = [p \in Virtual |-> Garbage]
  /\ paging = FALSE /\ todo = {} /\ fault = FALSE /\ moved = {}

PagingNext ==
  \/ paging_init \/ IdentityStep \/ OtherCallers
  \/ \E v \in VirtPages : 
       UnmapPage(v) \/ \E frame \in Frames, present \in BOOLEAN : MapPage(v, frame, present)
  \/ \E start \in Starts, size \in Lengths : IdentityMap(start, size)

PagingSpec == PagingInit /\ [][PagingNext]_pagingVars

-----------------------------------------------------------------------------
Tables == {page_directory[i] : i \in DOMAIN page_directory}

\* No caller has unmapped or moved the page of a page table, before it was one or
\* since.
Intact == Tables \cap moved = {}

\* No page is lost and none has two owners: what is marked used is what pmm_init
\* kept back, what callers hold and, once each, the page tables.  That holds
\* whatever callers map, until the page of a new table turns out not to be mapped.
TablesConserved ==
  LET dynamic == Tables \ Static
  IN  ready /\ ~fault =>
        /\ bitmap = kept \cup held \cup dynamic
        /\ kept \cap held = {} /\ dynamic \cap (kept \cup held) = {}
        /\ \A i, j \in DOMAIN page_directory : page_directory[i] = page_directory[j] => i = j

\* Every page handed out, to a caller or for a page table, is usable memory, whatever
\* the alignment of the regions.
OnlyUsableMemory == \A page \in held \cup (Tables \ Static) : UsablePage(page)

\* A page that is handed out was in nobody's hands: callers are given pages that
\* none of them holds and no page table lies in, and a new table lies in a page
\* nobody holds and pmm_init did not keep back.
HandedOutOnce ==
  [][ /\ \A count \in Counts : Allocate(count) /\ ret' # 0 =>
           /\ Cardinality(held') = Cardinality(held) + count
           /\ (held' \ held) \cap Tables = {}
      /\ (Tables' \ (Tables \cup Static)) \cap (held \cup kept) = {} ]_pagingVars

\* As long as the page tables stay where they are, what paging_get_physical reads
\* through a table's address is what the processor finds, and the first megabytes
\* stay mapped to themselves where no caller moved them.
SoftwareAgreesWithWalk ==
  paging /\ Intact =>
    /\ \A v \in Virtual : paging_get_physical(v) = Walk(v)
    /\ \A v \in IdentityPages \ moved : Walk(v) = Present(v)

\* The call had no page for a page table.
NoMemory(v) == ~HasTable(v) /\ ret' = 0

\* "Map a virtual address to a physical address": after paging_map the processor
\* finds the frame, or none when the flags lack PAGE_PRESENT, and after paging_unmap
\* it finds none: if the call neither faults nor touches a page table's own page.
MapIsSeen ==
  [][ Intact' /\ ~fault' =>
        \A v \in VirtPages :
          /\ UnmapPage(v) => Walk(v)' = Absent
          /\ \A frame \in Frames, present \in BOOLEAN :
               MapPage(v, frame, present) =>
                 NoMemory(v) \/ Walk(v)' = Entry(frame, present) ]_pagingVars

Space == INSTANCE AddressSpace WITH
  mapping <- [v \in {u \in Virtual : Walk(u).present} |-> Walk(v).frame]

\* Each call is the call of the address space with the same arguments, and what other
\* callers allocate and free changes no mapping: as long as the page tables stay
\* where they are and mapped.
ImplementsAddressSpace ==
  /\ Space!Init
  /\ [][ Intact' /\ ~fault' =>
           /\ paging_init => Space!Enable
           /\ \A v \in VirtPages :
                /\ UnmapPage(v) => Space!Unmap(v)
                /\ \A frame \in Frames :
                     /\ MapPage(v, frame, TRUE) => \/ Space!Map(v, frame)
                                                   \/ NoMemory(v) /\ Space!Keep
                     /\ MapPage(v, frame, FALSE) => Space!Unmap(v)
           /\ IdentityStep => \/ Space!Map(First(todo), First(todo))
                              \/ NoMemory(First(todo)) /\ Space!Keep
           /\ OtherCallers => Space!Keep ]_pagingVars
=============================================================================
