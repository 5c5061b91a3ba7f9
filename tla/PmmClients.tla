----------------------------- MODULE PmmClients -----------------------------
(***************************************************************************)
(* The page allocator under the callers it was written for: after pmm_init *)
(* they allocate pages and free, once, what they were given.               *)
(***************************************************************************)
EXTENDS Pmm

\* Sums of the addresses of managed memory and of the kernel do not wrap (1 GB and
\* a kernel at 1 MB, in 4 GB), and page 0 is never handed out.
ASSUME ClientAssumption ==
  /\ MAX_PAGES * PAGE_SIZE + PAGE_SIZE <= ADDRESS_SPACE
  /\ kernel_end + PAGE_SIZE <= ADDRESS_SPACE
  /\ LOW_MEMORY > 0

VARIABLES
  held,           \* pages handed out and not freed
  kept,           \* the bitmap pmm_init left: pages that are not for callers
  usable          \* the regions of the map it was given

clientVars == <<pmmVars, held, kept, usable>>

ClientInit == PmmInit /\ held = {} /\ kept = {} /\ usable = {}

BootWithMap ==
  /\ ~ready
  /\ ready' = TRUE
  /\ \E map \in MemoryMaps :
       pmm_init(map) /\ usable' = {r \in {map[k] : k \in DOMAIN map} : r.available}
  /\ kept' = bitmap'
  /\ UNCHANGED <<ret, region_freed, overrun, held>>

\* The pages a caller believes it owns after pmm_alloc_pages(count).
Allocate(count) ==
  /\ AllocPages(count)
  /\ held' = IF ret' = 0 THEN held
             ELSE held \cup ADDR_TO_PAGE(ret')..(ADDR_TO_PAGE(ret') + count - 1)
  /\ UNCHANGED <<kept, usable>>

\* A caller frees a run of pages that it holds.
Release(page, count) ==
  LET run == page..(page + count - 1)
  IN  /\ count > 0 /\ run \subseteq held
      /\ IF count = 1 THEN FreePage(PAGE_TO_ADDR(page))
                      ELSE FreePages(PAGE_TO_ADDR(page), count)
      /\ held' = held \ run
      /\ UNCHANGED <<kept, usable>>

ClientNext ==
  \/ BootWithMap
  \/ \E count \in Counts : Allocate(count)
  \/ \E page \in Pages, count \in Counts : Release(page, count)

-----------------------------------------------------------------------------
Bytes(page) == PAGE_TO_ADDR(page)..(PAGE_TO_ADDR(page + 1) - 1)

\* Every byte of the page is available memory above the first megabyte and outside
\* the kernel.
UsablePage(page) ==
  \A b \in Bytes(page) :
    /\ b >= LOW_MEMORY
    /\ b \notin kernel_start..(kernel_end - 1)
    /\ \E r \in usable : r.addr <= b /\ b < r.addr + r.len
=============================================================================
