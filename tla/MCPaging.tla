------------------------------ MODULE MCPaging ------------------------------
(***************************************************************************)
(* Ten pages of two bytes in words of two bits, 16 virtual pages and four  *)
(* entries a table.  Two static tables identity-map the pages 0 to 7.      *)
(***************************************************************************)
EXTENDS Paging

Free(addr, len) == [addr |-> addr, len |-> len, available |-> TRUE]
Reserved(addr, len) == [addr |-> addr, len |-> len, available |-> FALSE]

\* Memory up to the end of the identity map with a reserved region, and memory that
\* lies beyond it but for one page.
MCMemoryMaps ==
  {<<Free(0, 9), Reserved(9, 2), Free(11, 5)>>, <<Free(0, 9), Free(15, 9)>>}

MCCounts == {0, 1, 2}
MCStaticTables == <<1, 2>>

\* A page the allocator hands out inside the identity map and one outside it, and a
\* page beyond all memory.
MCVirtPages == {7, 8, 12}
MCFrames == {5, 8}
=============================================================================
