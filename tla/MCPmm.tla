------------------------------- MODULE MCPmm --------------------------------
(***************************************************************************)
(* Eight pages of two bytes in words of two bits.  The maps have a hole, a *)
(* reserved region, an end inside a page or inside a word, or reach beyond *)
(* the bitmap.                                                             *)
(***************************************************************************)
EXTENDS Pmm

Free(addr, len) == [addr |-> addr, len |-> len, available |-> TRUE]
Reserved(addr, len) == [addr |-> addr, len |-> len, available |-> FALSE]

MCMemoryMaps ==
  {<<Free(0, 15)>>, <<Free(0, 7), Reserved(7, 3), Free(10, 20)>>, <<Free(0, 2)>>}

\* Six pages, two pages more than the bitmap has, and a size that wraps to two.
MCMemUppers == {10, 18, 34}
MCAddrs == {0, 3, 6, 10, 12, 30}
MCSizes == {0, 3, 4}
MCCounts == 0..3
=============================================================================
