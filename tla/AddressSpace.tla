---------------------------- MODULE AddressSpace ----------------------------
(***************************************************************************)
(* What paging promises: a partial map from virtual pages to frames that a *)
(* call changes at the page it names and nowhere else.  A call that finds  *)
(* no memory for a page table leaves the map as it is.                     *)
(***************************************************************************)
EXTENDS Naturals

CONSTANT IdentityPages

VARIABLE mapping

Init == mapping = [v \in {} |-> v]

Enable == mapping' = [v \in IdentityPages |-> v]

Map(v, frame) ==
  mapping' = [u \in DOMAIN mapping \cup {v} |-> IF u = v THEN frame ELSE mapping[u]]

Unmap(v) == mapping' = [u \in DOMAIN mapping \ {v} |-> mapping[u]]

Keep == mapping' = mapping
=============================================================================
