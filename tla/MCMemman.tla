------------------------------ MODULE MCMemman ------------------------------
(* A small memory map, in bytes, with pages of four bytes: ranges that are not
   aligned, one without a whole page, and one that runs past the bitmap. *)
EXTENDS Memman

Entry(t, b, l) == [type |-> t, base |-> b, length |-> l]

SmallMap ==
  << Entry(Reclaimable, 4, 9),     \* pages 1, 2
     Entry(Usable, 30, 12),        \* pages 8, 9
     Entry("other", 0, 4),
     Entry(Usable, 17, 5),         \* no whole page
     Entry(Usable, 20, 8),         \* pages 5, 6
     Entry(Reclaimable, 48, 40) >> \* page 12 and beyond
=============================================================================
