-------------------------------- MODULE MCPMM --------------------------------
(***************************************************************************)
(* Six frames of four bytes in an address space of sixteen; a word is the  *)
(* bits of six pages, and free_stack begins behind the second, so that the *)
(* bits of the last four pages are bits of its first entry.  The kernel    *)
(* fills one and a half frames.  The maps: low memory whose last page is   *)
(* cut, a hole, and the rest; two available regions that overlap, without  *)
(* low memory and with it; one with no page left for anyone; and one that  *)
(* reaches beyond the six frames.                                          *)
(***************************************************************************)
EXTENDS PMM

Usable(b, n)   == [base |-> b, length |-> n, available |-> TRUE]
Reserved(b, n) == [base |-> b, length |-> n, available |-> FALSE]

LowMaps == {<<Usable(0, 6), Reserved(4, 4), Usable(8, 16)>>,
            <<Reserved(0, 8), Usable(8, 13), Usable(16, 8)>>,
            <<Reserved(0, 8), Usable(8, 6)>>,
            <<Usable(0, 8), Usable(8, 13), Usable(16, 8)>>,
            <<Reserved(0, 16), Usable(16, 44)>>}
=============================================================================
