------------------------------- MODULE MCMmu -------------------------------
(* The TLC instance of Mmu: the layout of link.ld, with one page of code.   *)
EXTENDS Mmu

\* Empty, a wrong translation of a page the kernel uses, and one of a page it does not map
MCStaleTlbs == {<<>>, TestPage :> TestPage + 1, BadPage :> DramPage}

\* The pages around the two regions, and the first of each entry further up
MCProbes ==
    {0, UartPage - 1, UartPage + Entries, DramPage - 1, DramPage + Entries,
     327681, 524288, 134217728, 1073741824}
=============================================================================
