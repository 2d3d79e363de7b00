----------------------------- MODULE MCStage2Mmu -----------------------------
(* Tables of 3 words: 9 pages below the "gigabyte", of which the last three *)
(* are devices.  The layouts cross a level-3 table, leave a hole, and have  *)
(* a message page, as linux_mmp, kozos_mmp and sample_mmp do.               *)
EXTENDS Stage2Mmu

Linux  == <<[start |-> 0, pages |-> 2, msg |-> FALSE],
            [start |-> 2, pages |-> 3, msg |-> FALSE]>>
Kozos  == <<[start |-> 0, pages |-> 1, msg |-> FALSE],
            [start |-> 4, pages |-> 1, msg |-> TRUE]>>
Tiny   == <<[start |-> 1, pages |-> 2, msg |-> FALSE]>>

SomeLayouts == {Linux, Kozos, Tiny}

SomeDevices == <<[start |-> 8, pages |-> 1], [start |-> 6, pages |-> 1],
                 [start |-> 6, pages |-> 2]>>
=============================================================================
