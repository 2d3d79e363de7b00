---------------------------- MODULE AddressSpaces ----------------------------
(***************************************************************************)
(* What map_page_table promises to vm_create: each VM has a map from its   *)
(* intermediate physical pages to physical pages, and mapping a page       *)
(* changes this page of this VM and nothing else.                          *)
(***************************************************************************)
CONSTANTS Vms, Pages, Frames

VARIABLE space  \* the partial map of each VM

Init == space = [v \in Vms |-> <<>>]

Map(v, page, frame) ==
  space' = [space EXCEPT ![v] =
              [p \in DOMAIN @ \cup {page} |-> IF p = page THEN frame ELSE @[p]]]

Next == \E v \in Vms, page \in Pages, frame \in Frames : Map(v, page, frame)

Spec == Init /\ [][Next]_space
=============================================================================
