----------------------------- MODULE MCHypTimer -----------------------------
(* Values for the constants of HypTimer that a cfg cannot write down. *)
EXTENDS HypTimer

SomeSleeps == {-3, 0, 2, 3, 5}
=============================================================================
