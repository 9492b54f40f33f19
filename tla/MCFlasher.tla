----------------------------- MODULE MCFlasher ------------------------------
(* Model checking Flasher: pages of two chunks, files that end within one. *)
EXTENDS Flasher

HalfPages == [f \in Files |-> IF f = "app" THEN 3 ELSE 1]
=============================================================================
