------------------------- MODULE MCInputCoordinator -------------------------
(***************************************************************************)
(* Model checking of the input coordinator.  Five inputs against a cutover *)
(* limit of two reach every case the limit distinguishes: queued before    *)
(* the cutover, during it, exactly at the limit and one above it.          *)
(***************************************************************************)
EXTENDS InputCoordinator
=============================================================================
