--------------------------- MODULE MCSmScheduler ---------------------------
(* SmScheduler with a table of three slots and two functions. *)
EXTENDS SmScheduler, TLC

CONSTANTS f, g

MCFns == {f, g}
MCRepeats == {2, 9}
=============================================================================
