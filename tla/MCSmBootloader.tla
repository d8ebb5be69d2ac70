--------------------------- MODULE MCSmBootloader ---------------------------
(* SmBootloader on small instances: two images of two segments.            *)
EXTENDS SmBootloader

MCBootTimes == {0, 300}
=============================================================================
