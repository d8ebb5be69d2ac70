--------------------------- MODULE MCSmBootMaster ---------------------------
(* SmBootMaster with two nodes and a firmware of two segments.              *)
EXTENDS SmBootMaster
=============================================================================
