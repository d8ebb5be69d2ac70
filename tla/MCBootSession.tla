---------------------------- MODULE MCBootSession ----------------------------
(* Two segments, of two packets and of one. *)
EXTENDS BootSession
MCSegChunks == <<2, 1>>
=============================================================================
