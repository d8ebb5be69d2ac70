------------------------------ MODULE MCCoSdo ------------------------------
(* CoSdo on a small dictionary: a sub-object of its own, one with temporary *)
(* data and one with an extension, with one-frame and segmented lengths.    *)
EXTENDS CoSdo

MCObjects  == {"plain", "temp", "ext"}
MCObjLen   == [o \in MCObjects |-> CASE o = "plain" -> 4 [] o = "temp" -> 9 [] o = "ext" -> 15]
MCExt      == {"ext"}
MCTemp     == {"temp"}
MCNone     == {}
MCReadable == {"plain", "temp"}
MCWritable == MCObjects

\* Applications that write and read whole objects, one of which does not exist.
Whole(len) == [m \in MCObjects \cup {"none"} |-> IF m \in MCObjects THEN {len[m]} ELSE {4}]
MCWhole    == Whole(MCObjLen)

\* Two segments that the toggle bit cannot tell apart, neither of them the last:
\* four segments.  The other lengths need two of them, and differ in the last:
\* a server that expects 9 bytes takes one too many from a client that sends 8.
MCLateObjects == {"temp", "ext"}
MCLateLen     == [o \in MCLateObjects |-> CASE o = "temp" -> 22 [] o = "ext" -> 4]
MCLateLens    == [m \in MCLateObjects \cup {"none"} |->
                   CASE m = "temp" -> {8, 9, 22} [] m = "ext" -> {4} [] m = "none" -> {}]
MCLateReadable == {"temp"}
=============================================================================
