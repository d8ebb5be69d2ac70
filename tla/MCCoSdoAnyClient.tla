------------------------- MODULE MCCoSdoAnyClient -------------------------
(* CoSdoAnyClient on three objects, one with temporary data that take effect *)
(* after reset.  The frames include wrong sizes, toggle bits and end marks;  *)
(* what they carry is of no interest here.                                   *)
EXTENDS CoSdoAnyClient

MCObjects  == {"plain", "reset", "ext"}
MCObjLen   == [o \in MCObjects |-> CASE o = "plain" -> 4 [] o = "reset" -> 9 [] o = "ext" -> 9]
MCExt      == {"ext"}
MCReset    == {"reset"}
MCReadable == {"plain", "reset"}

MCRequests ==
  {AbortFrame}
  \cup {[Plain("UPLOAD_INITIATE") EXCEPT !.mux = m] : m \in Muxes}
  \cup {[Plain("UPLOAD_SEGMENT") EXCEPT !.t = t] : t \in {0, 1}}
  \cup {[Plain("DOWNLOAD_SEGMENT") EXCEPT !.t = t, !.c = c, !.data = Payload(0, 7)] :
          t \in {0, 1}, c \in BOOLEAN}
  \cup {[Plain("DOWNLOAD_INITIATE") EXCEPT !.mux = m, !.s = TRUE, !.size = n] :
          m \in MCObjects, n \in {9, 10, 65536 + 8}}
  \cup {[Plain("DOWNLOAD_INITIATE") EXCEPT !.mux = m, !.e = TRUE, !.s = s, !.size = 4,
                                           !.data = Payload(0, 4)] :
          m \in Muxes, s \in BOOLEAN}
=============================================================================
