-------------------------- MODULE CoSdoAnyClient --------------------------
(***************************************************************************)
(* The SDO server against any client: frames of every kind arrive at any   *)
(* time and in any order, in the middle of transfers of others too.        *)
(***************************************************************************)
EXTENDS CoSdoServer

CONSTANT Requests     \* the frames clients may send

ASSUME RequestAssumption == Requests \subseteq Frame

anyVars == <<serverVars, wires>>

AnyInit == ServerInit /\ toServer = <<>> /\ toClient = <<>>

\* A frame is received; the answers so far have been taken from the bus, and
\* the history starts again.
AnyRequest ==
  /\ \E f \in Requests : ServerReceive(f)
  /\ toClient' = <<>> /\ accepted' = {}
  /\ UNCHANGED <<mem, toServer>>

AnyNext == AnyRequest \/ ServerProcess

AnySpec == AnyInit /\ [][AnyNext]_anyVars

----------------------------------------------------------------------------
AnyTypeOK == ServerTypeOK /\ toServer \in Seq(Frame) /\ toClient \in Seq(Frame)

\* Whatever clients send, a segmented transfer stays inside its object: the
\* copy of the next segment, p_data + buffer_offset .. trans_data_len, neither
\* starts nor ends beyond CO_Sub_Object.len.
TransferInObject ==
  srv.state \in {"DOWNLOAD_SEGMENTED", "UPLOAD_SEGMENTED"} =>
    srv.offset <= srv.len /\ srv.len <= ObjLen[srv.obj]
=============================================================================
