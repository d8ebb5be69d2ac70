-------------------------- MODULE BootCanopenOutput --------------------------
(***************************************************************************)
(* The master's CANopen output                                             *)
(* (master/boot-impl/output/sm_canopen_boot_output.c), as operators from the *)
(* output before to the output after.  There is one output in the program;   *)
(* what it has to say to a node goes out as one SDO download at a time, and   *)
(* m_step counts the downloads of a segment or of the firmware info.  It      *)
(* moves in two ways: by the callback that ends a download, and by the node's *)
(* own write to the master's object "boot state".                            *)
(***************************************************************************)
EXTENDS Integers, Sequences

CONSTANTS Nodes, NoNode, NoFw
ASSUME OutputAssumption == NoNode \notin Nodes

OutStates == {"IDLE", "REQUEST", "SEND_FW_INFO", "SEND_SEG"}

StepItems == {"size", "crc", "version", "seg_addr", "seg_data", "seg_crc"}

\* The downloads of a state, in the order of m_step.
Items == [s \in OutStates |->
  CASE s = "SEND_FW_INFO" -> <<"size", "crc", "version">>
    [] s = "SEND_SEG"     -> <<"seg_addr", "seg_data", "seg_crc">>
    [] OTHER              -> <<>>]

NoSeg == [no |-> 0, fw |-> NoFw, last |-> FALSE]

\* sm_get_co_boot_output; owner is the session the callbacks are registered
\* for, 0 while there is none.
OutputInit ==
  [state |-> "IDLE", step |-> -1, node |-> NoNode, fw |-> NoFw, seg |-> NoSeg,
   wait |-> FALSE, owner |-> 0]

\* sm_boot_canopen_reg_event_callback: the last session to register has all
\* the callbacks.
Register(o, h) == [o EXCEPT !.owner = h]

-----------------------------------------------------------------------------
\* sm_boot_canopen_process.

\* Mutation: the node of the last session keeps the output.
MutFree(o) == [o EXCEPT !.state = "IDLE", !.step = -1, !.seg = NoSeg, !.fw = NoFw]

\* Mutation: what was going on goes on.
MutFreeState(o) == [o EXCEPT !.node = NoNode, !.seg = NoSeg, !.fw = NoFw]

\* sm_boot_canopen_free; neither the callbacks nor m_is_wait_response.
Free(o) == [o EXCEPT !.state = "IDLE", !.step = -1, !.node = NoNode,
                     !.seg = NoSeg, !.fw = NoFw]

\* sm_boot_canopen_request_upgrade: one node at a time.
Requests(o, n) ==
  IF o.node \notin {NoNode, n} THEN o
  ELSE [o EXCEPT !.node = n, !.state = "REQUEST"]

\* sm_boot_canopen_set_fw_info and sm_boot_canopen_set_seg_fw take whatever
\* session calls them, for the node of the last request.
Takes(o) == o.node # NoNode

SetFwInfo(o, fw) ==
  IF Takes(o) THEN [o EXCEPT !.fw = fw, !.state = "SEND_FW_INFO", !.step = -1] ELSE o

SetSegFw(o, seg) ==
  IF Takes(o) THEN [o EXCEPT !.seg = seg, !.state = "SEND_SEG", !.step = -1] ELSE o

\* The guard all the sm_boot_canopen_send_... share.
MaySend(o, busy) == ~busy /\ ~o.wait

SendsStep(o, busy) == o.step + 1 \in DOMAIN Items[o.state] /\ MaySend(o, busy)

\* sm_boot_canopen_send_fw_size, _crc, _version, _seg_addr, _data, _crc
Download(o) ==
  [node |-> o.node, item |-> Items[o.state][o.step + 1], seg |-> o.seg, fw |-> o.fw]

\* sm_boot_canopen_send_request_upgrade
RequestDownload(o) ==
  [node |-> o.node, item |-> "request", seg |-> NoSeg, fw |-> NoFw]

\* A new segment or info starts when the download before it has ended.
Restarts(o, busy) == Items[o.state] # <<>> /\ o.step < 0 /\ ~busy

-----------------------------------------------------------------------------
\* sm_boot_canopen_callback: a download has ended.

\* Mutation: a download that failed is still waited for.
MutEnded(o, ok) ==
  CASE ~ok /\ o.step < 0 -> o
    [] ~ok /\ o.step >= 0 -> [o EXCEPT !.step = -1]
    [] ok /\ o.state = "REQUEST" -> [o EXCEPT !.wait = FALSE]
    [] ok /\ o.state = "SEND_FW_INFO" /\ o.step >= 2 ->
         [o EXCEPT !.wait = FALSE, !.step = -1]
    [] OTHER -> [o EXCEPT !.wait = FALSE, !.step = o.step + 1]

Ended(o, ok) ==
  CASE ~ok /\ o.step < 0 -> [o EXCEPT !.wait = FALSE]
    [] ~ok /\ o.step >= 0 -> [o EXCEPT !.wait = FALSE, !.step = -1]
    [] ok /\ o.state = "REQUEST" -> [o EXCEPT !.wait = FALSE]
    [] ok /\ o.state = "SEND_FW_INFO" /\ o.step >= 2 ->
         [o EXCEPT !.wait = FALSE, !.step = -1]
    [] OTHER -> [o EXCEPT !.wait = FALSE, !.step = o.step + 1]

\* What the callback tells the session.
\* Mutation: the firmware counts as taken before its version is sent.
MutEndedTells(o, ok) ==
  CASE ~ok /\ o.step >= 0 /\ o.state = "SEND_SEG" -> "seg_failed"
    [] ~ok /\ o.step >= 0 /\ o.state = "SEND_FW_INFO" -> "fw_failed"
    [] ok /\ o.step >= 1 /\ o.state = "SEND_FW_INFO" -> "fw_done"
    [] OTHER -> "nothing"

EndedTells(o, ok) ==
  CASE ~ok /\ o.step >= 0 /\ o.state = "SEND_SEG" -> "seg_failed"
    [] ~ok /\ o.step >= 0 /\ o.state = "SEND_FW_INFO" -> "fw_failed"
    [] ok /\ o.step >= 2 /\ o.state = "SEND_FW_INFO" -> "fw_done"
    [] OTHER -> "nothing"

-----------------------------------------------------------------------------
\* sm_boot_canopen_response_state_handle: some node has written "boot state";
\* which one does not show.
\* Mutation: any boot state will do.
MutLoaded(o, st) == o.state = "SEND_SEG"

Loaded(o, st) == st = "LOADING_SERVER" /\ o.state = "SEND_SEG"

ReportTells(o, st) ==
  CASE Loaded(o, st) /\ o.step >= 2 -> "seg_done"
    [] ~Loaded(o, st) /\ o.state = "REQUEST" -> "ready"
    [] OTHER -> "nothing"

Reported(o, st) ==
  CASE ReportTells(o, st) = "seg_done" -> [o EXCEPT !.step = -1]
    [] ReportTells(o, st) = "ready" -> [o EXCEPT !.state = "IDLE"]
    [] OTHER -> o

=============================================================================
