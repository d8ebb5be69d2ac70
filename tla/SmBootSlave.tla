----------------------------- MODULE SmBootSlave -----------------------------
(***************************************************************************)
(* The master's side of an upgrade over a host link: the session of one     *)
(* slave (master/boot-core/sm_boot_slave.c) and the output that carries it   *)
(* (master/boot-impl/output/sm_host_485_boot_output.c).  Both run inside     *)
(* sm_boot_slave_process(): first the output's process, which may send one   *)
(* command and wait for its answer, then the switch over the session state.  *)
(* Operators map the state before to the state after; the module that        *)
(* composes them with the link makes them actions.                           *)
(*                                                                         *)
(* Segment k is sent in SegChunks[k] packets of 128 bytes, the last of them  *)
(* perhaps shorter; m_index counts segments from 1 here.                     *)
(***************************************************************************)
EXTENDS Integers, Sequences

CONSTANTS
  SegChunks,   \* packets per segment, one entry for each segment
  RepeatMax,   \* SM_BOOT_SLAVE_REPEAT_MAX
  RetryMax     \* tries of a segment info before the segment is given up

Last == Len(SegChunks)

\* The inputs fill a segment before they begin the next: only the last may be
\* shorter.  The output goes by the length of the segment it was given last,
\* also when the next one could not be read.
ASSUME SlaveAssumption ==
  /\ SegChunks \in Seq(Nat \ {0}) /\ Last > 0
  /\ \A k \in 1..Last - 1 : SegChunks[k + 1] <= SegChunks[k]
  /\ RepeatMax \in Nat \ {0} /\ RetryMax \in Nat \ {0}

VARIABLES
  slv,      \* sm_boot_slave_t; expired: whether m_timeout has run out
  out,      \* sm_boot_host_sync_impl_t; offset in packets
  reported  \* what m_event_callback was told of the session

SlvStates == {"IDLE", "REQUEST", "SEND_FW_INFO", "SEND_SEG", "FINISH", "ABORT"}
Slaves == [state : SlvStates, repeat : 0..RepeatMax, waiting : BOOLEAN,
           expired : BOOLEAN, index : 1..(Last + 1)]
OutStates == {"IDLE", "REQUEST", "SEG_INFO", "SEG_DATA", "FW_INFO"}
Outputs == [state : OutStates, offset : Nat, last : BOOLEAN, retry : Nat]

\* sm_boot_slave_create, sm_boot_host_sync_init
SlaveInit ==
  /\ slv = [state |-> "IDLE", repeat |-> 0, waiting |-> FALSE,
            expired |-> TRUE, index |-> 1]
  /\ out = [state |-> "IDLE", offset |-> 0, last |-> FALSE, retry |-> 0]
  /\ reported = "none"

-----------------------------------------------------------------------------
\* The callbacks the session registers with its output.

\* The state of the session is not looked at: one that has given up is
\* taken up again.
ConfirmReady(s, success) ==
  IF success
    THEN [s EXCEPT !.repeat = 0, !.state = "SEND_SEG", !.expired = FALSE]
    ELSE s

ConfirmFwInfo(s, success) ==
  IF success THEN [s EXCEPT !.state = "FINISH"]
             ELSE [s EXCEPT !.expired = TRUE]

\* Mutation: m_repeat is reset whether or not the segment arrived.
MutConfirmSeg(s, success) ==
  CASE ~success -> [s EXCEPT !.waiting = FALSE, !.repeat = 0]
    [] success /\ s.index = Last ->
         [s EXCEPT !.index = s.index + 1, !.state = "SEND_FW_INFO",
                   !.expired = TRUE, !.waiting = FALSE, !.repeat = 0]
    [] OTHER ->
         [s EXCEPT !.index = s.index + 1, !.repeat = 0,
                   !.expired = FALSE, !.waiting = FALSE]

ConfirmSeg(s, success) ==
  CASE ~success -> [s EXCEPT !.waiting = FALSE]
    [] success /\ s.index = Last ->
         [s EXCEPT !.index = s.index + 1, !.state = "SEND_FW_INFO",
                   !.expired = TRUE, !.waiting = FALSE, !.repeat = 0]
    [] OTHER ->
         [s EXCEPT !.index = s.index + 1, !.repeat = 0,
                   !.expired = FALSE, !.waiting = FALSE]

\* sm_boot_host_sync_notify: the state of the output picks the callback.
Notify(s, o, success) ==
  CASE o.state = "REQUEST" -> ConfirmReady(s, success)
    [] o.state \in {"SEG_INFO", "SEG_DATA"} -> ConfirmSeg(s, success)
    [] o.state = "FW_INFO" -> ConfirmFwInfo(s, success)
    [] OTHER -> s

-----------------------------------------------------------------------------
\* sm_boot_host_sync_process up to the call that sends.

\* More of the segment is left.  Once it is not, the output says nothing
\* until it is given something new.
DataLeft(s, o) == o.offset < SegChunks[s.index]

\* Nothing is sent: idle, before the next period, or with no data left.
MaySkip(s, o) ==
  \/ o.state \in {"IDLE", "REQUEST", "SEG_INFO"}
  \/ o.state = "SEG_DATA" /\ ~DataLeft(s, o)

MaySend(s, o) ==
  \/ o.state \in {"REQUEST", "SEG_INFO", "FW_INFO"}
  \/ o.state = "SEG_DATA" /\ DataLeft(s, o)

\* Mutation: the last packet of a segment is recognised one packet early.
MutPrepared(s, o) ==
  IF o.state = "SEG_DATA"
    THEN [o EXCEPT !.last = o.last \/ o.offset + 2 >= SegChunks[s.index]]
    ELSE o

\* m_last_packet is set when the last packet is built.
Prepared(s, o) ==
  IF o.state = "SEG_DATA"
    THEN [o EXCEPT !.last = o.last \/ o.offset + 1 >= SegChunks[s.index]]
    ELSE o

Frame(s, o) ==
  [cmd |-> o.state, seg |-> IF o.state \in {"SEG_INFO", "SEG_DATA"}
                            THEN s.index ELSE 0,
   chunk |-> IF o.state = "SEG_DATA" THEN o.offset + 1 ELSE 0]

\* A packet is always one of its segment's.
Frames ==
  {f \in [cmd : OutStates \ {"IDLE"}, seg : 0..Last, chunk : Nat] :
     f.chunk > 0 => f.seg > 0 /\ f.chunk <= SegChunks[f.seg]}
Answers == [cmd : OutStates \ {"IDLE"}, ok : BOOLEAN]

-----------------------------------------------------------------------------
\* How sm_host_send_cmd_sync may end, and what the output makes of it.

\* m_seg_offset moves on after every packet, whatever became of it.
Advance(o, case) ==
  IF case = "SEG_DATA" THEN [o EXCEPT !.offset = o.offset + 1] ELSE o

\* Mutation: the command a positive answer belongs to is not compared.
MutCallbackSlave(s, o, a) ==
  CASE a.cmd = "REQUEST" /\ o.state = "REQUEST" -> Notify(s, o, TRUE)
    [] ~a.ok /\ ~(a.cmd = "REQUEST" /\ o.state = "REQUEST") ->
         Notify(s, o, FALSE)
    [] a.ok /\ o.state = "SEG_DATA" /\ o.last -> Notify(s, o, TRUE)
    [] a.ok /\ o.state = "FW_INFO" -> Notify(s, o, TRUE)
    [] OTHER -> s

\* sm_host_cmd_callback; an answer that does not belong to the state of the
\* output is ignored when positive, and taken for a failure of whatever is
\* going on when negative.
CallbackSlave(s, o, a) ==
  CASE a.cmd = "REQUEST" /\ o.state = "REQUEST" -> Notify(s, o, TRUE)
    [] ~a.ok /\ ~(a.cmd = "REQUEST" /\ o.state = "REQUEST") ->
         Notify(s, o, FALSE)
    [] a.ok /\ a.cmd = "SEG_DATA" /\ o.state = "SEG_DATA" /\ o.last ->
         Notify(s, o, TRUE)
    [] a.ok /\ a.cmd = "FW_INFO" /\ o.state = "FW_INFO" -> Notify(s, o, TRUE)
    [] OTHER -> s

CallbackOutput(o, a) ==
  IF a.ok /\ a.cmd = "SEG_INFO" /\ o.state = "SEG_INFO"
    THEN [o EXCEPT !.state = "SEG_DATA"] ELSE o

\* The wait returned 0: nothing came.
TimedOutOutput(o) ==
  Advance(IF o.state = "SEG_INFO" /\ o.retry < RetryMax
            THEN [o EXCEPT !.retry = o.retry + 1] ELSE o, o.state)

TimedOutSlave(s, o) ==
  IF \/ o.state \in {"SEG_DATA", "FW_INFO"}
     \/ o.state = "SEG_INFO" /\ o.retry + 1 >= RetryMax
    THEN Notify(s, o, FALSE) ELSE s

-----------------------------------------------------------------------------
\* The output's operations, as the session calls them.
SetRequest(o) ==
  [o EXCEPT !.state = "REQUEST", !.offset = 0, !.last = FALSE]
SetFwInfo(o) ==
  [o EXCEPT !.state = "FW_INFO", !.offset = 0, !.last = FALSE]
\* Mutation: the offset in the segment is not reset.
MutSetSegFw(o) ==
  [o EXCEPT !.state = "SEG_INFO", !.last = FALSE, !.retry = 0]

SetSegFw(o) ==
  [o EXCEPT !.state = "SEG_INFO", !.offset = 0, !.last = FALSE, !.retry = 0]

-----------------------------------------------------------------------------
\* The switch of sm_boot_slave_process, from what the output's process left.

\* A repetition too many ends the session, though what it repeats is still
\* handed to the output.
Repeated(s, again) ==
  [again EXCEPT !.repeat = s.repeat + 1, !.expired = FALSE,
                !.state = IF s.repeat + 1 >= RepeatMax THEN "ABORT"
                                                       ELSE s.state]

CoreIdle(s, o) ==
  /\ s.state = "IDLE"
  /\ slv' = [s EXCEPT !.state = "REQUEST"] /\ out' = o
  /\ UNCHANGED reported

CoreRequest(s, o) ==
  /\ s.state = "REQUEST" /\ s.expired
  /\ slv' = Repeated(s, s) /\ out' = SetRequest(o)
  /\ UNCHANGED reported

CoreFwInfo(s, o) ==
  /\ s.state = "SEND_FW_INFO" /\ s.expired
  /\ slv' = Repeated(s, s) /\ out' = SetFwInfo(o)
  /\ UNCHANGED reported

\* The first time round the segment is read from the input first.
CoreSegment(s, o) ==
  /\ s.state = "SEND_SEG" /\ ~s.waiting
  /\ slv' = Repeated(s, [s EXCEPT !.waiting = TRUE]) /\ out' = SetSegFw(o)
  /\ UNCHANGED reported

CoreReadFails(s, o) ==
  /\ s.state = "SEND_SEG" /\ ~s.waiting /\ s.repeat = 0
  /\ slv' = [s EXCEPT !.state = "ABORT"] /\ out' = o
  /\ UNCHANGED reported

CoreSegOverdue(s, o) ==
  /\ s.state = "SEND_SEG" /\ s.waiting /\ s.expired
  /\ slv' = [s EXCEPT !.state = "ABORT", !.expired = FALSE] /\ out' = o
  /\ UNCHANGED reported

CoreWait(s, o) ==
  /\ \/ s.state \in {"REQUEST", "SEND_FW_INFO"} /\ ~s.expired
     \/ s.state = "SEND_SEG" /\ s.waiting /\ ~s.expired
  /\ slv' = s /\ out' = o
  /\ UNCHANGED reported

\* The master is told and removes the slave, which frees the output.
CoreEnd(s, o) ==
  /\ s.state \in {"FINISH", "ABORT"}
  /\ reported' = IF s.state = "FINISH" THEN "success" ELSE "failure"
  /\ slv' = s /\ out' = [o EXCEPT !.state = "IDLE", !.offset = 0, !.last = FALSE]

Core(s, o) ==
  \/ CoreIdle(s, o) \/ CoreRequest(s, o) \/ CoreFwInfo(s, o)
  \/ CoreSegment(s, o) \/ CoreSegOverdue(s, o) \/ CoreWait(s, o)
  \/ CoreEnd(s, o)

=============================================================================
