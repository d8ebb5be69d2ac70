----------------------------- MODULE BootSession -----------------------------
(***************************************************************************)
(* One upgrade from end to end: the master's session (SmBootSlave), the     *)
(* serial link (libs/host/sm_host.c), the loader's host interface           *)
(* (boot_interface/sm_boot_host.c) and the boot loader (SmBootloader).       *)
(*                                                                         *)
(* The loader's steps are those of SmBootloader; a poll of its interface     *)
(* handles the command at the head of the link instead of an arbitrary one.  *)
(* The master waits for the answer of each command inside                   *)
(* sm_host_send_cmd_sync, and takes the first answer that comes: one that    *)
(* outlives the wait for it is taken for the answer of a later command.      *)
(***************************************************************************)
EXTENDS SmBootloader, SmBootSlave

CONSTANTS
  Firmware,    \* the image the master sends
  MaxFaults,   \* losses, broken answers, failed reads and power cuts
  MaxLate      \* waits that end although the answer may still come

ASSUME SessionAssumption ==
  /\ NumIf = 1
  /\ NumSeg = Last
  /\ Firmware \in Images
  /\ MaxFaults \in Nat /\ MaxLate \in Nat

VARIABLES
  pc,        \* "run", or "sync" while the master waits for an answer
  toLoader,  \* commands on the way, oldest first
  toMaster,  \* answers on the way
  seg,       \* boot_host->m_segment
  calm,      \* nothing has gone wrong yet
  faults, late, \* how much has
  inStep     \* every wait got its own answer, and the loader was not reset

masterVars == <<slv, out, reported, pc>>
linkVars   == <<toLoader, toMaster>>
trouble    == <<calm, faults, late, inStep>>
sessionVars == <<masterVars, linkVars, seg, trouble>>
allVars    == <<vars, sessionVars>>

NoSegment == [no |-> 0, data |-> <<>>]

\* The loader has an application that was checked and waits for a master.
SessionInit ==
  /\ Init
  /\ SlaveInit
  /\ m_status = "VALID" /\ ~flag /\ ~mainInfo.first
  /\ pc = "run"
  /\ toLoader = <<>> /\ toMaster = <<>>
  /\ seg = NoSegment
  /\ calm = TRUE /\ faults = 0 /\ late = 0 /\ inStep = TRUE

Fault ==
  /\ ~calm /\ faults < MaxFaults /\ faults' = faults + 1
  /\ UNCHANGED <<calm, late, inStep>>

-----------------------------------------------------------------------------
\* The master.

\* sm_boot_slave_process without a command to send.
MasterSkips ==
  /\ reported = "none" /\ pc = "run"
  /\ MaySkip(slv, out)
  /\ Core(slv, out)
  /\ UNCHANGED <<vars, pc, linkVars, seg, trouble>>

\* ... up to the wait for the answer.  An application does not listen.
MasterSends ==
  /\ reported = "none" /\ pc = "run"
  /\ MaySend(slv, out)
  /\ out' = Prepared(slv, out)
  /\ toLoader' = IF power = "app" THEN toLoader
                 ELSE Append(toLoader, Frame(slv, Prepared(slv, out)))
  /\ pc' = "sync"
  /\ UNCHANGED <<vars, slv, reported, toMaster, seg, trouble>>

\* The port refuses the command: the call returns -1, which no caller takes
\* for a failure.
MasterSendFails ==
  /\ reported = "none" /\ pc = "run"
  /\ MaySend(slv, out)
  /\ ~calm /\ late < MaxLate /\ late' = late + 1 /\ inStep' = FALSE
  /\ Core(slv, Advance(Prepared(slv, out), out.state))
  /\ UNCHANGED <<vars, pc, linkVars, seg, calm, faults>>

\* The wait ends with the first answer on the link; the segment asked for
\* next may be one the input cannot read.
MasterHears ==
  /\ pc = "sync" /\ toMaster # <<>>
  /\ LET s == CallbackSlave(slv, out, Head(toMaster))
         o == Advance(CallbackOutput(out, Head(toMaster)), out.state)
     IN \/ Core(s, o) /\ UNCHANGED trouble
        \/ CoreReadFails(s, o) /\ Fault
  /\ toMaster' = Tail(toMaster)
  /\ pc' = "run"
  /\ UNCHANGED <<vars, toLoader, seg>>

\* ... with one whose CRC is wrong: no callback, but 1 is returned.
MasterHearsNoise ==
  /\ pc = "sync" /\ toMaster # <<>>
  /\ Fault
  /\ Core(slv, Advance(out, out.state))
  /\ toMaster' = Tail(toMaster)
  /\ pc' = "run"
  /\ UNCHANGED <<vars, toLoader, seg>>

\* ... or because its time is over, with the answer lost or still to come.
AnswerMayCome == toMaster # <<>> \/ (toLoader # <<>> /\ power # "app")

MasterTimesOut ==
  /\ pc = "sync" /\ ~calm
  /\ \/ ~AnswerMayCome /\ UNCHANGED <<late, inStep>>
     \/ AnswerMayCome /\ late < MaxLate /\ late' = late + 1 /\ inStep' = FALSE
  /\ Core(TimedOutSlave(slv, out), TimedOutOutput(out))
  /\ pc' = "run"
  /\ UNCHANGED <<vars, linkVars, seg, calm, faults>>

MasterTimerExpires ==
  /\ reported = "none" /\ ~slv.expired /\ ~calm
  /\ slv' = [slv EXCEPT !.expired = TRUE]
  /\ UNCHANGED <<vars, out, reported, pc, linkVars, seg, trouble>>

Master ==
  \/ MasterSkips \/ MasterSends \/ MasterSendFails \/ MasterHears
  \/ MasterHearsNoise \/ MasterTimesOut

-----------------------------------------------------------------------------
\* The loader's host interface.

\* sm_seg_fill_data: a packet too many makes the segment overfull for good.
Filled(sg, f) ==
  IF sg.no = 0 \/ Len(sg.data) > SegChunks[sg.no] THEN sg
  ELSE [sg EXCEPT !.data = Append(sg.data, <<f.seg, f.chunk>>)]

\* sm_seg_is_full and sm_seg_is_valid: every packet of the announced segment,
\* in order.
Whole(sg) ==
  /\ sg.no \in 1..Last
  /\ sg.data = [c \in 1..SegChunks[sg.no] |-> <<sg.no, c>>]

Reply(cmd, ok) ==
  toMaster' = Append(toMaster, [cmd |-> cmd, ok |-> ok])

HandleRequest ==
  /\ RequestUpgrade(1)
  /\ Reply("REQUEST", reply'.ok)
  /\ UNCHANGED seg

\* Mutation: what the buffer holds is kept.
MutHandleSegInfo(f) ==
  /\ NoEvent
  /\ seg' = [seg EXCEPT !.no = f.seg]
  /\ Reply("SEG_INFO", TRUE)

\* Taken in whatever state the loader is.
HandleSegInfo(f) ==
  /\ NoEvent
  /\ seg' = [no |-> f.seg, data |-> <<>>]
  /\ Reply("SEG_INFO", TRUE)

\* A full segment that is wrong, and one that is not full, are acknowledged.
HandleSegData(f) ==
  /\ seg' = Filled(seg, f)
  /\ \/ /\ Whole(seg')
        /\ NewSegment(seg'.no, Firmware)
        /\ calm /\ m_state = "UPGRADING" => reply'.ok
        /\ Reply("SEG_DATA", reply'.ok)
     \/ /\ ~Whole(seg')
        /\ NoEvent
        /\ Reply("SEG_DATA", TRUE)

\* Mutation: the signature is stored without a look at the CRC.
MutHandleFwInfo ==
  /\ m_state = "UPGRADING"
  /\ mainInfo' = [image |-> Firmware, first |-> FALSE]
  /\ m_state' = "FINISH"
  /\ Answer("FW_INFO", TRUE, Firmware)
  /\ Reply("FW_INFO", TRUE)
  /\ UNCHANGED <<m_timeout, m_new_firmware, m_main_sign, m_enable, m_status,
                 m_retry, m_sub_sign, main, sub, subInfo, bootTime, seg>>

HandleFwInfo ==
  /\ FwInfo(Firmware)
  /\ calm /\ m_state = "UPGRADING" /\ main = Full(Firmware) => reply'.ok
  /\ Reply("FW_INFO", reply'.ok)
  /\ UNCHANGED seg

\* sm_boot_cmd_handle
Handle(f) ==
  \/ f.cmd = "REQUEST" /\ HandleRequest
  \/ f.cmd = "SEG_INFO" /\ HandleSegInfo(f)
  \/ f.cmd = "SEG_DATA" /\ HandleSegData(f)
  \/ f.cmd = "FW_INFO" /\ HandleFwInfo

\* sm_boot_host_process
HostProcess ==
  \/ /\ toLoader = <<>> \/ ~m_enable[1]
     /\ NoEvent
     /\ UNCHANGED <<linkVars, seg>>
  \/ /\ toLoader # <<>> /\ m_enable[1]
     /\ Handle(Head(toLoader))
     /\ toLoader' = Tail(toLoader)

LoaderPolls ==
  /\ WaitingPolled(1) \/ UpgradingPolled
  /\ HostProcess
  /\ UNCHANGED <<masterVars, trouble>>

LoaderSteps ==
  /\ \/ ProcessInit \/ ProcessPreparing \/ WaitingTimer \/ UpgradingTimer
     \/ ProcessFinish \/ ProcessFailure
  /\ UNCHANGED sessionVars

\* What a reset does to the loader's buffers.
LoaderRestarts ==
  /\ power = "reset" /\ Restart
  /\ toLoader' = <<>> /\ seg' = NoSegment
  /\ inStep' = FALSE
  /\ UNCHANGED <<masterVars, toMaster, calm, faults, late>>

LoaderTimerExpires == ~calm /\ TimerExpires /\ UNCHANGED sessionVars

LoaderLosesPower ==
  /\ PowerLoss
  /\ Fault
  /\ UNCHANGED <<masterVars, linkVars, seg>>

Loader == LoaderPolls \/ LoaderSteps \/ LoaderRestarts

-----------------------------------------------------------------------------
\* The link loses what it delivers next.
Lose ==
  /\ Fault
  /\ \/ toLoader # <<>> /\ toLoader' = Tail(toLoader) /\ UNCHANGED toMaster
     \/ toMaster # <<>> /\ toMaster' = Tail(toMaster) /\ UNCHANGED toLoader
  /\ UNCHANGED <<vars, masterVars, seg>>

\* From here on things may go wrong, and take longer than they should.
CalmEnds ==
  /\ calm /\ calm' = FALSE
  /\ UNCHANGED <<vars, masterVars, linkVars, seg, faults, late, inStep>>

SessionNext ==
  \/ Master \/ MasterTimerExpires
  \/ Loader \/ LoaderTimerExpires \/ LoaderLosesPower
  \/ Lose \/ CalmEnds

SessionSpec == SessionInit /\ [][SessionNext]_allVars

\* Both programs call their process functions for ever, and time passes.
FairSessionSpec ==
  /\ SessionSpec
  /\ WF_allVars(Master) /\ WF_allVars(MasterTimerExpires)
  /\ WF_allVars(Loader)

-----------------------------------------------------------------------------
\* Properties.

SessionTypeOK ==
  /\ TypeOK
  /\ slv \in Slaves /\ out \in Outputs
  /\ reported \in {"none", "success", "failure"}
  /\ pc \in {"run", "sync"}
  /\ toLoader \in Seq(Frames) /\ toMaster \in Seq(Answers)
  /\ seg.no \in 0..Last /\ seg.data \in Seq((0..Last) \X Nat)
  /\ calm \in BOOLEAN /\ inStep \in BOOLEAN
  /\ faults \in 0..MaxFaults /\ late \in 0..MaxLate

\* A signature whose first-time byte happened to be set is not checked.
Installed ==
  /\ mainInfo.image = Firmware
  /\ ~mainInfo.first => main = Full(Firmware)

\* A success the master reports is true, and stays true, whatever the link
\* lost, delayed or broke and however the loader was reset on the way.
SuccessIsInstalled ==
  slv.state = "FINISH" \/ reported = "success" => Installed

\* As long as every wait ended with the answer that belongs to it and the
\* loader was not reset, a segment the master has counted as done is in the
\* flash of the loader.
CountedSegmentIsWritten ==
  inStep => \A k \in 1..Last : k < slv.index => main[k] = Firmware

\* As long as every wait ended with the answer that belongs to it, a buffer
\* the loader finds full holds the announced segment, whatever was lost, broken
\* or repeated on the way: the CRC of the segment has nothing to refuse.
FullSegmentIsWhole ==
  inStep /\ seg.no # 0 /\ Len(seg.data) = SegChunks[seg.no] => Whole(seg)

\* The two together, over well-typed states: while the answers keep step, what
\* the loader finds full is whole and what the master counts is written.
SegmentsComeWhole ==
  SessionTypeOK /\ CountedSegmentIsWritten /\ FullSegmentIsWhole

\* The session ends with one report, whatever happens.
SessionEnds == <>(reported # "none")

\* A session in which nothing goes wrong ends with the firmware installed.
CalmSessionSucceeds == <>(~calm \/ reported = "success")

=============================================================================
