----------------------------- MODULE ModbusUpgrade -----------------------------
(***************************************************************************)
(* An upgrade over Modbus: the session of the sending side                  *)
(* (boot-core/sm_boot_slave.c), its output                                   *)
(* (boot-impl/output/sm_modbus_rtu_boot_output.c), the client and server of   *)
(* nanoMODBUS under their wrappers (common/modbus), and the input of the      *)
(* receiving side (boot-impl/input/sm_modbus_rtu_boot_input.c).               *)
(*                                                                         *)
(* The client's calls block: pc names the call that waits.  The receiving     *)
(* side looks at its line only while it has no whole segment in hand, so a    *)
(* call may run out of time although its answer is still to come, and the     *)
(* answer is then read by a later call.  Another user of the client makes     *)
(* calls of his own, AppCalls.                                               *)
(***************************************************************************)
EXTENDS NanoModbus, SmBootSlave

CONSTANTS
  SegBytes,    \* m_size of every segment
  BSS_MODBUS_FILE_MAX_LEN, \* registers of a frame
  Unit,        \* the address of the receiving side
  AppCalls,    \* calls of another user of the client
  MaxApp,      \* how many of them
  MaxLine,     \* items on the line at which a misread answer leaves no rest
  MaxTrouble   \* frames the line spoils, loses or carries to other units, and
               \* calls that end although their answer may come

ASSUME ModbusAssumption ==
  /\ Unit \in 1..255
  /\ MaxApp \in Nat /\ MaxLine \in Nat /\ MaxTrouble \in Nat

FILE_SEG_FRAME_SIZE == 2 * BSS_MODBUS_FILE_MAX_LEN

\* sm_boot_modbus_rtu_set_seg_info rounds the number of frames up; a frame and
\* its index fit into one request.
ASSUME FrameAssumption ==
  /\ BSS_MODBUS_FILE_MAX_LEN \in 1..122
  /\ \A n \in 1..Last :
       /\ SegBytes[n] \in Nat
       /\ SegBytes[n] - (SegChunks[n] - 1) * FILE_SEG_FRAME_SIZE \in 1..FILE_SEG_FRAME_SIZE

S == INSTANCE SequencesExt

VARIABLES
  pc,         \* "run", or what the call that waits is for
  call,       \* the request of that call
  toUnit, toClient,   \* the line, one sequence for each direction
  input,      \* g_modbus_rtu_boot: segment state, number, frames, total
  taken,      \* the last segment the receiving side took from its input
  appLeft,    \* calls the other user may still make
  executed,   \* the last request the server's callbacks saw while a call waits
  faults, late,
  inStep      \* no call ended without its own answer

mbVars  == <<pc, call, toUnit, toClient, executed>>
devVars == <<input, taken>>
trouble == <<faults, late, inStep>>
vars == <<slv, out, reported, mbVars, devVars, appLeft, trouble>>

-----------------------------------------------------------------------------
\* The registers of the upgrade.  The file's are those of the input; the OTA
\* status and the reboot request are named by the output only, so what is
\* behind them is not known here.
FILE_TYPE   == 31
FRAME_INDEX == 40
OTA_STATUS  == 100
BP_REBOOT   == 101

Words == 0..65535

\* The other user calls the library with what its types allow (a coil is a
\* bool), and leaves the registers of the upgrade alone.
ASSUME AppAssumption ==
  \A c \in AppCalls :
    /\ c = Call(c.unit, c.fc, c.addr, c.qty, c.file, c.data)
    /\ c.unit \in 0..255 /\ c.fc \in KnownCodes
    /\ {c.addr, c.qty, c.file} \subseteq Words
    /\ c.fc = 5 => c.qty \in {0, CoilOn}
    /\ c.fc \in WriteRegs => c.addr \notin {FILE_TYPE, FRAME_INDEX}

NoCall      == Call(Unit, 3, 0, 1, 0, <<>>)
StatusCall  == Call(Unit, 3, OTA_STATUS, 1, 0, <<>>)
FwInfoCall  == Call(Unit, 16, FILE_TYPE, 7, 0, <<"fw">>)
RebootCall  == Call(Unit, 16, BP_REBOOT, 1, 0, <<"reboot">>)
\* sm_modbus_rtu_build_segment_info_packet: number, CRC, address, frames
InfoCall(s) ==
  Call(Unit, 16, FILE_TYPE, 8, 0, <<"info", s.index, SegChunks[s.index]>>)
\* Mutation: the last frame is as long as the others.
MutBufLen(n, k) == FILE_SEG_FRAME_SIZE

\* buf_len: the bytes of frame k of segment n.
BufLen(n, k) ==
  IF k >= SegChunks[n] - 1 THEN SegBytes[n] - k * FILE_SEG_FRAME_SIZE
                           ELSE FILE_SEG_FRAME_SIZE

\* sm_modbus_rtu_build_segment_data_packet: the frame's index and its bytes, of
\* which an odd last one is in no register.
DataCall(s, o) ==
  Call(Unit, 16, FRAME_INDEX, 1 + BufLen(s.index, o.frame) \div 2, 0,
       <<"data", s.index, o.frame>>)

Statuses == {"IDLE", "BUSY", "FINISHED", "FAILURE"}

MbStates == {"IDLE", "REQUEST", "SEG_INFO", "SEG_DATA", "FW_INFO"}
PCs == {"run", "fwinfo", "reboot", "ready?", "busy?", "finished?", "failed?",
        "info", "data", "app"}
SegStates == {"IDLE", "LOADING", "FULL", "WAITING"}

MbInit ==
  /\ slv = [state |-> "IDLE", repeat |-> 0, waiting |-> FALSE,
            expired |-> TRUE, index |-> 1]
  /\ reported = "none"
  /\ out = [state |-> "IDLE", frame |-> 0, expired |-> TRUE]
  /\ pc = "run" /\ call = NoCall
  /\ toUnit = <<>> /\ toClient = <<>>
  /\ input = [state |-> "IDLE", no |-> 0, total |-> 0, data |-> <<>>]
  /\ taken = 0
  /\ appLeft = MaxApp
  /\ executed = Request(NoCall)
  /\ faults = 0 /\ late = 0 /\ inStep = TRUE

-----------------------------------------------------------------------------
\* The session's switch, after the output's process has left s and o
\* (sm_boot_slave_process).

\* A call begins: the wrappers of sm_mb_master_impl.c set the unit and call
\* the library, which builds the frame and writes it to the port.
Calls(c, for) ==
  /\ call' = c /\ pc' = for
  /\ toUnit' = Append(toUnit, Request(c))

NoCallMade == pc' = "run" /\ call' = NoCall /\ UNCHANGED toUnit

\* sm_boot_modbus_rtu_request_upgrade: the first of its two calls.
SwitchRequest(s, o) ==
  /\ s.state = "REQUEST" /\ s.expired
  /\ slv' = [s EXCEPT !.repeat = s.repeat + 1] /\ out' = [o EXCEPT !.frame = 0]
  /\ Calls(FwInfoCall, "fwinfo")
  /\ UNCHANGED reported

\* sm_boot_modbus_rtu_set_seg_info, sm_boot_modbus_rtu_set_fw_info
SetSegInfo(o) == [o EXCEPT !.state = "SEG_INFO", !.frame = 0, !.expired = FALSE]
SetFirmware(o)  == [o EXCEPT !.state = "FW_INFO", !.expired = FALSE]

SwitchFwInfo(s, o) ==
  /\ s.state = "SEND_FW_INFO" /\ s.expired
  /\ slv' = Repeated(s, s) /\ out' = SetFirmware(o)
  /\ NoCallMade /\ UNCHANGED reported

SwitchSegment(s, o) ==
  /\ s.state = "SEND_SEG" /\ ~s.waiting
  /\ slv' = Repeated(s, [s EXCEPT !.waiting = TRUE]) /\ out' = SetSegInfo(o)
  /\ NoCallMade /\ UNCHANGED reported

\* Mutation: a segment that is never confirmed is waited for.
MutSwitchOther(s, o) ==
  /\ \/ s.state = "IDLE" /\ slv' = [s EXCEPT !.state = "REQUEST"]
     \/ s.state \in {"REQUEST", "SEND_FW_INFO"} /\ ~s.expired /\ slv' = s
     \/ s.state = "SEND_SEG" /\ s.waiting /\ slv' = s
  /\ out' = o
  /\ NoCallMade /\ UNCHANGED reported

SwitchOther(s, o) ==
  /\ \/ s.state = "IDLE" /\ slv' = [s EXCEPT !.state = "REQUEST"]
     \/ s.state \in {"REQUEST", "SEND_FW_INFO"} /\ ~s.expired /\ slv' = s
     \/ s.state = "SEND_SEG" /\ s.waiting /\ ~s.expired /\ slv' = s
     \/ /\ s.state = "SEND_SEG" /\ s.waiting /\ s.expired
        /\ slv' = [s EXCEPT !.state = "ABORT", !.expired = FALSE]
  /\ out' = o
  /\ NoCallMade /\ UNCHANGED reported

SwitchEnd(s, o) ==
  /\ s.state \in {"FINISH", "ABORT"}
  /\ reported' = IF s.state = "FINISH" THEN "success" ELSE "failure"
  /\ slv' = s /\ out' = [o EXCEPT !.state = "IDLE", !.frame = 0]
  /\ NoCallMade

Switch(s, o) ==
  \/ SwitchRequest(s, o) \/ SwitchFwInfo(s, o) \/ SwitchSegment(s, o)
  \/ SwitchOther(s, o) \/ SwitchEnd(s, o)

-----------------------------------------------------------------------------
\* sm_boot_modbus_rtu_process up to its first call.

Running == reported = "none" /\ pc = "run"

\* Nothing to ask: idle, or before the next period.
OutputSkips ==
  /\ Running
  /\ out.state = "IDLE" \/ (out.state # "SEG_DATA" /\ ~out.expired)
  /\ Switch(slv, out)
  /\ UNCHANGED <<toClient, executed, devVars, appLeft, trouble>>

OutputCalls ==
  /\ Running
  /\ \/ out.state = "REQUEST" /\ out.expired /\ Calls(StatusCall, "ready?")
     \/ out.state = "SEG_INFO" /\ out.expired /\ Calls(StatusCall, "busy?")
     \/ out.state = "FW_INFO" /\ out.expired /\ Calls(StatusCall, "finished?")
     \/ out.state = "SEG_DATA" /\ Calls(DataCall(slv, out), "data")
  /\ UNCHANGED <<slv, out, reported, toClient, executed, devVars, appLeft, trouble>>

\* Both timers are looked at between two calls only.
OutputTimer ==
  /\ Running /\ ~out.expired
  /\ out' = [out EXCEPT !.expired = TRUE]
  /\ UNCHANGED <<slv, reported, mbVars, devVars, appLeft, trouble>>

SlaveTimer ==
  /\ Running /\ ~slv.expired
  /\ slv' = [slv EXCEPT !.expired = TRUE]
  /\ UNCHANGED <<out, reported, mbVars, devVars, appLeft, trouble>>

\* What follows when the call that waits ends with result, and a read with
\* status.  The callbacks are those the session registered; the one for an
\* abort is not among them (line 109 of sm_boot_slave.c names another event),
\* so a slave that reports FAILURE or FINISHED early ends the program.
Crash == reported' = "crash" /\ UNCHANGED <<slv, out>> /\ NoCallMade

Later == [out EXCEPT !.expired = FALSE]

AfterStatus(status) ==
  CASE pc = "ready?" /\ status = "IDLE" -> Switch(ConfirmReady(slv, TRUE), Later)
    [] pc = "ready?" /\ status \in {"BUSY", "UNKNOWN"} -> Switch(slv, Later)
    [] pc = "busy?" /\ status = "BUSY" -> Switch(slv, Later)
    [] pc = "busy?" /\ status \in {"IDLE", "UNKNOWN"} ->
         Calls(InfoCall(slv), "info") /\ UNCHANGED <<slv, out, reported>>
    [] pc = "finished?" /\ status = "FINISHED" ->
         Switch(ConfirmFwInfo(slv, TRUE), out)
    [] pc = "finished?" /\ status # "FINISHED" ->
         Calls(StatusCall, "failed?") /\ UNCHANGED <<slv, out, reported>>
    [] pc = "failed?" /\ status = "FAILURE" ->
         Switch(ConfirmFwInfo(slv, FALSE), out)
    [] pc = "failed?" /\ status # "FAILURE" -> Switch(slv, Later)
    [] OTHER -> Crash

\* Mutation: a frame that failed counts like one that arrived.
MutAfterData(result) ==
  LET o == [out EXCEPT !.frame = out.frame + 1] IN
    IF o.frame >= SegChunks[slv.index]
      THEN Switch(ConfirmSeg(slv, TRUE), o) ELSE Switch(slv, o)

\* The last frame of a segment confirms it, any frame that fails fails it.
\* After a failure the process of the session goes straight on.
AfterData(result) ==
  LET o == [out EXCEPT !.frame = out.frame + 1] IN
    CASE result # "NONE" -> Switch(ConfirmSeg(slv, FALSE), out)
      [] result = "NONE" /\ o.frame >= SegChunks[slv.index] ->
           Switch(ConfirmSeg(slv, TRUE), o)
      [] OTHER -> Switch(slv, o)

\* Mutation: the data is sent whether or not the announcement arrived.
MutAfterInfo(result) ==
  Switch(slv, [out EXCEPT !.state = "SEG_DATA", !.frame = 0])

AfterInfo(result) ==
  Switch(slv, IF result = "NONE" THEN [out EXCEPT !.state = "SEG_DATA", !.frame = 0]
                                 ELSE Later)

\* request_upgrade returns into the switch of the session.
Requested ==
  [slv EXCEPT !.expired = FALSE,
              !.state = IF slv.repeat >= RepeatMax THEN "ABORT" ELSE "REQUEST"]

\* The rest of request_upgrade: the reboot request, then the output waits for
\* the slave.  A failure tells the session READY = false, which changes nothing.
AfterFwInfo(result) ==
  IF result = "NONE"
    THEN Calls(RebootCall, "reboot") /\ UNCHANGED <<slv, out, reported>>
    ELSE slv' = Requested /\ NoCallMade /\ UNCHANGED <<out, reported>>

AfterReboot(result) ==
  /\ slv' = Requested
  /\ out' = IF result = "NONE" THEN [out EXCEPT !.state = "REQUEST", !.expired = FALSE]
                               ELSE out
  /\ NoCallMade /\ UNCHANGED reported

Ends(result, status) ==
  /\ executed' = Request(NoCall) /\ UNCHANGED appLeft
  /\ CASE pc \in {"ready?", "busy?", "finished?", "failed?"} ->
            AfterStatus(IF result = "NONE" THEN status ELSE "UNKNOWN")
       [] pc = "data" -> AfterData(result)
       [] pc = "info" -> AfterInfo(result)
       [] pc = "fwinfo" -> AfterFwInfo(result)
       [] pc = "reboot" -> AfterReboot(result)
       [] pc = "app" -> NoCallMade /\ UNCHANGED <<slv, out, reported>>

\* What a status read returns: the register's value, or whatever another
\* register held when the answer belongs to an earlier read.
StatusesOf(r) == {st \in Statuses : r.data = <<"status", st>>
                                    \/ ~\E x \in Statuses : r.data = <<"status", x>>}

-----------------------------------------------------------------------------
\* The client's wait.

InFlight == Len(toUnit) + Len(toClient)

\* recv_..._res: the whole answer is read, or its rest stays on the line.
Hears ==
  /\ pc # "run" /\ toClient # <<>> /\ Head(toClient).kind = "answer"
  /\ LET r == Head(toClient) IN
       /\ toClient' = (IF RefusedEarly(call, r) /\ InFlight <= MaxLine
                         THEN <<Junk>> ELSE <<>>) \o Tail(toClient)
       /\ inStep' = (inStep /\ ~RefusedEarly(call, r))
       /\ \E status \in StatusesOf(r) : Ends(Outcome(call, r), status)
  /\ UNCHANGED <<devVars, faults, late>>

\* ... or it starts in the middle of something.
HearsJunk ==
  /\ pc # "run" /\ toClient # <<>> /\ Head(toClient).kind = "junk"
  /\ toClient' \in {line \in Garbled(toClient) : line = <<>> \/ InFlight <= MaxLine}
  /\ inStep' = FALSE
  /\ Ends("INVALID_RESPONSE", "IDLE")
  /\ UNCHANGED <<devVars, faults, late>>

AnswerMayCome == toClient # <<>> \/ toUnit # <<>>

TimesOut ==
  /\ pc # "run"
  /\ \/ ~AnswerMayCome /\ UNCHANGED <<late, inStep>>
     \/ AnswerMayCome /\ faults + late < MaxTrouble /\ late' = late + 1 /\ inStep' = FALSE
  /\ Ends("TIMEOUT", "IDLE")
  /\ UNCHANGED <<toClient, devVars, faults>>

\* The other user of the client.  A frame of his to another unit, a broadcast
\* included, counts among the faults: its rest may eat the frames behind it.
AppCall ==
  /\ Running /\ appLeft > 0 /\ appLeft' = appLeft - 1
  /\ \E c \in AppCalls :
       IF ClientRefuses(c) THEN UNCHANGED <<pc, call, toUnit, faults>>
       ELSE /\ c.unit # Unit => faults + late < MaxTrouble
            /\ faults' = faults + IF c.unit = Unit THEN 0 ELSE 1
            /\ IF WaitsForAnswer(c) THEN Calls(c, "app")
               ELSE toUnit' = Append(toUnit, Request(c)) /\ UNCHANGED <<pc, call>>
  /\ UNCHANGED <<slv, out, reported, toClient, executed, devVars, late, inStep>>

-----------------------------------------------------------------------------
\* The receiving side.

\* A frame as it arrives: the registers after the index, as bytes.
Piece(d, qty) == [frame |-> d, bytes |-> 2 * (qty - 1)]

\* sm_seg_fill_data: a frame too many makes the segment overfull, which it
\* stays until it is announced again.
Filled(seg, piece) ==
  IF Len(seg.data) > seg.total THEN seg ELSE [seg EXCEPT !.data = Append(@, piece)]

\* Mutation: what the buffer holds is kept.
MutFileType(d) ==
  IF d[1] # "info" THEN [state |-> input, err |-> 0]
  ELSE [err |-> 0, state |-> [state |-> "LOADING", no |-> d[2], total |-> d[3],
                              data |-> input.data]]

\* sm_write_multiple_registers_callback: the announcement of the firmware and
\* of a segment share their first register.
FileType(d) ==
  IF d[1] # "info" THEN [state |-> input, err |-> 0]
  ELSE [err |-> 0, state |-> [state |-> "LOADING", no |-> d[2], total |-> d[3],
                              data |-> <<>>]]

\* The last frame by its index, not by the bytes received, fills the segment.
FileFrame(d, qty) ==
  IF input.state # "LOADING" THEN [state |-> input, err |-> -2]
  ELSE [err |-> 0, state |-> LET seg == Filled(input, Piece(d, qty)) IN
          IF input.total <= d[3] + 1 THEN [seg EXCEPT !.state = "FULL"] ELSE seg]

\* The callbacks of the input: registers may be written and holding registers
\* read, nothing else.
Served == {3, 6, 16}

Callback(f) ==
  IF f.fc = 16 /\ f.addr = FILE_TYPE THEN FileType(f.data)
  ELSE IF f.fc = 16 /\ f.addr = FRAME_INDEX THEN FileFrame(f.data, f.qty)
  ELSE [state |-> input, err |-> 0]

\* What the registers read as.
Read(f) == IF f.fc = 3 /\ f.addr = OTA_STATUS THEN {<<"status", s>> : s \in Statuses}
           ELSE {f.data}

\* sm_modbus_rtu_process: the line is looked at only while no whole segment
\* is in hand.  nmbs_server_poll serves one frame.
Polls == input.state \in {"IDLE", "LOADING"} /\ toUnit # <<>>

Serves ==
  /\ Polls /\ Head(toUnit).kind = "request" /\ ~LeavesRest(Unit, Head(toUnit))
  /\ LET f == Head(toUnit)  code == Refusal(f, f.fc \in Served) IN
       IF code # 0
         THEN /\ toClient' = Append(toClient, Exception(f, code))
              /\ UNCHANGED <<input, executed>>
         ELSE \E data \in Read(f) :
                /\ input' = Callback(f).state
                /\ executed' = IF pc = "run" THEN executed ELSE f
                /\ toClient' = Append(toClient, Reply(f, Callback(f).err, data))
  /\ toUnit' = Tail(toUnit)
  /\ UNCHANGED <<slv, out, reported, pc, call, taken, appLeft, trouble>>

PollsPast ==
  /\ Polls
  /\ \/ /\ Head(toUnit).kind = "request" /\ LeavesRest(Unit, Head(toUnit))
        /\ toUnit' = <<Junk>> \o Tail(toUnit)
     \/ Head(toUnit).kind = "junk" /\ toUnit' \in Garbled(toUnit)
  /\ UNCHANGED <<slv, out, reported, pc, call, toClient, executed, devVars, appLeft,
                 trouble>>

\* The receiving side's own session takes the segment (get_seg_fw) and is
\* done with it (seg_upgrade_completed).
Takes ==
  /\ input.state = "FULL"
  /\ input' = [input EXCEPT !.state = "WAITING"]
  /\ taken' = input.no
  /\ UNCHANGED <<slv, out, reported, mbVars, appLeft, trouble>>

Completes ==
  /\ input.state = "WAITING"
  /\ input' = [input EXCEPT !.state = "IDLE"]
  /\ UNCHANGED <<slv, out, reported, mbVars, taken, appLeft, trouble>>

Device == Serves \/ PollsPast \/ Takes \/ Completes

-----------------------------------------------------------------------------
\* The line spoils or loses a frame (one the port refuses is lost at once), or
\* carries one to another unit.
Spoils ==
  /\ faults + late < MaxTrouble /\ faults' = faults + 1
  /\ \/ \E i \in DOMAIN toUnit : toUnit' = [toUnit EXCEPT ![i] = Junk]
                                   /\ UNCHANGED toClient
     \/ \E i \in DOMAIN toClient : toClient' = [toClient EXCEPT ![i] = Junk]
                                   /\ UNCHANGED toUnit
     \/ \E i \in DOMAIN toUnit : toUnit' = S!RemoveAt(toUnit, i) /\ UNCHANGED toClient
     \/ \E i \in DOMAIN toClient : toClient' = S!RemoveAt(toClient, i) /\ UNCHANGED toUnit
  /\ UNCHANGED <<slv, out, reported, pc, call, executed, devVars, appLeft, late,
                 inStep>>

ForeignFrame ==
  /\ faults + late < MaxTrouble /\ faults' = faults + 1
  /\ pc = "run" /\ reported = "none"
  /\ toUnit' = Append(toUnit, Request(Call((Unit % 255) + 1, 6, 0, 1, 0, <<>>)))
  /\ UNCHANGED <<slv, out, reported, pc, call, toClient, executed, devVars, appLeft,
                 late, inStep>>

Master == OutputSkips \/ OutputCalls \/ Hears \/ HearsJunk \/ TimesOut

Next ==
  \/ Master \/ OutputTimer \/ SlaveTimer \/ AppCall \/ Device \/ Spoils \/ ForeignFrame

Spec ==
  /\ MbInit /\ [][Next]_vars
  /\ WF_vars(Master) /\ WF_vars(Device)
  /\ SF_vars(OutputTimer) /\ SF_vars(SlaveTimer)

-----------------------------------------------------------------------------
\* Properties.

MbFrames(line) == {line[i] : i \in DOMAIN line} \ {Junk}

TypeOK ==
  /\ slv \in Slaves /\ reported \in {"none", "success", "failure", "crash"}
  /\ out \in [state : MbStates, frame : Nat, expired : BOOLEAN]
  /\ pc \in PCs
  /\ \A f \in MbFrames(toUnit) : f.kind = "request" /\ f.fc \in KnownCodes
  /\ \A r \in MbFrames(toClient) : r.kind = "answer" /\ r.fc % 128 \in KnownCodes
  /\ input.state \in SegStates /\ Len(input.data) <= input.total + 1
  /\ taken \in 0..Last
  /\ faults + late \in 0..MaxTrouble
  /\ inStep \in BOOLEAN

Lossless == faults = 0

\* What ought to arrive of frame k of segment n: all its bytes, but the last
\* one of a segment of odd size, which sm_modbus_rtu_boot_output.c:89 drops.
Arrives(n, k) ==
  [frame |-> <<"data", n, k>>,
   bytes |-> IF k = SegChunks[n] - 1
               THEN SegBytes[n] - (SegBytes[n] % 2) - k * FILE_SEG_FRAME_SIZE
               ELSE FILE_SEG_FRAME_SIZE]

\* A segment the receiving side takes for full holds every frame of it, in
\* order, although nothing but the index of the last frame is looked at; a
\* segment of even size holds every byte, one of odd size all but its last.  It
\* holds for answers that come late as long as the line loses nothing, and for
\* a line that loses frames as long as every call got its own answer.
FullSegmentIsWhole ==
  (Lossless \/ inStep) /\ input.state \in {"FULL", "WAITING"} =>
    input.data = [f \in 1..input.total |-> Arrives(input.no, f - 1)]

\* Between two frames of a segment both sides have counted the same number,
\* of the same segment, when every call so far got its own answer.
FramesAgree ==
  inStep /\ pc = "run" /\ reported = "none" /\ out.state = "SEG_DATA" =>
    input.state = "LOADING" /\ input.no = slv.index /\ Len(input.data) = out.frame

\* The segments the receiving side takes come without a gap (one may come
\* twice, when its last answer is lost or late), and the upgrade is not
\* reported as done while one is missing.
NoSegmentSkipped ==
  /\ (Lossless \/ inStep) /\ input.state = "FULL" => input.no <= taken + 1
  /\ inStep /\ reported = "success" =>
       Last \in {taken, IF input.state = "FULL" THEN input.no ELSE 0}

\* The frames of every segment, and the segments of the firmware, come whole
\* (but for the last byte of an odd segment) and in order at the receiving side,
\* whose count agrees with the sender's.
SegmentsComeWhole == TypeOK /\ FramesAgree /\ FullSegmentIsWhole /\ NoSegmentSkipped

\* The client refuses every argument the server would refuse: its exceptions
\* for an illegal address or value never answer a call of this client.
ClientChecksSuffice ==
  \A r \in MbFrames(toClient) :
    r.fc > 128 => r.qty \notin {ILLEGAL_DATA_ADDRESS, ILLEGAL_DATA_VALUE}

\* A call of the other user that succeeds, in step, was the last request the
\* receiving side's callbacks saw, with the very same arguments.
AppResultIsOwn ==
  [][pc = "app" /\ pc' = "run" /\ inStep' /\ toClient' # toClient
       /\ Outcome(call, Head(toClient)) = "NONE"
       => executed = Request(call)]_vars

\* Whatever the line does, the session ends: by success, by giving up after its
\* repetitions, or at the abort nobody registered for.
SessionEnds == <>(reported # "none")

=============================================================================
