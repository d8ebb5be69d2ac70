----------------------------- MODULE SmBootMaster -----------------------------
(***************************************************************************)
(* Several upgrades over CANopen: the master's table of slaves              *)
(* (master/boot-core/sm_boot_master.c), the session of each                  *)
(* (sm_boot_slave.c) and the one CANopen output they share.  The CANopen core *)
(* and the loaders of the nodes are not in the repository: a node serves the  *)
(* downloads in order, erases for a request, keeps a segment whose three       *)
(* parts fit, and writes its boot state to the master.                        *)
(*                                                                         *)
(* Sessions are numbered as they are created; the heap keeps what a pointer   *)
(* to a freed one would find.                                                *)
(***************************************************************************)
EXTENDS BootCanopenOutput, FiniteSets

CONSTANTS
  Firmwares,   \* what an input may hold
  TableSize,   \* SM_BOOT_SLAVE_MAX_SUPPORT
  NumSeg,      \* segments of a firmware
  RepeatMax,   \* SM_BOOT_SLAVE_REPEAT_MAX
  MaxCalls,    \* calls of add_slave and remove_slave
  MaxTrouble   \* downloads lost, inputs failing, waits given up too early

ASSUME MasterAssumption ==
  /\ NoFw \notin Firmwares
  /\ TableSize \in Nat \ {0} /\ NumSeg \in Nat \ {0} /\ RepeatMax \in Nat \ {0}
  /\ MaxCalls \in Nat /\ MaxTrouble \in Nat

VARIABLES
  m_slaves,        \* slot -> session, 0 is NULL
  m_slave_number,
  heap,            \* sm_boot_slave_t, in the order of creation
  out,             \* the output
  sdo,             \* the download in progress, with how far it is
  reports,         \* node -> boot states on their way to the master
  dev,             \* node -> its loader
  calls, troubles,
  alone,           \* no session met another one, or what one left behind
  dangling         \* a callback was called for a freed session

tableVars == <<m_slaves, m_slave_number>>
busVars   == <<sdo, reports, dev>>
history   == <<calls, troubles, alone, dangling>>
vars      == <<tableVars, heap, out, busVars, history>>

Slots == 1..TableSize
Segs  == 1..NumSeg
NoSdo == [phase |-> "none", d |-> RequestDownload(OutputInit)]
Busy  == sdo # NoSdo        \* sm_co_sdo_is_busy

Slv == INSTANCE SmBootSlave WITH slv <- heap, reported <- calls,
                                 SegChunks <- [k \in Segs |-> 1], RetryMax <- 1

MasterInit ==
  /\ m_slaves = [i \in Slots |-> 0] /\ m_slave_number = 0
  /\ heap = <<>> /\ out = OutputInit
  /\ sdo = NoSdo /\ reports = [n \in Nodes |-> <<>>]
  /\ dev = [n \in Nodes |-> [mode |-> "wait", addr |-> 0, data |-> NoSeg,
                             flash |-> [k \in Segs |-> NoFw], installed |-> NoFw]]
  /\ calls = 0 /\ troubles = 0 /\ alone = TRUE /\ dangling = FALSE

Filled == {i \in Slots : m_slaves[i] # 0}
InTable(h) == \E i \in Slots : m_slaves[i] = h
NothingOut == ~Busy /\ \A n \in Nodes : reports[n] = <<>>

-----------------------------------------------------------------------------
\* The table.

\* sm_boot_slave_create
NewSlave(n, fw) ==
  [id |-> n, live |-> TRUE, state |-> "IDLE", repeat |-> 0, waiting |-> FALSE,
   expired |-> TRUE, fw |-> fw, pos |-> 0, seg |-> NoSeg]

FreeSlots == {i \in Slots : m_slaves[i] = 0}
FirstFree == {i \in FreeSlots : \A j \in FreeSlots : i <= j}

\* A node that is in the table already gets the new input and output.
UpdateSlave(n, fw) ==
  /\ \E i \in Filled :
       /\ heap[m_slaves[i]].id = n
       /\ heap' = [heap EXCEPT ![m_slaves[i]].fw = fw, ![m_slaves[i]].pos = 0]
  /\ alone' = FALSE
  /\ UNCHANGED <<tableVars, out>>

\* A full table drops the new session, after it has registered itself.
CreateSlave(n, fw) ==
  /\ \A i \in Filled : heap[m_slaves[i]].id # n
  /\ heap' = Append(heap, NewSlave(n, fw))
  /\ out' = Register(out, Len(heap) + 1)
  /\ \/ FreeSlots = {} /\ UNCHANGED tableVars
     \/ /\ \E i \in FirstFree : m_slaves' = [m_slaves EXCEPT ![i] = Len(heap) + 1]
        /\ m_slave_number' = m_slave_number + 1
  /\ alone' = (alone /\ Filled = {} /\ NothingOut)

\* sm_boot_master_add_slave
AddSlave ==
  /\ calls < MaxCalls /\ calls' = calls + 1
  /\ \E n \in Nodes, fw \in Firmwares : UpdateSlave(n, fw) \/ CreateSlave(n, fw)
  /\ UNCHANGED <<busVars, troubles, dangling>>

\* sm_boot_slave_destroy
Destroyed(h) ==
  [heap EXCEPT ![h] = [NewSlave(heap[h].id, heap[h].fw) EXCEPT !.live = FALSE]]

\* Mutation: the count is not kept.
MutRemoveSlot(i, o) ==
  /\ m_slaves' = [m_slaves EXCEPT ![i] = 0]
  /\ heap' = Destroyed(m_slaves[i])
  /\ out' = Free(o)
  /\ UNCHANGED m_slave_number

\* sm_boot_master_remove_slave, when the output is o.
RemoveSlot(i, o) ==
  /\ m_slaves' = [m_slaves EXCEPT ![i] = 0]
  /\ m_slave_number' = m_slave_number - 1
  /\ heap' = Destroyed(m_slaves[i])
  /\ out' = Free(o)

\* .. for an id in the table.  No node has the id -1, which a search would find in
\* the first empty slot (sm_boot_slave_get_id of NULL) and count as a removal.
RemoveSlave ==
  /\ calls < MaxCalls /\ calls' = calls + 1
  /\ \E i \in Filled : RemoveSlot(i, out)
  /\ UNCHANGED <<busVars, troubles, alone, dangling>>

-----------------------------------------------------------------------------
\* sm_boot_slave_process of the session in slot i.

\* The output's process first.  Its period between two requests is a choice.
Process(o) ==
  {[o |-> [o EXCEPT !.wait = TRUE], sdo |-> [phase |-> "sent", d |-> d]] :
     d \in {RequestDownload(x) : x \in {y \in {o} : y.state = "REQUEST" /\ MaySend(y, Busy)}}
           \cup {Download(x) : x \in {y \in {o} : SendsStep(y, Busy)}}}
  \cup {[o |-> [x EXCEPT !.step = 0], sdo |-> sdo] : x \in {y \in {o} : Restarts(y, Busy)}}
  \cup {[o |-> x, sdo |-> sdo] :
          x \in {y \in {o} : ~SendsStep(y, Busy) /\ ~Restarts(y, Busy)}}

SwitchIdle(h, s, o) ==
  /\ s.state = "IDLE"
  /\ heap' = [heap EXCEPT ![h].state = "REQUEST"] /\ out' = o

SwitchRequest(h, s, o) ==
  /\ s.state = "REQUEST" /\ s.expired
  /\ heap' = [heap EXCEPT ![h] = Slv!Repeated(s, s)]
  /\ out' = Requests(o, s.id)

SwitchFwInfo(h, s, o) ==
  /\ s.state = "SEND_FW_INFO" /\ s.expired
  /\ heap' = [heap EXCEPT ![h] = Slv!Repeated(s, s)]
  /\ out' = SetFwInfo(o, s.fw)

\* get_seg_fw, the first time round: the next segment of the input.
NextSeg(s) ==
  IF s.repeat > 0 THEN s
  ELSE [s EXCEPT !.pos = s.pos + 1,
                 !.seg = [no |-> s.pos + 1, fw |-> s.fw, last |-> s.pos + 1 = NumSeg]]

\* An output that takes nothing leaves the session waiting all the same.
SwitchSegment(h, s, o) ==
  /\ s.state = "SEND_SEG" /\ ~s.waiting /\ (s.repeat > 0 \/ s.pos < NumSeg)
  /\ LET r == NextSeg(s)
         w == [Slv!Repeated(r, [r EXCEPT !.waiting = TRUE]) EXCEPT !.state =
                 IF Takes(o) THEN @ ELSE "SEND_SEG"]
     IN heap' = [heap EXCEPT ![h] = w] /\ out' = SetSegFw(o, r.seg)

\* Mutation: the session waits for a segment for ever.
MutSwitchOverdue(h, s, o) ==
  /\ s.state = "SEND_SEG" /\ s.waiting /\ s.expired
  /\ heap' = [heap EXCEPT ![h].expired = FALSE]
  /\ out' = o

SwitchOverdue(h, s, o) ==
  /\ s.state = "SEND_SEG" /\ s.waiting /\ s.expired
  /\ heap' = [heap EXCEPT ![h].state = "ABORT", ![h].expired = FALSE]
  /\ out' = o

SwitchWait(h, s, o) ==
  /\ ~s.expired
  /\ s.state \in {"REQUEST", "SEND_FW_INFO"} \/ (s.state = "SEND_SEG" /\ s.waiting)
  /\ UNCHANGED heap /\ out' = o

\* The input fails to read a segment, or has no more.
SwitchReadFails(h, s, o) ==
  /\ s.state = "SEND_SEG" /\ ~s.waiting /\ s.repeat = 0
  /\ IF s.pos = NumSeg THEN UNCHANGED troubles
     ELSE troubles < MaxTrouble /\ troubles' = troubles + 1
  /\ heap' = [heap EXCEPT ![h].state = "ABORT"] /\ out' = o

\* sm_boot_master_event_finish_download_callback, ..._abort_callback
SwitchEnd(i, s, o) ==
  /\ s.state \in {"FINISH", "ABORT"}
  /\ RemoveSlot(i, o)

ProcessSlave(i) ==
  /\ m_slave_number > 0 /\ i \in Filled
  /\ LET h == m_slaves[i]  s == heap[h] IN
       \E r \in Process(out) :
         /\ sdo' = r.sdo
         /\ \/ /\ \/ SwitchIdle(h, s, r.o) \/ SwitchRequest(h, s, r.o)
                  \/ SwitchFwInfo(h, s, r.o) \/ SwitchSegment(h, s, r.o)
                  \/ SwitchOverdue(h, s, r.o) \/ SwitchWait(h, s, r.o)
               /\ UNCHANGED <<tableVars, troubles>>
            \/ SwitchReadFails(h, s, r.o) /\ UNCHANGED tableVars
            \/ SwitchEnd(i, s, r.o) /\ UNCHANGED troubles
  /\ UNCHANGED <<reports, dev, calls, alone, dangling>>

\* A session gives up waiting although what it waits for is under way.
MayStillCome(s) ==
  \/ ~NothingOut \/ out.state = "REQUEST"
  \/ out.state \in {"SEND_SEG", "SEND_FW_INFO"} /\ out.step < 3

SlaveTimer(h) ==
  /\ heap[h].live /\ InTable(h) /\ ~heap[h].expired
  /\ heap' = [heap EXCEPT ![h].expired = TRUE]
  /\ IF out.owner = h /\ MayStillCome(heap[h])
       THEN troubles < MaxTrouble /\ troubles' = troubles + 1
       ELSE UNCHANGED troubles
  /\ UNCHANGED <<tableVars, out, busVars, calls, alone, dangling>>

-----------------------------------------------------------------------------
\* The callbacks, which run when the CANopen core hears of an end or a write.

\* Mutation: what has been confirmed is sent again.
MutConfirmSeg(s, success) ==
  IF ~success THEN [s EXCEPT !.waiting = FALSE]
  ELSE IF s.seg.last
    THEN [s EXCEPT !.state = "SEND_FW_INFO", !.expired = TRUE, !.waiting = FALSE]
    ELSE [s EXCEPT !.expired = FALSE, !.waiting = FALSE]

\* sm_boot_slave_event_slave_confirm_seg
ConfirmSeg(s, success) ==
  IF ~success THEN [s EXCEPT !.waiting = FALSE]
  ELSE IF s.seg.last
    THEN [s EXCEPT !.state = "SEND_FW_INFO", !.expired = TRUE, !.waiting = FALSE,
                   !.repeat = 0]
    ELSE [s EXCEPT !.repeat = 0, !.expired = FALSE, !.waiting = FALSE]

Told(s, what) ==
  CASE what = "ready"      -> Slv!ConfirmReady(s, TRUE)
    [] what = "seg_done"   -> ConfirmSeg(s, TRUE)
    [] what = "seg_failed" -> ConfirmSeg(s, FALSE)
    [] what = "fw_done"    -> Slv!ConfirmFwInfo(s, TRUE)
    [] what = "fw_failed"  -> Slv!ConfirmFwInfo(s, FALSE)

Tells(what) ==
  IF what = "nothing" THEN UNCHANGED <<heap, dangling>>
  ELSE LET h == out.owner IN
    IF heap[h].live THEN heap' = [heap EXCEPT ![h] = Told(@, what)] /\ UNCHANGED dangling
                    ELSE dangling' = TRUE /\ UNCHANGED heap

\* sm_boot_canopen_callback
SdoEnds ==
  /\ sdo.phase \in {"ok", "abort"}
  /\ LET ok == sdo.phase = "ok" IN out' = Ended(out, ok) /\ Tells(EndedTells(out, ok))
  /\ sdo' = NoSdo
  /\ UNCHANGED <<tableVars, reports, dev, calls, troubles, alone>>

\* sm_boot_canopen_response_state_handle
HearsReport(n) ==
  /\ reports[n] # <<>>
  /\ LET st == Head(reports[n]) IN
       out' = Reported(out, st) /\ Tells(ReportTells(out, st))
  /\ reports' = [reports EXCEPT ![n] = Tail(@)]
  /\ UNCHANGED <<tableVars, sdo, dev, calls, troubles, alone>>

-----------------------------------------------------------------------------
\* The nodes.  A node's client sends one boot state at a time.

Erased == [k \in Segs |-> NoFw]
Fits(e, d) == d.seg.no = e.addr /\ d.seg = e.data

Serve(n, d) ==
  LET e == dev[n]
      Answer(ok, new, rep) ==
        /\ sdo' = [sdo EXCEPT !.phase = IF ok THEN "ok" ELSE "abort"]
        /\ dev' = [dev EXCEPT ![n] = new]
        /\ reports' = IF rep = "" THEN reports ELSE [reports EXCEPT ![n] = Append(@, rep)]
  IN CASE d.item = "request" /\ e.mode = "wait" ->
            Answer(TRUE, [e EXCEPT !.mode = "load", !.flash = Erased, !.installed = NoFw,
                                   !.addr = 0, !.data = NoSeg], "READY")
       [] d.item = "request" /\ e.mode = "load" -> Answer(TRUE, e, "READY")
       [] d.item # "request" /\ e.mode = "wait" -> Answer(FALSE, e, "")
       [] d.item = "seg_addr" /\ e.mode = "load" ->
            Answer(TRUE, [e EXCEPT !.addr = d.seg.no, !.data = NoSeg], "")
       [] d.item = "seg_data" /\ e.mode = "load" -> Answer(TRUE, [e EXCEPT !.data = d.seg], "")
       [] d.item = "seg_crc" /\ e.mode = "load" ->
            IF Fits(e, d)
              THEN Answer(TRUE, [e EXCEPT !.flash[d.seg.no] = d.seg.fw, !.data = NoSeg],
                          "LOADING_SERVER")
              ELSE Answer(FALSE, e, "")
       [] d.item \in {"size", "crc"} /\ e.mode = "load" -> Answer(TRUE, e, "")
       [] d.item = "version" /\ e.mode = "load" ->
            IF \A k \in Segs : e.flash[k] = d.fw
              THEN Answer(TRUE, [e EXCEPT !.mode = "wait", !.installed = d.fw], "")
              ELSE Answer(FALSE, e, "")

NodeServes ==
  /\ sdo.phase = "sent"
  /\ sdo.d.item \in {"request", "seg_crc"} => reports[sdo.d.node] = <<>>
  /\ Serve(sdo.d.node, sdo.d)
  /\ UNCHANGED <<tableVars, heap, out, history>>

\* A download or its answer is lost: the core's timeout aborts it.
SdoLost ==
  /\ sdo.phase \in {"sent", "ok"} /\ troubles < MaxTrouble /\ troubles' = troubles + 1
  /\ sdo' = [sdo EXCEPT !.phase = "abort"]
  /\ UNCHANGED <<tableVars, heap, out, reports, dev, calls, alone, dangling>>

NodeRestarts(n) ==
  /\ dev[n].mode = "load" /\ troubles < MaxTrouble /\ troubles' = troubles + 1
  /\ dev' = [dev EXCEPT ![n].mode = "wait", ![n].addr = 0, ![n].data = NoSeg]
  /\ UNCHANGED <<tableVars, heap, out, sdo, reports, calls, alone, dangling>>

-----------------------------------------------------------------------------
Next ==
  \/ AddSlave \/ RemoveSlave
  \/ \E i \in Slots : ProcessSlave(i)
  \/ \E h \in DOMAIN heap : SlaveTimer(h)
  \/ SdoEnds \/ \E n \in Nodes : HearsReport(n)
  \/ NodeServes \/ SdoLost \/ \E n \in Nodes : NodeRestarts(n)

\* The main loop processes every slot and the CANopen core, nodes answer, and
\* time passes.
Spec ==
  /\ MasterInit /\ [][Next]_vars
  /\ \A i \in Slots : WF_vars(ProcessSlave(i))
  /\ WF_vars(SdoEnds) /\ WF_vars(NodeServes)
  /\ \A n \in Nodes : WF_vars(HearsReport(n))
  /\ \A h \in 1..MaxCalls : SF_vars(h \in DOMAIN heap /\ SlaveTimer(h))

-----------------------------------------------------------------------------
\* Properties.

Segments == [no : 0..NumSeg, fw : Firmwares \cup {NoFw}, last : BOOLEAN]
Downloads == [node : Nodes \cup {NoNode}, item : {"request"} \cup StepItems,
              seg : Segments, fw : Firmwares \cup {NoFw}]

\* Types; without another session about, the step and the number of
\* repetitions stay in their ranges.  With others about they need not: an output
\* that takes nothing keeps the session from testing its limit.
TypeOK ==
  /\ m_slaves \in [Slots -> 0..Len(heap)] /\ m_slave_number \in 0..TableSize
  /\ \A h \in DOMAIN heap :
       /\ heap[h].id \in Nodes /\ heap[h].state \in Slv!SlvStates
       /\ heap[h].repeat \in Nat /\ heap[h].pos \in 0..NumSeg
       /\ alone => heap[h].repeat <= RepeatMax
  /\ out.state \in OutStates /\ out.step >= -1 /\ (alone => out.step <= 3)
  /\ out.owner \in 0..Len(heap)
  /\ sdo.phase \in {"none", "sent", "ok", "abort"} /\ sdo.d \in Downloads
  /\ \A n \in Nodes : Len(reports[n]) <= 1

\* m_slave_number, which decides whether any session is processed, is the
\* number of sessions in the table.
NumberIsTable == m_slave_number = Cardinality(Filled)

\* The output is held for a node only while a session of that node is in the
\* table; otherwise it would refuse every other node for good.
OutputServesTable ==
  out.node # NoNode => \E i \in Filled : heap[m_slaves[i]].id = out.node

\* The output waits only for a download that is in progress, so it is never
\* mute for good.
WaitsOnlyForSdo == out.wait => Busy

\* A session that no other one met counts a segment as done only when the
\* node has written it, as long as no answer is lost: the report of a segment
\* whose last answer was lost may be taken for that of the next one.
Done(s) == IF s.waiting \/ s.repeat > 0 THEN s.pos - 1 ELSE s.pos
CountedSegmentIsWritten ==
  alone => \A h \in DOMAIN heap :
    InTable(h) /\ heap[h].state \in {"SEND_SEG", "SEND_FW_INFO"}
               /\ dev[heap[h].id].mode = "load" /\ troubles = 0 =>
      \A k \in 1..Done(heap[h]) : dev[heap[h].id].flash[k] = heap[h].fw

\* Without another session about, no callback is called for a freed one.
NoDanglingCallback == alone => ~dangling

\* A success is reported for a session only when its node has installed the
\* firmware of its input.
Succeeds(h) == InTable(h) /\ heap[h].state = "FINISH"
Installed(h) == dev[heap[h].id].installed = heap[h].fw
SuccessIsInstalled == \A h \in DOMAIN heap : alone /\ Succeeds(h) => Installed(h)

\* The table, the output it shares and the download in progress agree: nothing
\* is held, waited for or called that is no more.
OutputIsSound ==
  TypeOK /\ NumberIsTable /\ OutputServesTable /\ WaitsOnlyForSdo /\ NoDanglingCallback

\* What a session counts as written, and what it reports as installed, is.
ReportsAreTrue == CountedSegmentIsWritten /\ SuccessIsInstalled

\* Every session ends.
SessionEnds == \A h \in 1..MaxCalls :
  (h \in DOMAIN heap /\ InTable(h)) ~> (h \in DOMAIN heap /\ ~InTable(h))

\* A session that meets no other one and no trouble installs its firmware.
CalmUpgradeSucceeds == \A h \in 1..MaxCalls :
  (h \in DOMAIN heap /\ InTable(h)) ~>
    \/ troubles > 0 \/ ~alone \/ calls > 1
    \/ h \in DOMAIN heap /\ Installed(h) /\ ~InTable(h)

=============================================================================
