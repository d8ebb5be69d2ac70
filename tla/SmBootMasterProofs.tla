-------------------------- MODULE SmBootMasterProofs --------------------------
(***************************************************************************)
(* For every number of nodes, slots, segments, repetitions, calls and        *)
(* troubles:                                                                *)
(*   - the table, the one CANopen output all sessions share and the download *)
(*     in progress agree, whatever sessions come and go;                     *)
(*   - what a session that meets no other one counts as written and reports  *)
(*     as installed, is.                                                     *)
(*                                                                         *)
(* Three invariants, each resting on the one before.  BaseInv holds with any *)
(* number of sessions.  AloneInv adds, for a session that meets no other     *)
(* one, that output and session are at the same point of the upgrade.        *)
(* ReportInv adds what the loader of the node has: a download in progress    *)
(* belongs to what the output is at, and, without trouble, so does a report  *)
(* of the node that is still on its way.                                     *)
(***************************************************************************)
EXTENDS SmBootMaster, FiniteSetTheorems, SequenceTheorems, TLAPS

-----------------------------------------------------------------------------
(* Types, and what holds with any number of sessions.                        *)

Sessions == [id : Nodes, live : BOOLEAN, state : Slv!SlvStates, repeat : Nat,
             waiting : BOOLEAN, expired : BOOLEAN, fw : Firmwares, pos : 0..NumSeg,
             seg : Segments]
Outputs == [state : OutStates, step : Int, node : Nodes \cup {NoNode},
            fw : Firmwares \cup {NoFw}, seg : Segments, wait : BOOLEAN, owner : Nat]
Transfers == [phase : {"none", "sent", "ok", "abort"}, d : Downloads]
Loaders == [mode : {"wait", "load"}, addr : 0..NumSeg, data : Segments,
            flash : [Segs -> Firmwares \cup {NoFw}], installed : Firmwares \cup {NoFw}]
BootStates == {"READY", "LOADING_SERVER"}

Types ==
  /\ heap \in Seq(Sessions)
  /\ m_slaves \in [Slots -> 0..Len(heap)]
  /\ reports \in [Nodes -> Seq(BootStates)] /\ \A n \in Nodes : Len(reports[n]) <= 1
  /\ dev \in [Nodes -> Loaders]
  /\ calls \in Nat /\ troubles \in Nat /\ alone \in BOOLEAN /\ dangling \in BOOLEAN

\* The table points to sessions that exist, to each from one slot.
TableSound ==
  /\ \A i \in Filled : heap[m_slaves[i]].live
  /\ \A i, j \in Filled : m_slaves[i] = m_slaves[j] => i = j
  /\ NumberIsTable

\* An output o and a transfer d that agree: o waits for d, and is held for a
\* node whenever it has something to say.
Agree(o, d) ==
  /\ o \in Outputs /\ o.step >= -1 /\ d \in Transfers
  /\ o.wait <=> d.phase # "none"
  /\ d.phase = "none" => d = NoSdo
  /\ d.phase # "none" => d.d.node \in Nodes
  /\ o.state # "IDLE" => o.node # NoNode

\* The output's node has a session in the table.
Served(o) ==
  /\ o.owner <= Len(heap)
  /\ o.node # NoNode => \E i \in Filled : heap[m_slaves[i]].id = o.node

BaseInv == Types /\ TableSound /\ Agree(out, sdo) /\ Served(out)

-----------------------------------------------------------------------------
(* The output, whatever the sessions do.                                     *)

\* What the states of the output have to send.
LEMMA ItemsAre ==
  /\ Items["SEND_FW_INFO"] = <<"size", "crc", "version">>
  /\ Items["SEND_SEG"] = <<"seg_addr", "seg_data", "seg_crc">>
  /\ Items["IDLE"] = <<>> /\ Items["REQUEST"] = <<>>
BY DEF Items, OutStates

\* The segment an output begins with.
LEMMA SegmentTypes == NoSeg \in Segments
BY MasterAssumption DEF NoSeg, Segments

\* A step that may be sent is one of three.
LEMMA StepIsOne ==
  ASSUME NEW o \in Outputs, NEW b \in BOOLEAN, SendsStep(o, b), o.step >= -1
  PROVE  /\ o.state \in {"SEND_SEG", "SEND_FW_INFO"} /\ o.step \in 0..2 /\ ~b /\ ~o.wait
         /\ Items[o.state][o.step + 1] \in StepItems
         /\ o.state = "SEND_FW_INFO" =>
              Items[o.state][o.step + 1] \in {"size", "crc", "version"}
         /\ Items[o.state][o.step + 1] = "version" <=>
              o.state = "SEND_FW_INFO" /\ o.step = 2
         /\ Items[o.state][o.step + 1] = "seg_crc" <=>
              o.state = "SEND_SEG" /\ o.step = 2
<1>1. o.state \in OutStates /\ o.step \in Int
  BY DEF Outputs
<1>2. o.step + 1 \in DOMAIN Items[o.state] /\ ~b /\ ~o.wait
  BY DEF SendsStep, MaySend
<1>3. DOMAIN Items["SEND_FW_INFO"] = 1..3 /\ DOMAIN Items["SEND_SEG"] = 1..3
      /\ DOMAIN Items["IDLE"] = {} /\ DOMAIN Items["REQUEST"] = {}
  BY ItemsAre
<1>4. o.state \in {"SEND_SEG", "SEND_FW_INFO"} /\ o.step + 1 \in 1..3
  BY <1>1, <1>2, <1>3 DEF OutStates
<1>5. o.step \in 0..2
  BY <1>1, <1>4
<1>6. CASE o.state = "SEND_SEG"
  <2>1. Items[o.state][1] = "seg_addr" /\ Items[o.state][2] = "seg_data"
        /\ Items[o.state][3] = "seg_crc"
    BY <1>6, ItemsAre
  <2>2. QED
    BY <1>2, <1>4, <1>5, <1>6, <2>1 DEF StepItems
<1>7. CASE o.state = "SEND_FW_INFO"
  <2>1. Items[o.state][1] = "size" /\ Items[o.state][2] = "crc"
        /\ Items[o.state][3] = "version"
    BY <1>7, ItemsAre
  <2>2. QED
    BY <1>2, <1>4, <1>5, <1>7, <2>1 DEF StepItems
<1>8. QED
  BY <1>4, <1>6, <1>7

\* Starting with the first download of a segment or of the info.
LEMMA RestartIsOne ==
  ASSUME NEW o \in Outputs, NEW b \in BOOLEAN, Restarts(o, b)
  PROVE  o.state \in {"SEND_SEG", "SEND_FW_INFO"} /\ o.step < 0 /\ ~b
BY ItemsAre DEF Restarts, Outputs, OutStates

\* sm_boot_canopen_process: it sends a request, sends a step, begins, or does
\* nothing.
LEMMA ProcessCases ==
  ASSUME NEW o, NEW r \in Process(o)
  PROVE  \/ /\ o.state = "REQUEST" /\ MaySend(o, Busy)
            /\ r = [o |-> [o EXCEPT !.wait = TRUE],
                    sdo |-> [phase |-> "sent", d |-> RequestDownload(o)]]
         \/ /\ SendsStep(o, Busy)
            /\ r = [o |-> [o EXCEPT !.wait = TRUE],
                    sdo |-> [phase |-> "sent", d |-> Download(o)]]
         \/ Restarts(o, Busy) /\ r = [o |-> [o EXCEPT !.step = 0], sdo |-> sdo]
         \/ r = [o |-> o, sdo |-> sdo]
BY DEF Process

-----------------------------------------------------------------------------
(* The table.                                                                *)

\* What the other lemmas take from the invariant.
LEMMA BaseParts ==
  ASSUME BaseInv
  PROVE  /\ heap \in Seq(Sessions) /\ Len(heap) \in Nat /\ DOMAIN heap = 1..Len(heap)
         /\ m_slaves \in [Slots -> 0..Len(heap)] /\ Slots = 1..TableSize
         /\ Filled \subseteq Slots
         /\ \A i \in Filled : m_slaves[i] \in DOMAIN heap /\ heap[m_slaves[i]] \in Sessions
         /\ \A h \in DOMAIN heap : heap[h] \in Sessions
         /\ out \in Outputs /\ sdo \in Transfers /\ sdo.d \in Downloads
         /\ Busy <=> sdo.phase # "none"
         /\ Types /\ TableSound /\ Agree(out, sdo) /\ Served(out)
<1>1. heap \in Seq(Sessions) /\ m_slaves \in [Slots -> 0..Len(heap)]
  BY DEF BaseInv, Types
<1>2. Len(heap) \in Nat /\ DOMAIN heap = 1..Len(heap)
  BY <1>1, LenProperties
<1>3. \A h \in DOMAIN heap : heap[h] \in Sessions
  BY <1>1, <1>2, ElementOfSeq
<1>4. \A i \in Filled : i \in Slots /\ m_slaves[i] \in DOMAIN heap
  BY <1>1, <1>2 DEF Filled
<1>5. Agree(out, sdo)
  BY DEF BaseInv
<1>6. Busy <=> sdo.phase # "none"
  BY <1>5 DEF Agree, Busy, NoSdo
<1>7. out \in Outputs /\ sdo \in Transfers /\ sdo.d \in Downloads
  BY <1>5 DEF Agree, Transfers
<1>8. QED
  BY <1>1, <1>2, <1>3, <1>4, <1>6, <1>7 DEF BaseInv, Slots

\* A table has at most as many sessions as it has slots.
LEMMA FilledIsFinite ==
  ASSUME BaseInv
  PROVE  IsFiniteSet(Filled) /\ Cardinality(Filled) \in 0..TableSize
<1>1. IsFiniteSet(Slots) /\ Cardinality(Slots) = TableSize
  BY FS_Interval, MasterAssumption DEF Slots
<1>2. IsFiniteSet(Filled) /\ Cardinality(Filled) <= TableSize
  BY <1>1, FS_Subset, BaseParts
<1>3. QED
  BY <1>2, FS_CardinalityType, MasterAssumption

\* A session changes, and nothing in the table.
LEMMA SessionChanges ==
  ASSUME BaseInv, NEW h \in DOMAIN heap, NEW t \in Sessions,
         t.id = heap[h].id, t.live = heap[h].live,
         heap' = [heap EXCEPT ![h] = t], UNCHANGED tableVars
  PROVE  /\ heap' \in Seq(Sessions) /\ Len(heap') = Len(heap)
         /\ DOMAIN heap' = DOMAIN heap
         /\ \A k \in DOMAIN heap : heap'[k] = IF k = h THEN t ELSE heap[k]
         /\ m_slaves' = m_slaves /\ Filled' = Filled /\ TableSound'
         /\ \A o : Served(o) => Served(o)'
<1>1. heap \in Seq(Sessions) /\ DOMAIN heap = 1..Len(heap)
  BY BaseParts
<1>2. /\ heap' \in Seq(Sessions) /\ Len(heap') = Len(heap)
      /\ \A k \in DOMAIN heap : heap'[k] = IF k = h THEN t ELSE heap[k]
  BY <1>1, ExceptSeq
<1>3. DOMAIN heap' = DOMAIN heap
  BY <1>1, <1>2, LenProperties
<1>4. m_slaves' = m_slaves /\ m_slave_number' = m_slave_number /\ Filled' = Filled
  BY DEF tableVars, Filled
<1>5. \A i \in Filled : heap'[m_slaves[i]].live = heap[m_slaves[i]].live
                        /\ heap'[m_slaves[i]].id = heap[m_slaves[i]].id
  BY <1>2, BaseParts
<1>6. TableSound'
  BY <1>4, <1>5, BaseParts DEF TableSound, NumberIsTable
<1>7. ASSUME NEW o, Served(o)
      PROVE  Served(o)'
  BY <1>2, <1>4, <1>5, <1>7 DEF Served
<1>8. QED
  BY <1>2, <1>3, <1>4, <1>6, <1>7

\* Nothing in the table or of the sessions changes.
LEMMA SessionsStay ==
  ASSUME BaseInv, UNCHANGED <<tableVars, heap>>
  PROVE  /\ heap' = heap /\ m_slaves' = m_slaves /\ Filled' = Filled /\ TableSound'
         /\ \A o : Served(o) => Served(o)'
<1>1. heap' = heap /\ m_slaves' = m_slaves /\ m_slave_number' = m_slave_number
  BY DEF tableVars
<1>2. Filled' = Filled
  BY <1>1 DEF Filled
<1>3. TableSound'
  BY <1>1, <1>2, BaseParts DEF TableSound, NumberIsTable
<1>4. QED
  BY <1>1, <1>2, <1>3 DEF Served

\* A new session.
LEMMA NewSlaveType ==
  ASSUME NEW n \in Nodes, NEW fw \in Firmwares
  PROVE  /\ NewSlave(n, fw) \in Sessions
         /\ NewSlave(n, fw).id = n /\ NewSlave(n, fw).fw = fw /\ NewSlave(n, fw).live
         /\ NewSlave(n, fw).state = "IDLE" /\ NewSlave(n, fw).repeat = 0
         /\ NewSlave(n, fw).pos = 0 /\ ~NewSlave(n, fw).waiting
<1>1. PICK t, f : t = TRUE /\ f = FALSE
  OBVIOUS
<1>2. NewSlave(n, fw) =
        [id |-> n, live |-> t, state |-> "IDLE", repeat |-> 0, waiting |-> f,
         expired |-> t, fw |-> fw, pos |-> 0, seg |-> NoSeg]
  BY <1>1 DEF NewSlave
<1>3. "IDLE" \in Slv!SlvStates /\ 0 \in 0..NumSeg /\ 0 \in Nat /\ NoSeg \in Segments
      /\ t \in BOOLEAN /\ f \in BOOLEAN
  <2>1. "IDLE" \in Slv!SlvStates
    BY DEF Slv!SlvStates
  <2>2. 0 \in 0..NumSeg
    BY MasterAssumption
  <2>3. QED
    BY <1>1, <2>1, <2>2, SegmentTypes
<1>4. PICK s : s = NewSlave(n, fw)
  OBVIOUS
<1>5. s \in Sessions
  BY <1>2, <1>3, <1>4 DEF Sessions
<1>6. /\ s.id = n /\ s.fw = fw /\ s.live = t /\ s.state = "IDLE" /\ s.repeat = 0
      /\ s.pos = 0 /\ s.waiting = f
  BY <1>2, <1>4
<1>7. QED
  BY <1>1, <1>4, <1>5, <1>6

\* A session is taken out of the table: sm_boot_master_remove_slave.
LEMMA SlotRemoved ==
  ASSUME BaseInv, NEW i \in Filled, NEW o, RemoveSlot(i, o)
  PROVE  /\ heap' \in Seq(Sessions) /\ Len(heap') = Len(heap)
         /\ DOMAIN heap' = DOMAIN heap
         /\ \A k \in DOMAIN heap : k # m_slaves[i] => heap'[k] = heap[k]
         /\ ~heap'[m_slaves[i]].live /\ heap'[m_slaves[i]].repeat = 0
         /\ heap'[m_slaves[i]].state = "IDLE"
         /\ m_slaves' \in [Slots -> 0..Len(heap)]
         /\ Filled' = Filled \ {i} /\ \A j \in Filled' : m_slaves'[j] = m_slaves[j]
         /\ TableSound' /\ out' = Free(o)
<1> DEFINE h == m_slaves[i]
           t == [NewSlave(heap[h].id, heap[h].fw) EXCEPT !.live = FALSE]
<1>1. /\ heap \in Seq(Sessions) /\ DOMAIN heap = 1..Len(heap) /\ h \in DOMAIN heap
      /\ heap[h] \in Sessions /\ m_slaves \in [Slots -> 0..Len(heap)] /\ i \in Slots
      /\ Len(heap) \in Nat
  BY BaseParts
<1>2. heap' = [heap EXCEPT ![h] = t]
  BY DEF RemoveSlot, Destroyed
<1>3. t \in Sessions /\ ~t.live /\ t.repeat = 0 /\ t.state = "IDLE"
  <2>1. heap[h].id \in Nodes /\ heap[h].fw \in Firmwares
    BY <1>1 DEF Sessions
  <2>2. PICK s \in Sessions : s = NewSlave(heap[h].id, heap[h].fw)
    BY <2>1, NewSlaveType
  <2>3. s.state = "IDLE" /\ s.repeat = 0
    BY <2>1, <2>2, NewSlaveType
  <2>4. t = [s EXCEPT !.live = FALSE]
    BY <2>2
  <2>5. QED
    BY <2>3, <2>4 DEF Sessions
<1>4. /\ heap' \in Seq(Sessions) /\ Len(heap') = Len(heap)
      /\ \A k \in DOMAIN heap : heap'[k] = IF k = h THEN t ELSE heap[k]
  BY <1>1, <1>2, <1>3, ExceptSeq
<1>5. DOMAIN heap' = DOMAIN heap
  BY <1>1, <1>4, LenProperties
<1>6. m_slaves' = [m_slaves EXCEPT ![i] = 0] /\ m_slave_number' = m_slave_number - 1
      /\ out' = Free(o)
  BY DEF RemoveSlot
<1>7. Filled' = Filled \ {i} /\ \A j \in Filled' : m_slaves'[j] = m_slaves[j]
  BY <1>1, <1>6 DEF Filled
<1>8. \A j \in Filled' : m_slaves[j] # h
  BY <1>7, BaseParts DEF TableSound
<1>9. m_slave_number' = Cardinality(Filled')
  <2>1. Cardinality(Filled \ {i}) = Cardinality(Filled) - 1
    BY FilledIsFinite, FS_RemoveElement
  <2>2. m_slave_number = Cardinality(Filled)
    BY BaseParts DEF TableSound, NumberIsTable
  <2>3. QED
    BY <1>6, <1>7, <2>1, <2>2
<1>10. TableSound'
  <2>1. \A j \in Filled' : heap'[m_slaves'[j]].live
    BY <1>4, <1>7, <1>8, BaseParts DEF TableSound
  <2>2. \A j, k \in Filled' : m_slaves'[j] = m_slaves'[k] => j = k
    BY <1>7, BaseParts DEF TableSound
  <2>3. QED
    BY <1>9, <2>1, <2>2 DEF TableSound, NumberIsTable
<1>11. m_slaves' \in [Slots -> 0..Len(heap)]
  BY <1>1, <1>6
<1>12. QED
  BY <1>1, <1>3, <1>4, <1>5, <1>6, <1>7, <1>10, <1>11

-----------------------------------------------------------------------------
(* sm_boot_slave_process of one session.                                     *)

\* A download that is sent leaves the output waiting for it.
LEMMA SentAgrees ==
  ASSUME BaseInv, NEW d \in Downloads, d.node = out.node, out.state # "IDLE",
         NEW o, o = [out EXCEPT !.wait = TRUE], NEW x, x = [phase |-> "sent", d |-> d]
  PROVE  Agree(o, x) /\ Served(o)
<1>1. out \in Outputs /\ out.step >= -1 /\ Agree(out, sdo) /\ Served(out)
  BY BaseParts DEF Agree
<1>2. PICK t : t = TRUE
  OBVIOUS
<1>3. o = [out EXCEPT !.wait = t]
  BY <1>2
<1>4. o \in Outputs /\ o.step = out.step /\ o.wait = t /\ o.state = out.state
      /\ o.node = out.node /\ o.owner = out.owner
  BY <1>1, <1>2, <1>3 DEF Outputs
<1>5. x \in Transfers /\ x.phase = "sent" /\ x.d = d
  BY DEF Transfers
<1>6. out.node \in Nodes
  BY <1>1 DEF Agree, Outputs
<1>7. QED
  BY <1>1, <1>2, <1>4, <1>5, <1>6 DEF Agree, Served

\* The output's process keeps what holds of it.
LEMMA ProcessAgrees ==
  ASSUME BaseInv, NEW r \in Process(out)
  PROVE  /\ Agree(r.o, r.sdo) /\ Served(r.o)
         /\ r.o.owner = out.owner /\ r.o.node = out.node /\ r.o.state = out.state
         /\ r.o.fw = out.fw /\ r.o.seg = out.seg
<1>1. out \in Outputs /\ out.step >= -1 /\ Agree(out, sdo) /\ Served(out) /\ Busy \in BOOLEAN
      /\ out.seg \in Segments /\ out.fw \in Firmwares \cup {NoFw}
      /\ out.node \in Nodes \cup {NoNode}
  BY BaseParts DEF Agree, Busy, Outputs
<1>2. CASE r = [o |-> out, sdo |-> sdo]
  BY <1>1, <1>2
<1>3. CASE Restarts(out, Busy) /\ r = [o |-> [out EXCEPT !.step = 0], sdo |-> sdo]
  <2>1. r.o = [out EXCEPT !.step = 0] /\ r.sdo = sdo
    BY <1>3
  <2>2. r.o \in Outputs /\ r.o.step = 0 /\ r.o.wait = out.wait /\ r.o.state = out.state
        /\ r.o.node = out.node /\ r.o.owner = out.owner /\ r.o.fw = out.fw /\ r.o.seg = out.seg
    BY <1>1, <2>1 DEF Outputs
  <2>3. QED
    BY <1>1, <2>1, <2>2 DEF Agree, Served
<1>4. CASE /\ out.state = "REQUEST"
           /\ r = [o |-> [out EXCEPT !.wait = TRUE],
                   sdo |-> [phase |-> "sent", d |-> RequestDownload(out)]]
  <2>1. RequestDownload(out) \in Downloads /\ RequestDownload(out).node = out.node
    BY <1>1, SegmentTypes DEF RequestDownload, Downloads
  <2>2. r.o = [out EXCEPT !.wait = TRUE] /\ r.sdo = [phase |-> "sent", d |-> RequestDownload(out)]
    BY <1>4
  <2>3. Agree(r.o, r.sdo) /\ Served(r.o)
    BY <1>4, <2>1, <2>2, SentAgrees
  <2>4. QED
    BY <1>1, <2>2, <2>3 DEF Outputs
<1>5. CASE /\ SendsStep(out, Busy)
           /\ r = [o |-> [out EXCEPT !.wait = TRUE],
                   sdo |-> [phase |-> "sent", d |-> Download(out)]]
  <2>1. Items[out.state][out.step + 1] \in StepItems /\ out.state \in {"SEND_SEG", "SEND_FW_INFO"}
    BY <1>1, <1>5, StepIsOne
  <2>2. Download(out) \in Downloads /\ Download(out).node = out.node
    BY <1>1, <2>1 DEF Download, Downloads
  <2>3. r.o = [out EXCEPT !.wait = TRUE] /\ r.sdo = [phase |-> "sent", d |-> Download(out)]
    BY <1>5
  <2>4. Agree(r.o, r.sdo) /\ Served(r.o)
    BY <2>1, <2>2, <2>3, SentAgrees
  <2>5. QED
    BY <1>1, <2>3, <2>4 DEF Outputs
<1>6. QED
  BY <1>2, <1>3, <1>4, <1>5, ProcessCases

\* A repetition: what again is, with one repetition more.
LEMMA RepeatedIs ==
  ASSUME NEW s \in Sessions, NEW again \in Sessions
  PROVE  \E t \in Sessions :
           /\ t = Slv!Repeated(s, again)
           /\ t.repeat = s.repeat + 1 /\ ~t.expired
           /\ t.state = IF s.repeat + 1 >= RepeatMax THEN "ABORT" ELSE s.state
           /\ t.id = again.id /\ t.live = again.live /\ t.waiting = again.waiting
           /\ t.fw = again.fw /\ t.pos = again.pos /\ t.seg = again.seg
<1>1. PICK n, f, st : n = s.repeat + 1 /\ f = FALSE
                      /\ st = IF s.repeat + 1 >= RepeatMax THEN "ABORT" ELSE s.state
  OBVIOUS
<1>2. n \in Nat /\ f \in BOOLEAN /\ st \in Slv!SlvStates
  <2>1. s.state \in Slv!SlvStates /\ s.repeat \in Nat
    BY DEF Sessions
  <2>2. "ABORT" \in Slv!SlvStates
    BY DEF Slv!SlvStates
  <2>3. st = "ABORT" \/ st = s.state
    BY <1>1
  <2>4. st \in Slv!SlvStates
    BY <2>1, <2>2, <2>3
  <2>5. n \in Nat
    BY <1>1, <2>1
  <2>6. f \in BOOLEAN
    BY <1>1
  <2>7. QED
    BY <2>4, <2>5, <2>6
<1>3. PICK t : t = [again EXCEPT !.repeat = n, !.expired = f, !.state = st]
  OBVIOUS
<1>4. t = Slv!Repeated(s, again)
  BY <1>1, <1>3 DEF Slv!Repeated
<1>5. PICK r1 \in Sessions : r1 = [again EXCEPT !.repeat = n]
  BY <1>2 DEF Sessions
<1>6. PICK r2 \in Sessions : r2 = [r1 EXCEPT !.expired = f]
  BY <1>2 DEF Sessions
<1>7. t = [r2 EXCEPT !.state = st]
  BY <1>3, <1>5, <1>6
<1>8. /\ r2.repeat = n /\ r2.expired = f /\ r2.id = again.id /\ r2.live = again.live
      /\ r2.waiting = again.waiting /\ r2.fw = again.fw /\ r2.pos = again.pos
      /\ r2.seg = again.seg
  BY <1>5, <1>6 DEF Sessions
<1>9. /\ t \in Sessions /\ t.state = st /\ t.repeat = r2.repeat /\ t.expired = r2.expired
      /\ t.id = r2.id /\ t.live = r2.live /\ t.waiting = r2.waiting /\ t.fw = r2.fw
      /\ t.pos = r2.pos /\ t.seg = r2.seg
  BY <1>2, <1>7 DEF Sessions
<1>10. QED
  BY <1>1, <1>4, <1>8, <1>9

\* The session waits.
Waits(s) ==
  ~s.expired /\ (s.state \in {"REQUEST", "SEND_FW_INFO"} \/ (s.state = "SEND_SEG" /\ s.waiting))

\* The switch: what becomes of the session s and the output o.
Moves(s, o, t, o2) ==
  \/ /\ s.state = "IDLE" /\ t = [s EXCEPT !.state = "REQUEST"] /\ o2 = o
  \/ /\ s.state = "REQUEST" /\ t = Slv!Repeated(s, s) /\ o2 = Requests(o, s.id)
  \/ /\ s.state = "SEND_FW_INFO" /\ t = Slv!Repeated(s, s) /\ o2 = SetFwInfo(o, s.fw)
  \/ /\ s.state = "SEND_SEG" /\ ~s.waiting /\ (s.repeat > 0 \/ s.pos < NumSeg)
     /\ \E r, w : /\ r = NextSeg(s) /\ w = [r EXCEPT !.waiting = TRUE]
                  /\ t = [Slv!Repeated(r, w) EXCEPT !.state =
                            IF Takes(o) THEN @ ELSE "SEND_SEG"]
                  /\ o2 = SetSegFw(o, r.seg)
  \/ /\ s.state = "SEND_SEG" /\ s.waiting
     /\ t = [s EXCEPT !.state = "ABORT", !.expired = FALSE] /\ o2 = o
  \/ Waits(s) /\ t = s /\ o2 = o
  \/ /\ s.state = "SEND_SEG" /\ ~s.waiting /\ t = [s EXCEPT !.state = "ABORT"] /\ o2 = o

\* The next segment of the input, or the one before again.
LEMMA NextSegIs ==
  ASSUME NEW s \in Sessions, s.repeat > 0 \/ s.pos < NumSeg
  PROVE  \E r \in Sessions :
           /\ r = NextSeg(s)
           /\ r.id = s.id /\ r.live = s.live /\ r.state = s.state /\ r.repeat = s.repeat
           /\ r.waiting = s.waiting /\ r.expired = s.expired /\ r.fw = s.fw
           /\ s.repeat > 0 => r = s
           /\ ~(s.repeat > 0) => /\ r.pos = s.pos + 1
                                 /\ r.seg = [no |-> s.pos + 1, fw |-> s.fw,
                                             last |-> s.pos + 1 = NumSeg]
<1>1. CASE s.repeat > 0
  BY <1>1 DEF NextSeg
<1>2. CASE ~(s.repeat > 0)
  <2>1. PICK p, g : p = s.pos + 1
                    /\ g = [no |-> s.pos + 1, fw |-> s.fw, last |-> s.pos + 1 = NumSeg]
    OBVIOUS
  <2>2. s.pos \in 0..NumSeg /\ s.fw \in Firmwares /\ NumSeg \in Nat
    BY MasterAssumption DEF Sessions
  <2>3. p \in 0..NumSeg
    BY <1>2, <2>1, <2>2
  <2>4. g \in Segments
    <3>1. PICK l \in BOOLEAN : l = (s.pos + 1 = NumSeg)
      OBVIOUS
    <3>2. g = [no |-> p, fw |-> s.fw, last |-> l]
      BY <2>1, <3>1
    <3>3. QED
      BY <2>2, <2>3, <3>2 DEF Segments
  <2>5. PICK r : r = NextSeg(s)
    OBVIOUS
  <2>6. r = [s EXCEPT !.pos = p, !.seg = g]
    BY <1>2, <2>1, <2>5 DEF NextSeg
  <2>7. PICK r1 \in Sessions : r1 = [s EXCEPT !.pos = p]
    BY <2>3 DEF Sessions
  <2>8. r = [r1 EXCEPT !.seg = g]
    BY <2>6, <2>7
  <2>9. r \in Sessions /\ r.pos = p /\ r.seg = g /\ r.id = s.id /\ r.live = s.live
        /\ r.state = s.state /\ r.repeat = s.repeat /\ r.waiting = s.waiting
        /\ r.expired = s.expired /\ r.fw = s.fw
    BY <2>4, <2>7, <2>8 DEF Sessions
  <2>10. QED
    BY <1>2, <2>1, <2>5, <2>9
<1>3. QED
  BY <1>1, <1>2

\* The switch goes on with the session, or ends it.
LEMMA ProcessSlaveCases ==
  ASSUME BaseInv, NEW i \in Slots, ProcessSlave(i)
  PROVE  /\ i \in Filled
         /\ UNCHANGED <<reports, dev, calls, alone, dangling>>
         /\ troubles' \in Nat /\ (troubles' = 0 => troubles = 0)
         /\ \E r \in Process(out) :
              /\ sdo' = r.sdo
              /\ \/ /\ UNCHANGED tableVars
                    /\ \E t : /\ heap' = [heap EXCEPT ![m_slaves[i]] = t]
                              /\ Moves(heap[m_slaves[i]], r.o, t, out')
                 \/ RemoveSlot(i, r.o)
<1> DEFINE h == m_slaves[i]  s == heap[h]
<1>1. PICK r \in Process(out) :
        /\ sdo' = r.sdo
        /\ \/ /\ \/ SwitchIdle(h, s, r.o) \/ SwitchRequest(h, s, r.o)
                 \/ SwitchFwInfo(h, s, r.o) \/ SwitchSegment(h, s, r.o)
                 \/ SwitchOverdue(h, s, r.o) \/ SwitchWait(h, s, r.o)
              /\ UNCHANGED <<tableVars, troubles>>
           \/ SwitchReadFails(h, s, r.o) /\ UNCHANGED tableVars
           \/ SwitchEnd(i, s, r.o) /\ UNCHANGED troubles
  BY DEF ProcessSlave
<1>2. i \in Filled /\ UNCHANGED <<reports, dev, calls, alone, dangling>>
  BY DEF ProcessSlave
<1>3. /\ heap \in Seq(Sessions) /\ DOMAIN heap = 1..Len(heap) /\ h \in DOMAIN heap
      /\ s \in Sessions /\ troubles \in Nat
  BY <1>2, BaseParts DEF Types
<1>4. heap = [heap EXCEPT ![h] = s]
  BY <1>3
<1>5. CASE SwitchEnd(i, s, r.o) /\ UNCHANGED troubles
  BY <1>1, <1>2, <1>3, <1>5 DEF SwitchEnd
<1>6. ASSUME NEW t, heap' = [heap EXCEPT ![h] = t], Moves(s, r.o, t, out'),
             UNCHANGED tableVars, troubles' \in Nat, troubles' = 0 => troubles = 0
      PROVE  /\ troubles' \in Nat /\ (troubles' = 0 => troubles = 0)
             /\ \E q \in Process(out) :
                  /\ sdo' = q.sdo
                  /\ \/ /\ UNCHANGED tableVars
                        /\ \E u : /\ heap' = [heap EXCEPT ![m_slaves[i]] = u]
                                  /\ Moves(heap[m_slaves[i]], q.o, u, out')
                     \/ RemoveSlot(i, q.o)
  BY <1>1, <1>6
<1>7. CASE SwitchIdle(h, s, r.o) /\ UNCHANGED <<tableVars, troubles>>
  <2>1. PICK t : t = [s EXCEPT !.state = "REQUEST"]
    OBVIOUS
  <2>2. heap' = [heap EXCEPT ![h] = t] /\ out' = r.o /\ s.state = "IDLE"
    BY <1>7, <2>1 DEF SwitchIdle
  <2>3. Moves(s, r.o, t, out')
    BY <2>1, <2>2 DEF Moves
  <2>4. QED
    BY <1>2, <1>3, <1>6, <1>7, <2>2, <2>3
<1>8. CASE SwitchRequest(h, s, r.o) /\ UNCHANGED <<tableVars, troubles>>
  <2>1. PICK t : t = Slv!Repeated(s, s)
    OBVIOUS
  <2>2. heap' = [heap EXCEPT ![h] = t] /\ out' = Requests(r.o, s.id) /\ s.state = "REQUEST"
    BY <1>8, <2>1 DEF SwitchRequest
  <2>3. Moves(s, r.o, t, out')
    BY <2>1, <2>2 DEF Moves
  <2>4. QED
    BY <1>2, <1>3, <1>6, <1>8, <2>2, <2>3
<1>9. CASE SwitchFwInfo(h, s, r.o) /\ UNCHANGED <<tableVars, troubles>>
  <2>1. PICK t : t = Slv!Repeated(s, s)
    OBVIOUS
  <2>2. heap' = [heap EXCEPT ![h] = t] /\ out' = SetFwInfo(r.o, s.fw)
        /\ s.state = "SEND_FW_INFO"
    BY <1>9, <2>1 DEF SwitchFwInfo
  <2>3. Moves(s, r.o, t, out')
    BY <2>1, <2>2 DEF Moves
  <2>4. QED
    BY <1>2, <1>3, <1>6, <1>9, <2>2, <2>3
<1>10. CASE SwitchSegment(h, s, r.o) /\ UNCHANGED <<tableVars, troubles>>
  <2>1. PICK n : n = NextSeg(s)
    OBVIOUS
  <2>2. PICK w : w = [n EXCEPT !.waiting = TRUE]
    OBVIOUS
  <2>3. PICK t : t = [Slv!Repeated(n, w) EXCEPT !.state = IF Takes(r.o) THEN @ ELSE "SEND_SEG"]
    OBVIOUS
  <2>4. /\ heap' = [heap EXCEPT ![h] = t] /\ out' = SetSegFw(r.o, n.seg)
        /\ s.state = "SEND_SEG" /\ ~s.waiting /\ (s.repeat > 0 \/ s.pos < NumSeg)
    BY <1>10, <2>1, <2>2, <2>3 DEF SwitchSegment
  <2>5. Moves(s, r.o, t, out')
    BY <2>1, <2>2, <2>3, <2>4 DEF Moves
  <2>6. QED
    BY <1>2, <1>3, <1>6, <1>10, <2>4, <2>5
<1>11. CASE SwitchOverdue(h, s, r.o) /\ UNCHANGED <<tableVars, troubles>>
  <2>1. PICK t : t = [s EXCEPT !.state = "ABORT", !.expired = FALSE]
    OBVIOUS
  <2>2. heap' = [heap EXCEPT ![h] = t]
    BY <1>11, <1>3, <2>1 DEF SwitchOverdue
  <2>3. Moves(s, r.o, t, out')
    BY <1>11, <2>1 DEF Moves, SwitchOverdue
  <2>4. QED
    BY <1>2, <1>3, <1>6, <1>11, <2>2, <2>3
<1>12. CASE SwitchWait(h, s, r.o) /\ UNCHANGED <<tableVars, troubles>>
  <2>1. heap' = [heap EXCEPT ![h] = s] /\ out' = r.o /\ Waits(s)
    BY <1>4, <1>12 DEF SwitchWait, Waits
  <2>2. Moves(s, r.o, s, out')
    BY <2>1 DEF Moves
  <2>3. QED
    BY <1>2, <1>3, <1>6, <1>12, <2>1, <2>2
<1>13. CASE SwitchReadFails(h, s, r.o) /\ UNCHANGED tableVars
  <2>1. PICK t : t = [s EXCEPT !.state = "ABORT"]
    OBVIOUS
  <2>2. heap' = [heap EXCEPT ![h] = t] /\ out' = r.o /\ s.state = "SEND_SEG" /\ ~s.waiting
    BY <1>13, <2>1 DEF SwitchReadFails
  <2>3. troubles' \in Nat /\ (troubles' = 0 => troubles = 0)
    BY <1>3, <1>13 DEF SwitchReadFails
  <2>4. Moves(s, r.o, t, out')
    BY <2>1, <2>2 DEF Moves
  <2>5. QED
    BY <1>2, <1>3, <1>6, <1>13, <2>2, <2>3, <2>4
<1>14. QED
  BY <1>1, <1>2, <1>5, <1>7, <1>8, <1>9, <1>10, <1>11, <1>12, <1>13

\* The output's operations, as a session calls them.
LEMMA RequestsIs ==
  ASSUME NEW o \in Outputs, NEW n \in Nodes
  PROVE  \E x \in Outputs :
           /\ x = Requests(o, n)
           /\ x.step = o.step /\ x.fw = o.fw /\ x.seg = o.seg /\ x.wait = o.wait
           /\ x.owner = o.owner
           /\ \/ o.node \in {NoNode, n} /\ x.node = n /\ x.state = "REQUEST"
              \/ o.node \notin {NoNode, n} /\ x = o
<1>1. CASE o.node \notin {NoNode, n}
  BY <1>1 DEF Requests
<1>2. CASE o.node \in {NoNode, n}
  <2>1. PICK x : x = Requests(o, n)
    OBVIOUS
  <2>2. x = [o EXCEPT !.node = n, !.state = "REQUEST"]
    BY <1>2, <2>1 DEF Requests
  <2>3. PICK y \in Outputs : y = [o EXCEPT !.node = n]
    BY DEF Outputs
  <2>4. x = [y EXCEPT !.state = "REQUEST"]
    BY <2>2, <2>3
  <2>5. "REQUEST" \in OutStates
    BY DEF OutStates
  <2>6. /\ x \in Outputs /\ x.state = "REQUEST" /\ x.node = n /\ x.step = o.step
        /\ x.fw = o.fw /\ x.seg = o.seg /\ x.wait = o.wait /\ x.owner = o.owner
    BY <2>3, <2>4, <2>5 DEF Outputs
  <2>7. QED
    BY <1>2, <2>1, <2>6
<1>3. QED
  BY <1>1, <1>2

\* sm_boot_canopen_set_fw_info.
LEMMA SetFwInfoIs ==
  ASSUME NEW o \in Outputs, NEW fw \in Firmwares
  PROVE  \E x \in Outputs :
           /\ x = SetFwInfo(o, fw)
           /\ x.node = o.node /\ x.seg = o.seg /\ x.wait = o.wait /\ x.owner = o.owner
           /\ \/ o.node # NoNode /\ x.state = "SEND_FW_INFO" /\ x.step = -1 /\ x.fw = fw
              \/ o.node = NoNode /\ x = o
<1>1. CASE o.node = NoNode
  BY <1>1 DEF SetFwInfo, Takes
<1>2. CASE o.node # NoNode
  <2>1. PICK x, m : x = SetFwInfo(o, fw) /\ m = -1
    OBVIOUS
  <2>2. x = [o EXCEPT !.fw = fw, !.state = "SEND_FW_INFO", !.step = m]
    BY <1>2, <2>1 DEF SetFwInfo, Takes
  <2>3. PICK y \in Outputs : y = [o EXCEPT !.fw = fw]
    BY DEF Outputs
  <2>4. PICK z \in Outputs : z = [y EXCEPT !.state = "SEND_FW_INFO"]
    BY DEF Outputs, OutStates
  <2>5. x = [z EXCEPT !.step = m]
    BY <2>2, <2>3, <2>4
  <2>6. m \in Int
    BY <2>1
  <2>7. z.fw = fw /\ z.state = "SEND_FW_INFO" /\ z.node = o.node /\ z.seg = o.seg
        /\ z.wait = o.wait /\ z.owner = o.owner
    BY <2>3, <2>4 DEF Outputs
  <2>8. /\ x \in Outputs /\ x.state = z.state /\ x.node = z.node /\ x.step = m
        /\ x.fw = z.fw /\ x.seg = z.seg /\ x.wait = z.wait /\ x.owner = z.owner
    BY <2>5, <2>6 DEF Outputs
  <2>9. QED
    BY <1>2, <2>1, <2>7, <2>8
<1>3. QED
  BY <1>1, <1>2

\* sm_boot_canopen_set_seg_fw.
LEMMA SetSegFwIs ==
  ASSUME NEW o \in Outputs, NEW g \in Segments
  PROVE  \E x \in Outputs :
           /\ x = SetSegFw(o, g)
           /\ x.node = o.node /\ x.fw = o.fw /\ x.wait = o.wait /\ x.owner = o.owner
           /\ \/ o.node # NoNode /\ x.state = "SEND_SEG" /\ x.step = -1 /\ x.seg = g
              \/ o.node = NoNode /\ x = o
<1>1. CASE o.node = NoNode
  BY <1>1 DEF SetSegFw, Takes
<1>2. CASE o.node # NoNode
  <2>1. PICK x, m : x = SetSegFw(o, g) /\ m = -1
    OBVIOUS
  <2>2. x = [o EXCEPT !.seg = g, !.state = "SEND_SEG", !.step = m]
    BY <1>2, <2>1 DEF SetSegFw, Takes
  <2>3. PICK y \in Outputs : y = [o EXCEPT !.seg = g]
    BY DEF Outputs
  <2>4. PICK z \in Outputs : z = [y EXCEPT !.state = "SEND_SEG"]
    BY DEF Outputs, OutStates
  <2>5. x = [z EXCEPT !.step = m]
    BY <2>2, <2>3, <2>4
  <2>6. m \in Int
    BY <2>1
  <2>7. z.fw = o.fw /\ z.state = "SEND_SEG" /\ z.node = o.node /\ z.seg = g
        /\ z.wait = o.wait /\ z.owner = o.owner
    BY <2>3, <2>4 DEF Outputs
  <2>8. /\ x \in Outputs /\ x.state = z.state /\ x.node = z.node /\ x.step = m
        /\ x.fw = z.fw /\ x.seg = z.seg /\ x.wait = z.wait /\ x.owner = z.owner
    BY <2>5, <2>6 DEF Outputs
  <2>9. QED
    BY <1>2, <2>1, <2>7, <2>8
<1>3. QED
  BY <1>1, <1>2

\* sm_boot_canopen_free.
LEMMA FreeIs ==
  ASSUME NEW o \in Outputs
  PROVE  \E x \in Outputs :
           /\ x = Free(o)
           /\ x.state = "IDLE" /\ x.step = -1 /\ x.node = NoNode
           /\ x.wait = o.wait /\ x.owner = o.owner
<1>1. PICK x, m : x = Free(o) /\ m = -1
  OBVIOUS
<1>2. x = [o EXCEPT !.state = "IDLE", !.step = m, !.node = NoNode, !.seg = NoSeg, !.fw = NoFw]
  BY <1>1 DEF Free
<1>3. m \in Int /\ "IDLE" \in OutStates
  BY <1>1 DEF OutStates
<1>4. PICK y1 \in Outputs : y1 = [o EXCEPT !.state = "IDLE"]
  BY <1>3 DEF Outputs
<1>5. PICK y2 \in Outputs : y2 = [y1 EXCEPT !.step = m]
  BY <1>3 DEF Outputs
<1>6. PICK y3 \in Outputs : y3 = [y2 EXCEPT !.node = NoNode]
  BY DEF Outputs
<1>7. PICK y4 \in Outputs : y4 = [y3 EXCEPT !.seg = NoSeg]
  BY SegmentTypes DEF Outputs
<1>8. x = [y4 EXCEPT !.fw = NoFw]
  BY <1>2, <1>4, <1>5, <1>6, <1>7
<1>9. y2.state = "IDLE" /\ y2.step = m /\ y2.wait = o.wait /\ y2.owner = o.owner
  BY <1>4, <1>5 DEF Outputs
<1>10. y4.state = "IDLE" /\ y4.step = m /\ y4.node = NoNode /\ y4.wait = o.wait
       /\ y4.owner = o.owner
  BY <1>6, <1>7, <1>9 DEF Outputs
<1>11. x \in Outputs /\ x.state = "IDLE" /\ x.step = m /\ x.node = NoNode
       /\ x.wait = o.wait /\ x.owner = o.owner
  BY <1>8, <1>10 DEF Outputs
<1>12. QED
  BY <1>1, <1>11

\* sm_boot_canopen_callback.
LEMMA EndedIs ==
  ASSUME NEW o \in Outputs, o.step >= -1, NEW ok \in BOOLEAN
  PROVE  \E x \in Outputs :
           /\ x = Ended(o, ok) /\ ~x.wait
           /\ x.state = o.state /\ x.node = o.node /\ x.fw = o.fw /\ x.seg = o.seg
           /\ x.owner = o.owner
           /\ \/ /\ o.state = "REQUEST" \/ (~ok /\ o.step < 0)
                 /\ x.step = o.step \/ (~ok /\ x.step = -1)
              \/ ~ok /\ o.step >= 0 /\ x.step = -1
              \/ ok /\ o.state = "SEND_FW_INFO" /\ o.step >= 2 /\ x.step = -1
              \/ /\ ok /\ o.state # "REQUEST" /\ ~(o.state = "SEND_FW_INFO" /\ o.step >= 2)
                 /\ x.step = o.step + 1
<1>1. o.step \in Int
  BY DEF Outputs
<1>2. PICK x, f, m, p : x = Ended(o, ok) /\ f = FALSE /\ m = -1 /\ p = o.step + 1
  OBVIOUS
<1>3. m \in Int /\ p \in Int
  BY <1>1, <1>2
<1>4. f \in BOOLEAN
  BY <1>2
<1>5. PICK y \in Outputs : y = [o EXCEPT !.wait = f]
  BY <1>4 DEF Outputs
<1>6. y.wait = f /\ y.step = o.step /\ y.state = o.state /\ y.node = o.node
      /\ y.fw = o.fw /\ y.seg = o.seg /\ y.owner = o.owner
  BY <1>5 DEF Outputs
<1>7. ASSUME NEW q \in Int, x = [y EXCEPT !.step = q]
      PROVE  /\ x \in Outputs /\ x.wait = f /\ x.step = q /\ x.state = o.state
             /\ x.node = o.node /\ x.fw = o.fw /\ x.seg = o.seg /\ x.owner = o.owner
  <2>1. /\ x \in Outputs /\ x.wait = y.wait /\ x.step = q /\ x.state = y.state
        /\ x.node = y.node /\ x.fw = y.fw /\ x.seg = y.seg /\ x.owner = y.owner
    BY <1>7 DEF Outputs
  <2>2. QED
    BY <1>6, <2>1
<1>8. CASE ~ok /\ o.step < 0
  <2>1. ~(~ok /\ o.step >= 0)
    BY <1>1, <1>8
  <2>2. x = [o EXCEPT !.wait = f]
    BY <1>2, <1>8, <2>1, Zenon DEF Ended
  <2>3. x = y
    BY <1>5, <2>2
  <2>4. QED
    BY <1>2, <1>6, <1>8, <2>3
<1>9. CASE ~ok /\ o.step >= 0
  <2>1. ~(~ok /\ o.step < 0)
    BY <1>1, <1>9
  <2>2. x = [o EXCEPT !.wait = f, !.step = m]
    BY <1>2, <1>9, <2>1, Zenon DEF Ended
  <2>3. x = [y EXCEPT !.step = m]
    BY <1>5, <2>2
  <2>4. QED
    BY <1>2, <1>3, <1>7, <1>9, <2>3
<1>10. CASE ok /\ o.state = "REQUEST"
  <2>1. x = [o EXCEPT !.wait = f]
    BY <1>2, <1>10, Zenon DEF Ended
  <2>2. x = y
    BY <1>5, <2>1
  <2>3. QED
    BY <1>2, <1>6, <1>10, <2>2
<1>11. CASE ok /\ o.state = "SEND_FW_INFO" /\ o.step >= 2
  <2>1. x = [o EXCEPT !.wait = f, !.step = m]
    BY <1>2, <1>11 DEF Ended
  <2>2. x = [y EXCEPT !.step = m]
    BY <1>5, <2>1
  <2>3. QED
    BY <1>2, <1>3, <1>7, <1>11, <2>2
<1>12. CASE ok /\ o.state # "REQUEST" /\ ~(o.state = "SEND_FW_INFO" /\ o.step >= 2)
  <2>1. x = [o EXCEPT !.wait = f, !.step = p]
    BY <1>2, <1>12 DEF Ended
  <2>2. x = [y EXCEPT !.step = p]
    BY <1>5, <2>1
  <2>3. QED
    BY <1>2, <1>3, <1>7, <1>12, <2>2
<1>13. QED
  BY <1>1, <1>8, <1>9, <1>10, <1>11, <1>12

\* sm_boot_canopen_response_state_handle.
LEMMA ReportedIs ==
  ASSUME NEW o \in Outputs, NEW st
  PROVE  \E x \in Outputs :
           /\ x = Reported(o, st) /\ x \in Outputs
           /\ x.node = o.node /\ x.fw = o.fw /\ x.seg = o.seg /\ x.owner = o.owner
           /\ x.wait = o.wait
           /\ \/ /\ ReportTells(o, st) = "seg_done" /\ st = "LOADING_SERVER"
                 /\ o.state = "SEND_SEG" /\ o.step >= 2 /\ x.state = o.state /\ x.step = -1
              \/ /\ ReportTells(o, st) = "ready" /\ o.state = "REQUEST"
                 /\ x.state = "IDLE" /\ x.step = o.step
              \/ /\ ReportTells(o, st) = "nothing" /\ x = o /\ o.state # "REQUEST"
                 /\ ~(st = "LOADING_SERVER" /\ o.state = "SEND_SEG" /\ o.step >= 2)
<1>1. CASE Loaded(o, st) /\ o.step >= 2
  <2>1. ReportTells(o, st) = "seg_done" /\ st = "LOADING_SERVER" /\ o.state = "SEND_SEG"
    BY <1>1 DEF ReportTells, Loaded
  <2>2. PICK x, m : x = Reported(o, st) /\ m = -1
    OBVIOUS
  <2>3. x = [o EXCEPT !.step = m]
    BY <2>1, <2>2 DEF Reported
  <2>4. m \in Int
    BY <2>2
  <2>5. /\ x \in Outputs /\ x.step = m /\ x.node = o.node /\ x.fw = o.fw /\ x.seg = o.seg
        /\ x.owner = o.owner /\ x.wait = o.wait /\ x.state = o.state
    BY <2>3, <2>4 DEF Outputs
  <2>6. QED
    BY <1>1, <2>1, <2>2, <2>5
<1>2. CASE ~Loaded(o, st) /\ o.state = "REQUEST"
  <2>1. ReportTells(o, st) = "ready"
    BY <1>2 DEF ReportTells, Loaded
  <2>2. PICK x : x = Reported(o, st)
    OBVIOUS
  <2>3. x = [o EXCEPT !.state = "IDLE"]
    BY <2>1, <2>2 DEF Reported
  <2>4. "IDLE" \in OutStates
    BY DEF OutStates
  <2>5. /\ x \in Outputs /\ x.step = o.step /\ x.node = o.node /\ x.fw = o.fw /\ x.seg = o.seg
        /\ x.owner = o.owner /\ x.wait = o.wait /\ x.state = "IDLE"
    BY <2>3, <2>4 DEF Outputs
  <2>6. QED
    BY <1>2, <2>1, <2>2, <2>5
<1>3. CASE ~(Loaded(o, st) /\ o.step >= 2) /\ o.state # "REQUEST"
  <2>1. ReportTells(o, st) = "nothing"
    BY <1>3 DEF ReportTells
  <2>2. Reported(o, st) = o
    BY <2>1 DEF Reported
  <2>3. QED
    BY <1>3, <2>1, <2>2 DEF Loaded
<1>4. QED
  BY <1>1, <1>2, <1>3 DEF Loaded

\* What a callback does to the session.
LEMMA ToldIs ==
  ASSUME NEW s \in Sessions,
         NEW what \in {"ready", "seg_done", "seg_failed", "fw_done", "fw_failed"}
  PROVE  \E t \in Sessions :
           /\ t = Told(s, what)
           /\ t.id = s.id /\ t.live = s.live /\ t.fw = s.fw /\ t.pos = s.pos /\ t.seg = s.seg
           /\ \/ /\ what = "ready" /\ t.state = "SEND_SEG" /\ t.repeat = 0
                 /\ t.waiting = s.waiting
              \/ /\ what = "seg_done" /\ t.repeat = 0 /\ ~t.waiting
                 /\ t.state = IF s.seg.last THEN "SEND_FW_INFO" ELSE s.state
                 /\ s.seg.last => t.expired
              \/ /\ what = "seg_failed" /\ t.repeat = s.repeat /\ t.state = s.state
                 /\ ~t.waiting
              \/ /\ what = "fw_done" /\ t.repeat = s.repeat /\ t.state = "FINISH"
                 /\ t.waiting = s.waiting
              \/ /\ what = "fw_failed" /\ t.repeat = s.repeat /\ t.state = s.state
                 /\ t.waiting = s.waiting
<1>1. PICK x, f, g, z : x = Told(s, what) /\ f = FALSE /\ g = TRUE /\ z = 0
  OBVIOUS
<1>2. f \in BOOLEAN /\ g \in BOOLEAN
  BY <1>1
<1>3. z \in Nat
  BY <1>1
<1>4. "SEND_SEG" \in Slv!SlvStates /\ "SEND_FW_INFO" \in Slv!SlvStates
      /\ "FINISH" \in Slv!SlvStates
  BY DEF Slv!SlvStates
<1>5. CASE what = "ready"
  <2>1. x = [s EXCEPT !.repeat = z, !.state = "SEND_SEG", !.expired = f]
    BY <1>1, <1>5, Zenon DEF Told, Slv!ConfirmReady
  <2>2. PICK y1 \in Sessions : y1 = [s EXCEPT !.repeat = z]
    BY <1>3 DEF Sessions
  <2>3. PICK y2 \in Sessions : y2 = [y1 EXCEPT !.state = "SEND_SEG"]
    BY <1>4 DEF Sessions
  <2>4. x = [y2 EXCEPT !.expired = f]
    BY <2>1, <2>2, <2>3
  <2>5. /\ y2.id = s.id /\ y2.live = s.live /\ y2.fw = s.fw /\ y2.pos = s.pos
        /\ y2.seg = s.seg /\ y2.state = "SEND_SEG" /\ y2.repeat = z
        /\ y2.waiting = s.waiting
    BY <2>2, <2>3 DEF Sessions
  <2>6. /\ x \in Sessions /\ x.id = y2.id /\ x.live = y2.live /\ x.fw = y2.fw
        /\ x.pos = y2.pos /\ x.seg = y2.seg /\ x.state = y2.state /\ x.repeat = y2.repeat
        /\ x.waiting = y2.waiting
    BY <1>2, <2>4 DEF Sessions
  <2>7. QED
    BY <1>1, <1>5, <2>5, <2>6
<1>6. CASE what = "seg_done"
  <2>1. PICK y1 \in Sessions : y1 = [s EXCEPT !.repeat = z]
    BY <1>3 DEF Sessions
  <2>2. PICK y2 \in Sessions : y2 = [y1 EXCEPT !.waiting = f]
    BY <1>2 DEF Sessions
  <2>3. /\ y2.id = s.id /\ y2.live = s.live /\ y2.fw = s.fw /\ y2.pos = s.pos
        /\ y2.seg = s.seg /\ y2.state = s.state /\ y2.repeat = z
        /\ y2.waiting = f
    BY <2>1, <2>2 DEF Sessions
  <2>4. CASE ~s.seg.last
    <3>1. x = [s EXCEPT !.repeat = z, !.expired = f, !.waiting = f]
      BY <1>1, <1>6, <2>4, Zenon DEF Told, ConfirmSeg
    <3>2. x = [y2 EXCEPT !.expired = f]
      BY <2>1, <2>2, <3>1 DEF Sessions
    <3>3. /\ x \in Sessions /\ x.id = y2.id /\ x.live = y2.live /\ x.fw = y2.fw
          /\ x.pos = y2.pos /\ x.seg = y2.seg /\ x.state = y2.state /\ x.repeat = y2.repeat
          /\ x.waiting = y2.waiting
      BY <1>2, <3>2 DEF Sessions
    <3>4. QED
      BY <1>1, <1>6, <2>3, <2>4, <3>3
  <2>5. CASE s.seg.last
    <3>1. x = [s EXCEPT !.state = "SEND_FW_INFO", !.expired = g, !.waiting = f, !.repeat = z]
      BY <1>1, <1>6, <2>5, Zenon DEF Told, ConfirmSeg
    <3>2. PICK y3 \in Sessions : y3 = [y2 EXCEPT !.state = "SEND_FW_INFO"]
      BY <1>4 DEF Sessions
    <3>3. x = [y3 EXCEPT !.expired = g]
      BY <2>1, <2>2, <3>1, <3>2 DEF Sessions
    <3>4. /\ y3.id = s.id /\ y3.live = s.live /\ y3.fw = s.fw /\ y3.pos = s.pos
          /\ y3.seg = s.seg /\ y3.state = "SEND_FW_INFO" /\ y3.repeat = z
          /\ y3.waiting = f
      BY <2>3, <3>2 DEF Sessions
    <3>5. /\ x \in Sessions /\ x.id = y3.id /\ x.live = y3.live /\ x.fw = y3.fw
          /\ x.expired = g
          /\ x.pos = y3.pos /\ x.seg = y3.seg /\ x.state = y3.state /\ x.repeat = y3.repeat
          /\ x.waiting = y3.waiting
      BY <1>2, <3>3 DEF Sessions
    <3>6. QED
      BY <1>1, <1>6, <2>5, <3>4, <3>5
  <2>6. QED
    BY <2>4, <2>5
<1>7. CASE what = "seg_failed"
  <2>1. x = [s EXCEPT !.waiting = f]
    BY <1>1, <1>7, Zenon DEF Told, ConfirmSeg
  <2>2. /\ x \in Sessions /\ x.id = s.id /\ x.live = s.live /\ x.fw = s.fw
        /\ x.pos = s.pos /\ x.seg = s.seg /\ x.state = s.state /\ x.repeat = s.repeat
        /\ x.waiting = f
    BY <1>2, <2>1 DEF Sessions
  <2>3. QED
    BY <1>1, <1>7, <2>2
<1>8. CASE what = "fw_done"
  <2>1. x = [s EXCEPT !.state = "FINISH"]
    BY <1>1, <1>8, Zenon DEF Told, Slv!ConfirmFwInfo
  <2>2. /\ x \in Sessions /\ x.id = s.id /\ x.live = s.live /\ x.fw = s.fw
        /\ x.pos = s.pos /\ x.seg = s.seg /\ x.state = "FINISH" /\ x.repeat = s.repeat
        /\ x.waiting = s.waiting
    BY <1>4, <2>1 DEF Sessions
  <2>3. QED
    BY <1>1, <1>8, <2>2
<1>9. CASE what = "fw_failed"
  <2>1. x = [s EXCEPT !.expired = g]
    BY <1>1, <1>9, Zenon DEF Told, Slv!ConfirmFwInfo
  <2>2. /\ x \in Sessions /\ x.id = s.id /\ x.live = s.live /\ x.fw = s.fw
        /\ x.pos = s.pos /\ x.seg = s.seg /\ x.state = s.state /\ x.repeat = s.repeat
        /\ x.waiting = s.waiting
    BY <1>2, <2>1 DEF Sessions
  <2>3. QED
    BY <1>1, <1>9, <2>2
<1>10. QED
  BY <1>5, <1>6, <1>7, <1>8, <1>9

\* What the switch does, field by field.
SameWork(s, t) == t.waiting = s.waiting /\ t.pos = s.pos /\ t.seg = s.seg
Limited(s, n) == IF n >= RepeatMax THEN "ABORT" ELSE s.state

Begun(s, o, t, o2) ==
  s.state = "IDLE" /\ t.state = "REQUEST" /\ t.repeat = s.repeat /\ SameWork(s, t) /\ o2 = o

Requested(s, o, t, o2) ==
  /\ s.state = "REQUEST" /\ t.state = Limited(s, s.repeat + 1) /\ t.repeat = s.repeat + 1
  /\ SameWork(s, t)
  /\ \/ /\ o.node \in {NoNode, s.id} /\ o2.node = s.id /\ o2.state = "REQUEST"
        /\ o2.step = o.step /\ o2.fw = o.fw /\ o2.seg = o.seg
     \/ o.node \notin {NoNode, s.id} /\ o2 = o

Informed(s, o, t, o2) ==
  /\ s.state = "SEND_FW_INFO" /\ t.state = Limited(s, s.repeat + 1) /\ t.repeat = s.repeat + 1
  /\ SameWork(s, t)
  /\ \/ /\ o.node # NoNode /\ o2.node = o.node /\ o2.state = "SEND_FW_INFO"
        /\ o2.step = -1 /\ o2.fw = s.fw /\ o2.seg = o.seg
     \/ o.node = NoNode /\ o2 = o

Handed(s, o, t, o2) ==
  /\ s.state = "SEND_SEG" /\ ~s.waiting /\ t.waiting /\ t.repeat = s.repeat + 1
  /\ s.repeat > 0 => t.pos = s.pos /\ t.seg = s.seg
  /\ ~(s.repeat > 0) => /\ s.pos < NumSeg /\ t.pos = s.pos + 1
                        /\ t.seg = [no |-> s.pos + 1, fw |-> s.fw, last |-> s.pos + 1 = NumSeg]
  /\ \/ /\ o.node # NoNode /\ o2.node = o.node /\ o2.state = "SEND_SEG"
        /\ o2.step = -1 /\ o2.fw = o.fw /\ o2.seg = t.seg
        /\ t.state = Limited(s, s.repeat + 1)
     \/ o.node = NoNode /\ o2 = o /\ t.state = "SEND_SEG"

GivenUp(s, o, t, o2) ==
  s.state = "SEND_SEG" /\ t.state = "ABORT" /\ t.repeat = s.repeat /\ SameWork(s, t) /\ o2 = o

Moved(s, o, t, o2) ==
  /\ t \in Sessions /\ o2 \in Outputs
  /\ t.id = s.id /\ t.live = s.live /\ t.fw = s.fw
  /\ o2.wait = o.wait /\ o2.owner = o.owner
  /\ \/ Begun(s, o, t, o2) \/ Requested(s, o, t, o2) \/ Informed(s, o, t, o2)
     \/ Handed(s, o, t, o2) \/ GivenUp(s, o, t, o2)
     \/ (Waits(s) /\ t = s /\ o2 = o)

\* The switch is what it is field by field.
LEMMA MovedIs ==
  ASSUME NEW s \in Sessions, NEW o \in Outputs, NEW t, NEW o2, Moves(s, o, t, o2)
  PROVE  Moved(s, o, t, o2)
<1>1. s.id \in Nodes /\ s.fw \in Firmwares /\ s.repeat \in Nat
  BY DEF Sessions
<1>2. CASE s.state = "IDLE" /\ t = [s EXCEPT !.state = "REQUEST"] /\ o2 = o
  <2>1. "REQUEST" \in Slv!SlvStates
    BY DEF Slv!SlvStates
  <2>2. /\ t \in Sessions /\ t.id = s.id /\ t.live = s.live /\ t.fw = s.fw
        /\ t.pos = s.pos /\ t.seg = s.seg /\ t.state = "REQUEST" /\ t.repeat = s.repeat
        /\ t.waiting = s.waiting
    BY <1>2, <2>1 DEF Sessions
  <2>3. Begun(s, o, t, o2)
    BY <1>2, <2>2 DEF Begun, SameWork
  <2>4. QED
    BY <1>2, <2>2, <2>3 DEF Moved
<1>3. CASE s.state = "REQUEST" /\ t = Slv!Repeated(s, s) /\ o2 = Requests(o, s.id)
  <2>1. /\ t \in Sessions /\ t.id = s.id /\ t.live = s.live /\ t.fw = s.fw
        /\ SameWork(s, t) /\ t.state = Limited(s, s.repeat + 1) /\ t.repeat = s.repeat + 1
    BY <1>3, RepeatedIs DEF SameWork, Limited
  <2>2. /\ o2 \in Outputs /\ o2.step = o.step /\ o2.fw = o.fw /\ o2.seg = o.seg
        /\ o2.wait = o.wait /\ o2.owner = o.owner
        /\ \/ o.node \in {NoNode, s.id} /\ o2.node = s.id /\ o2.state = "REQUEST"
           \/ o.node \notin {NoNode, s.id} /\ o2 = o
    BY <1>1, <1>3, RequestsIs
  <2>3. Requested(s, o, t, o2)
    BY <1>3, <2>1, <2>2 DEF Requested
  <2>4. QED
    BY <2>1, <2>2, <2>3 DEF Moved
<1>4. CASE s.state = "SEND_FW_INFO" /\ t = Slv!Repeated(s, s) /\ o2 = SetFwInfo(o, s.fw)
  <2>1. /\ t \in Sessions /\ t.id = s.id /\ t.live = s.live /\ t.fw = s.fw
        /\ SameWork(s, t) /\ t.state = Limited(s, s.repeat + 1) /\ t.repeat = s.repeat + 1
    BY <1>4, RepeatedIs DEF SameWork, Limited
  <2>2. /\ o2 \in Outputs /\ o2.node = o.node /\ o2.seg = o.seg
        /\ o2.wait = o.wait /\ o2.owner = o.owner
        /\ \/ o.node # NoNode /\ o2.state = "SEND_FW_INFO" /\ o2.step = -1 /\ o2.fw = s.fw
           \/ o.node = NoNode /\ o2 = o
    BY <1>1, <1>4, SetFwInfoIs
  <2>3. Informed(s, o, t, o2)
    BY <1>4, <2>1, <2>2 DEF Informed
  <2>4. QED
    BY <2>1, <2>2, <2>3 DEF Moved
<1>5. CASE /\ s.state = "SEND_SEG" /\ ~s.waiting /\ (s.repeat > 0 \/ s.pos < NumSeg)
           /\ \E r, w : /\ r = NextSeg(s) /\ w = [r EXCEPT !.waiting = TRUE]
                        /\ t = [Slv!Repeated(r, w) EXCEPT !.state =
                                  IF Takes(o) THEN @ ELSE "SEND_SEG"]
                        /\ o2 = SetSegFw(o, r.seg)
  <2>1. PICK r, w, g : /\ r = NextSeg(s) /\ w = [r EXCEPT !.waiting = TRUE]
                       /\ t = [Slv!Repeated(r, w) EXCEPT !.state =
                                 IF Takes(o) THEN @ ELSE "SEND_SEG"]
                       /\ o2 = SetSegFw(o, r.seg) /\ g = TRUE
    BY <1>5
  <2>2. /\ r \in Sessions /\ r.id = s.id /\ r.live = s.live /\ r.state = s.state
        /\ r.repeat = s.repeat /\ r.fw = s.fw
        /\ s.repeat > 0 => r = s
        /\ ~(s.repeat > 0) => /\ r.pos = s.pos + 1
                              /\ r.seg = [no |-> s.pos + 1, fw |-> s.fw,
                                          last |-> s.pos + 1 = NumSeg]
    BY <1>5, <2>1, NextSegIs
  <2>3. g \in BOOLEAN /\ w = [r EXCEPT !.waiting = g]
    BY <2>1
  <2>4. /\ w \in Sessions /\ w.waiting = g /\ w.id = r.id /\ w.live = r.live
        /\ w.fw = r.fw /\ w.pos = r.pos /\ w.seg = r.seg
    BY <2>2, <2>3 DEF Sessions
  <2>5. PICK x \in Sessions :
          /\ x = Slv!Repeated(r, w)
          /\ x.repeat = r.repeat + 1
          /\ x.state = IF r.repeat + 1 >= RepeatMax THEN "ABORT" ELSE r.state
          /\ x.id = w.id /\ x.live = w.live /\ x.waiting = w.waiting
          /\ x.fw = w.fw /\ x.pos = w.pos /\ x.seg = w.seg
    BY <2>2, <2>4, RepeatedIs
  <2>6. PICK st : st = IF Takes(o) THEN x.state ELSE "SEND_SEG"
    OBVIOUS
  <2>7. t = [x EXCEPT !.state = st]
    BY <2>1, <2>5, <2>6
  <2>8. st \in Slv!SlvStates
    <3>1. x.state \in Slv!SlvStates
      BY DEF Sessions
    <3>2. "SEND_SEG" \in Slv!SlvStates
      BY DEF Slv!SlvStates
    <3>3. QED
      BY <2>6, <3>1, <3>2
  <2>9. /\ t \in Sessions /\ t.state = st /\ t.id = x.id /\ t.live = x.live
        /\ t.fw = x.fw /\ t.pos = x.pos /\ t.seg = x.seg /\ t.repeat = x.repeat
        /\ t.waiting = x.waiting
    BY <2>7, <2>8 DEF Sessions
  <2>10. t.id = s.id /\ t.live = s.live /\ t.fw = s.fw /\ t.pos = r.pos /\ t.seg = r.seg
         /\ t.repeat = s.repeat + 1 /\ t.waiting
    BY <2>1, <2>2, <2>4, <2>5, <2>9
  <2>11. r.seg \in Segments
    BY <2>2 DEF Sessions
  <2>12. /\ o2 \in Outputs /\ o2.node = o.node /\ o2.fw = o.fw
         /\ o2.wait = o.wait /\ o2.owner = o.owner
         /\ \/ o.node # NoNode /\ o2.state = "SEND_SEG" /\ o2.step = -1 /\ o2.seg = r.seg
            \/ o.node = NoNode /\ o2 = o
    BY <2>1, <2>11, SetSegFwIs
  <2>13. t.state = IF o.node # NoNode THEN Limited(s, s.repeat + 1) ELSE "SEND_SEG"
    BY <1>5, <2>2, <2>5, <2>6, <2>9 DEF Takes, Limited
  <2>14. Handed(s, o, t, o2)
    <3>1. /\ s.repeat > 0 => t.pos = s.pos /\ t.seg = s.seg
          /\ ~(s.repeat > 0) => /\ s.pos < NumSeg /\ t.pos = s.pos + 1
                                /\ t.seg = [no |-> s.pos + 1, fw |-> s.fw,
                                            last |-> s.pos + 1 = NumSeg]
      BY <1>5, <2>2, <2>10
    <3>2. \/ /\ o.node # NoNode /\ o2.node = o.node /\ o2.state = "SEND_SEG"
             /\ o2.step = -1 /\ o2.fw = o.fw /\ o2.seg = t.seg
             /\ t.state = Limited(s, s.repeat + 1)
          \/ o.node = NoNode /\ o2 = o /\ t.state = "SEND_SEG"
      BY <2>10, <2>12, <2>13
    <3>3. QED
      BY <1>5, <2>10, <3>1, <3>2 DEF Handed
  <2>15. QED
    BY <2>9, <2>10, <2>12, <2>14 DEF Moved
<1>6. CASE s.state = "SEND_SEG" /\ o2 = o
           /\ (t = [s EXCEPT !.state = "ABORT", !.expired = FALSE]
               \/ t = [s EXCEPT !.state = "ABORT"])
  <2>1. "ABORT" \in Slv!SlvStates
    BY DEF Slv!SlvStates
  <2>2. PICK f, y : f = FALSE /\ y = [s EXCEPT !.state = "ABORT"]
    OBVIOUS
  <2>3. /\ y \in Sessions /\ y.id = s.id /\ y.live = s.live /\ y.fw = s.fw
        /\ y.pos = s.pos /\ y.seg = s.seg /\ y.state = "ABORT" /\ y.repeat = s.repeat
        /\ y.waiting = s.waiting
    BY <2>1, <2>2 DEF Sessions
  <2>4. t = y \/ t = [y EXCEPT !.expired = f]
    BY <1>6, <2>2
  <2>5. f \in BOOLEAN
    BY <2>2
  <2>6. /\ t \in Sessions /\ t.id = y.id /\ t.live = y.live /\ t.fw = y.fw
        /\ t.pos = y.pos /\ t.seg = y.seg /\ t.state = y.state /\ t.repeat = y.repeat
        /\ t.waiting = y.waiting
    BY <2>3, <2>4, <2>5 DEF Sessions
  <2>7. GivenUp(s, o, t, o2)
    BY <1>6, <2>3, <2>6 DEF GivenUp, SameWork
  <2>8. QED
    BY <1>6, <2>3, <2>6, <2>7 DEF Moved
<1>7. CASE Waits(s) /\ t = s /\ o2 = o
  BY <1>7 DEF Moved
<1>8. QED
  BY <1>2, <1>3, <1>4, <1>5, <1>6, <1>7 DEF Moves

\* The switch leaves the output in agreement with the download.
LEMMA MovedAgrees ==
  ASSUME NEW s \in Sessions, NEW o, NEW d, Agree(o, d), NEW t, NEW o2, Moved(s, o, t, o2)
  PROVE  Agree(o2, d) /\ o2.node \in {o.node, s.id}
<1>1. o.step \in Int /\ s.id \in Nodes /\ s.id # NoNode /\ o \in Outputs /\ o.step >= -1
  BY OutputAssumption DEF Agree, Outputs, Sessions
<1>2. o2 \in Outputs /\ o2.wait = o.wait
  BY DEF Moved
<1>3. \/ o2 = o
      \/ o2.node = s.id /\ o2.step = o.step /\ o2.state # "IDLE"
      \/ o2.node = o.node /\ o.node # NoNode /\ o2.step = -1 /\ o2.state # "IDLE"
  BY DEF Moved, Begun, Requested, Informed, Handed, GivenUp
<1>4. o2.step >= -1 /\ o2.node \in {o.node, s.id} /\ (o2.state # "IDLE" => o2.node # NoNode)
  BY <1>1, <1>3 DEF Agree
<1>5. QED
  BY <1>2, <1>4 DEF Agree

\* Freeing the output leaves what holds of it.
LEMMA FreeAgrees ==
  ASSUME NEW o, NEW d, Agree(o, d)
  PROVE  /\ Agree(Free(o), d) /\ Free(o).node = NoNode /\ Free(o).owner = o.owner
         /\ Free(o).state = "IDLE" /\ Free(o).step = -1
BY FreeIs DEF Agree

\* The types that have nothing to do with the table.
LEMMA OtherTypes ==
  ASSUME BaseInv, heap' \in Seq(Sessions), m_slaves' \in [Slots -> 0..Len(heap')],
         UNCHANGED <<reports, dev>>, calls' \in Nat, troubles' \in Nat, alone' \in BOOLEAN,
         dangling' \in BOOLEAN
  PROVE  Types'
BY DEF BaseInv, Types

\* The process of one slot, field by field.
LEMMA ProcessSlaveIs ==
  ASSUME BaseInv, NEW i \in Slots, ProcessSlave(i)
  PROVE  /\ i \in Filled /\ m_slaves[i] \in DOMAIN heap /\ heap[m_slaves[i]] \in Sessions
         /\ UNCHANGED <<reports, dev, calls, alone, dangling>>
         /\ troubles' \in Nat /\ (troubles' = 0 => troubles = 0)
         /\ \E r \in Process(out) :
              /\ sdo' = r.sdo
              /\ \/ /\ UNCHANGED tableVars
                    /\ \E t : /\ heap' = [heap EXCEPT ![m_slaves[i]] = t]
                              /\ Moved(heap[m_slaves[i]], r.o, t, out')
                 \/ RemoveSlot(i, r.o)
<1>1. i \in Filled /\ m_slaves[i] \in DOMAIN heap /\ heap[m_slaves[i]] \in Sessions
  BY ProcessSlaveCases, BaseParts
<1>2. \A r \in Process(out) : r.o \in Outputs
  BY ProcessAgrees DEF Agree
<1>3. \A r \in Process(out) : \A t : Moves(heap[m_slaves[i]], r.o, t, out') =>
                                 Moved(heap[m_slaves[i]], r.o, t, out')
  BY <1>1, <1>2, MovedIs
<1>4. QED
  BY <1>1, <1>3, ProcessSlaveCases

\* sm_boot_slave_process of one slot.
LEMMA BaseProcess ==
  ASSUME BaseInv, NEW i \in Slots, ProcessSlave(i)
  PROVE  BaseInv'
<1> DEFINE h == m_slaves[i]
<1>1. /\ i \in Filled /\ h \in DOMAIN heap /\ heap[h] \in Sessions
      /\ UNCHANGED <<reports, dev, calls, alone, dangling>>
      /\ troubles' \in Nat
  BY ProcessSlaveIs
<1>2. PICK r \in Process(out) :
        /\ sdo' = r.sdo
        /\ \/ /\ UNCHANGED tableVars
              /\ \E t : /\ heap' = [heap EXCEPT ![m_slaves[i]] = t]
                        /\ Moved(heap[m_slaves[i]], r.o, t, out')
           \/ RemoveSlot(i, r.o)
  BY ProcessSlaveIs
<1>3. Agree(r.o, r.sdo) /\ Served(r.o)
  BY ProcessAgrees
<1>4. m_slaves \in [Slots -> 0..Len(heap)]
  BY BaseParts
<1>5. calls' \in Nat /\ alone' \in BOOLEAN /\ dangling' \in BOOLEAN /\ UNCHANGED <<reports, dev>>
  BY <1>1 DEF BaseInv, Types
<1>6. CASE UNCHANGED tableVars /\ \E t : /\ heap' = [heap EXCEPT ![m_slaves[i]] = t]
                                         /\ Moved(heap[m_slaves[i]], r.o, t, out')
  <2>1. PICK t : heap' = [heap EXCEPT ![h] = t] /\ Moved(heap[h], r.o, t, out')
    BY <1>6
  <2>2. t \in Sessions /\ t.id = heap[h].id /\ t.live = heap[h].live
        /\ out'.owner = r.o.owner
    BY <2>1 DEF Moved
  <2>3. /\ heap' \in Seq(Sessions) /\ Len(heap') = Len(heap)
        /\ \A k \in DOMAIN heap : heap'[k] = IF k = h THEN t ELSE heap[k]
        /\ m_slaves' = m_slaves /\ Filled' = Filled /\ TableSound'
        /\ Served(r.o)'
    BY <1>1, <1>3, <1>6, <2>1, <2>2, SessionChanges
  <2>4. Agree(out', sdo') /\ out'.node \in {r.o.node, heap[h].id}
    BY <1>1, <1>2, <1>3, <2>1, MovedAgrees
  <2>5. \E j \in Filled' : heap'[m_slaves'[j]].id = heap[h].id
    BY <1>1, <2>2, <2>3
  <2>6. Served(out)'
    <3>1. out'.owner <= Len(heap')
      BY <2>2, <2>3 DEF Served
    <3>2. out'.node # NoNode => \E j \in Filled' : heap'[m_slaves'[j]].id = out'.node
      BY <2>3, <2>4, <2>5 DEF Served
    <3>3. QED
      BY <3>1, <3>2 DEF Served
  <2>7. Types'
    BY <1>1, <1>4, <1>5, <2>3, OtherTypes
  <2>8. QED
    BY <2>3, <2>4, <2>6, <2>7 DEF BaseInv
<1>7. CASE RemoveSlot(i, r.o)
  <2>1. /\ heap' \in Seq(Sessions) /\ Len(heap') = Len(heap)
        /\ m_slaves' \in [Slots -> 0..Len(heap)] /\ TableSound' /\ out' = Free(r.o)
    BY <1>1, <1>7, SlotRemoved
  <2>2. /\ Agree(Free(r.o), r.sdo) /\ Free(r.o).node = NoNode
        /\ Free(r.o).owner = r.o.owner
    BY <1>3, FreeAgrees
  <2>3. Agree(out', sdo') /\ out'.node = NoNode /\ out'.owner = r.o.owner
    BY <1>2, <2>1, <2>2
  <2>4. Served(out)'
    BY <1>3, <2>1, <2>3 DEF Served
  <2>5. Types'
    BY <1>1, <1>5, <2>1, OtherTypes
  <2>6. QED
    BY <2>1, <2>3, <2>4, <2>5 DEF BaseInv
<1>8. QED
  BY <1>2, <1>6, <1>7

\* sm_boot_master_remove_slave.
LEMMA BaseRemove ==
  ASSUME BaseInv, RemoveSlave
  PROVE  BaseInv'
<1>1. PICK i \in Filled : RemoveSlot(i, out)
  BY DEF RemoveSlave
<1>2. calls' = calls + 1 /\ UNCHANGED <<sdo, reports, dev, troubles, alone, dangling>>
  BY DEF RemoveSlave, busVars
<1>3. /\ heap' \in Seq(Sessions) /\ Len(heap') = Len(heap)
      /\ m_slaves' \in [Slots -> 0..Len(heap)] /\ TableSound' /\ out' = Free(out)
  BY <1>1, SlotRemoved
<1>4. Agree(out, sdo) /\ Served(out)
  BY BaseParts
<1>5. /\ Agree(Free(out), sdo) /\ Free(out).node = NoNode /\ Free(out).owner = out.owner
  BY <1>4, FreeAgrees
<1>6. Agree(out', sdo') /\ out'.node = NoNode /\ out'.owner = out.owner
  BY <1>2, <1>3, <1>5
<1>7. Served(out)'
  BY <1>3, <1>4, <1>6 DEF Served
<1>8. calls' \in Nat /\ troubles' \in Nat /\ alone' \in BOOLEAN /\ dangling' \in BOOLEAN
  BY <1>2 DEF BaseInv, Types
<1>9. Types'
  BY <1>2, <1>3, <1>8, OtherTypes
<1>10. QED
  BY <1>3, <1>6, <1>7, <1>9 DEF BaseInv

\* sm_boot_master_add_slave for a node that is in the table.
LEMMA BaseUpdate ==
  ASSUME BaseInv, NEW n \in Nodes, NEW fw \in Firmwares, UpdateSlave(n, fw),
         UNCHANGED <<busVars, troubles, dangling>>, calls' = calls + 1
  PROVE  BaseInv' /\ alone' = FALSE
<1>1. PICK i \in Filled :
        heap' = [heap EXCEPT ![m_slaves[i]].fw = fw, ![m_slaves[i]].pos = 0]
  BY DEF UpdateSlave
<1>2. alone' = FALSE /\ UNCHANGED tableVars /\ UNCHANGED out
  BY DEF UpdateSlave
<1> DEFINE h == m_slaves[i]  s == heap[h]
<1>3. /\ h \in DOMAIN heap /\ s \in Sessions /\ heap \in Seq(Sessions)
      /\ m_slaves \in [Slots -> 0..Len(heap)] /\ Agree(out, sdo) /\ Served(out)
  BY BaseParts
<1>4. PICK z, t : z = 0 /\ t = [s EXCEPT !.fw = fw, !.pos = z]
  OBVIOUS
<1>5. z \in 0..NumSeg
  BY <1>4, MasterAssumption
<1>6. PICK y \in Sessions : y = [s EXCEPT !.fw = fw]
  BY <1>3 DEF Sessions
<1>7. t = [y EXCEPT !.pos = z]
  BY <1>4, <1>6
<1>8. t \in Sessions /\ t.id = s.id /\ t.live = s.live
  BY <1>3, <1>5, <1>6, <1>7 DEF Sessions
<1>9. heap' = [heap EXCEPT ![h] = t]
  BY <1>1, <1>3, <1>4
<1>10. /\ heap' \in Seq(Sessions) /\ Len(heap') = Len(heap) /\ m_slaves' = m_slaves
       /\ TableSound' /\ Served(out)'
  BY <1>2, <1>3, <1>8, <1>9, SessionChanges
<1>11. UNCHANGED <<sdo, reports, dev, troubles, dangling>>
  BY DEF busVars
<1>12. calls' \in Nat /\ troubles' \in Nat /\ alone' \in BOOLEAN /\ dangling' \in BOOLEAN
  <2>1. calls \in Nat /\ troubles \in Nat /\ dangling \in BOOLEAN
    BY DEF BaseInv, Types
  <2>2. calls' \in Nat
    BY <2>1
  <2>3. QED
    BY <1>2, <1>11, <2>1, <2>2
<1>13. Types'
  BY <1>3, <1>10, <1>11, <1>12, OtherTypes
<1>14. Agree(out', sdo')
  BY <1>2, <1>3, <1>11
<1>15. QED
  BY <1>2, <1>10, <1>13, <1>14 DEF BaseInv

\* sm_boot_master_add_slave for another node, field by field.
LEMMA CreatedIs ==
  ASSUME BaseInv, NEW n \in Nodes, NEW fw \in Firmwares, CreateSlave(n, fw)
  PROVE  /\ heap' \in Seq(Sessions) /\ Len(heap') = Len(heap) + 1
         /\ DOMAIN heap' = 1..(Len(heap) + 1)
         /\ \A k \in DOMAIN heap : heap'[k] = heap[k]
         /\ heap'[Len(heap) + 1] = NewSlave(n, fw)
         /\ out' \in Outputs /\ out'.owner = Len(heap) + 1
         /\ out'.state = out.state /\ out'.step = out.step /\ out'.node = out.node
         /\ out'.fw = out.fw /\ out'.seg = out.seg /\ out'.wait = out.wait
         /\ m_slaves' \in [Slots -> 0..Len(heap')] /\ TableSound'
         /\ \A j \in Filled : j \in Filled' /\ m_slaves'[j] = m_slaves[j]
         /\ Filled = {} => \E i \in Slots : Filled' = {i} /\ m_slaves'[i] = Len(heap) + 1
<1>1. /\ heap \in Seq(Sessions) /\ Len(heap) \in Nat /\ DOMAIN heap = 1..Len(heap)
      /\ m_slaves \in [Slots -> 0..Len(heap)] /\ out \in Outputs /\ Filled \subseteq Slots
      /\ \A j \in Filled : m_slaves[j] \in DOMAIN heap
      /\ TableSound
  BY BaseParts
<1>2. PICK s : s = NewSlave(n, fw)
  OBVIOUS
<1>3. s \in Sessions /\ s.live
  BY <1>2, NewSlaveType
<1>4. heap' = Append(heap, s)
  BY <1>2 DEF CreateSlave
<1>5. /\ heap' \in Seq(Sessions) /\ Len(heap') = Len(heap) + 1
      /\ \A k \in 1..Len(heap) : heap'[k] = heap[k]
      /\ heap'[Len(heap) + 1] = s
  BY <1>1, <1>3, <1>4, AppendProperties
<1>6. DOMAIN heap' = 1..(Len(heap) + 1)
  BY <1>5, LenProperties
<1>7. PICK l : l = Len(heap) + 1
  OBVIOUS
<1>8. l \in Nat /\ l # 0
  BY <1>1, <1>7
<1>9. out' = [out EXCEPT !.owner = l]
  BY <1>7 DEF CreateSlave, Register
<1>10. /\ out' \in Outputs /\ out'.owner = l
       /\ out'.state = out.state /\ out'.step = out.step /\ out'.node = out.node
       /\ out'.fw = out.fw /\ out'.seg = out.seg /\ out'.wait = out.wait
  BY <1>1, <1>8, <1>9 DEF Outputs
<1>11. CASE FreeSlots = {} /\ UNCHANGED tableVars
  <2>1. m_slaves' = m_slaves /\ m_slave_number' = m_slave_number /\ Filled' = Filled
    BY <1>11 DEF tableVars, Filled
  <2>2. m_slaves' \in [Slots -> 0..Len(heap')]
    BY <1>1, <1>5, <2>1
  <2>3. \A j \in Filled : heap'[m_slaves'[j]] = heap[m_slaves[j]]
    BY <1>1, <1>5, <2>1
  <2>4. TableSound'
    BY <1>1, <2>1, <2>3 DEF TableSound, NumberIsTable
  <2>5. Filled # {}
    <3>1. 1 \in Slots
      BY MasterAssumption DEF Slots
    <3>2. QED
      BY <1>11, <3>1 DEF FreeSlots, Filled
  <2>6. QED
    BY <1>1, <1>2, <1>5, <1>6, <1>7, <1>10, <2>1, <2>2, <2>4, <2>5
<1>12. CASE /\ \E i \in FirstFree : m_slaves' = [m_slaves EXCEPT ![i] = Len(heap) + 1]
            /\ m_slave_number' = m_slave_number + 1
  <2>1. PICK i \in FirstFree : m_slaves' = [m_slaves EXCEPT ![i] = l]
    BY <1>7, <1>12
  <2>2. i \in Slots /\ i \notin Filled
    BY DEF FirstFree, FreeSlots, Filled
  <2>3. m_slaves' \in [Slots -> 0..Len(heap')]
    <3>1. l \in 0..Len(heap') /\ \A k \in 0..Len(heap) : k \in 0..Len(heap')
      BY <1>1, <1>5, <1>7
    <3>2. m_slaves \in [Slots -> 0..Len(heap')]
      BY <1>1, <3>1
    <3>3. QED
      BY <2>1, <3>1, <3>2
  <2>4. m_slaves'[i] = l /\ \A j \in Slots : j # i => m_slaves'[j] = m_slaves[j]
    BY <1>1, <2>1, <2>2
  <2>5. Filled' = Filled \cup {i}
    BY <1>8, <2>2, <2>4 DEF Filled
  <2>6. m_slave_number' = Cardinality(Filled')
    <3>1. Cardinality(Filled \cup {i}) = Cardinality(Filled) + 1
      BY <2>2, FilledIsFinite, FS_AddElement
    <3>2. QED
      BY <1>1, <1>12, <2>5, <3>1 DEF TableSound, NumberIsTable
  <2>7. \A j \in Filled : m_slaves'[j] = m_slaves[j] /\ m_slaves[j] # l
                          /\ heap'[m_slaves'[j]] = heap[m_slaves[j]]
    BY <1>1, <1>5, <1>7, <2>2, <2>4
  <2>8. heap'[m_slaves'[i]].live
    BY <1>3, <1>5, <1>7, <2>4
  <2>9. \A j \in Filled' : heap'[m_slaves'[j]].live
    BY <1>1, <2>5, <2>7, <2>8 DEF TableSound
  <2>10. \A j, k \in Filled' : m_slaves'[j] = m_slaves'[k] => j = k
    BY <1>1, <2>4, <2>5, <2>7 DEF TableSound
  <2>11. TableSound'
    BY <2>6, <2>9, <2>10 DEF TableSound, NumberIsTable
  <2>12. Filled = {} => \E k \in Slots : Filled' = {k} /\ m_slaves'[k] = Len(heap) + 1
    BY <1>7, <2>2, <2>4, <2>5
  <2>13. \A j \in Filled : j \in Filled' /\ m_slaves'[j] = m_slaves[j]
    BY <2>5, <2>7
  <2>14. QED
    BY <1>1, <1>2, <1>5, <1>6, <1>7, <1>10, <2>3, <2>11, <2>12, <2>13
<1>13. QED
  BY <1>11, <1>12 DEF CreateSlave

\* sm_boot_master_add_slave.
LEMMA BaseAdd ==
  ASSUME BaseInv, AddSlave
  PROVE  BaseInv'
<1>1. PICK n \in Nodes, fw \in Firmwares : UpdateSlave(n, fw) \/ CreateSlave(n, fw)
  BY DEF AddSlave
<1>2. calls' = calls + 1 /\ UNCHANGED <<busVars, troubles, dangling>>
  BY DEF AddSlave
<1>3. CASE UpdateSlave(n, fw)
  BY <1>2, <1>3, BaseUpdate
<1>4. CASE CreateSlave(n, fw)
  <2>1. UNCHANGED <<sdo, reports, dev, troubles, dangling>>
    BY <1>2 DEF busVars
  <2>2. alone \in BOOLEAN /\ Agree(out, sdo) /\ Served(out)
        /\ \A j \in Filled : m_slaves[j] \in DOMAIN heap
    BY BaseParts DEF Types
  <2>3. calls' \in Nat /\ troubles' \in Nat /\ alone' \in BOOLEAN /\ dangling' \in BOOLEAN
    BY <1>2, <1>4, <2>1 DEF BaseInv, Types, CreateSlave
  <2>4. Types'
    BY <1>4, <2>1, <2>3, CreatedIs, OtherTypes
  <2>5. Agree(out', sdo')
    BY <1>4, <2>1, <2>2, CreatedIs DEF Agree
  <2>6. Served(out)'
    <3>1. out'.owner <= Len(heap')
      BY <1>4, BaseParts, CreatedIs
    <3>2. \A j \in Filled : j \in Filled' /\ heap'[m_slaves'[j]] = heap[m_slaves[j]]
      BY <1>4, <2>2, CreatedIs
    <3>3. out'.node # NoNode => \E j \in Filled' : heap'[m_slaves'[j]].id = out'.node
      BY <1>4, <2>2, <3>2, CreatedIs DEF Served
    <3>4. QED
      BY <3>1, <3>3 DEF Served
  <2>7. TableSound'
    BY <1>4, CreatedIs
  <2>8. QED
    BY <2>4, <2>5, <2>6, <2>7 DEF BaseInv
<1>5. QED
  BY <1>1, <1>3, <1>4

-----------------------------------------------------------------------------
(* The callbacks.                                                            *)

News == {"ready", "seg_done", "seg_failed", "fw_done", "fw_failed"}

\* A callback reaches the session it is registered for, if there still is one.
LEMMA TellsIs ==
  ASSUME BaseInv, NEW what \in News \cup {"nothing"}, Tells(what), UNCHANGED tableVars
  PROVE  /\ heap' \in Seq(Sessions) /\ Len(heap') = Len(heap)
         /\ m_slaves' = m_slaves /\ Filled' = Filled /\ TableSound'
         /\ \A o : Served(o) => Served(o)'
         /\ dangling' \in BOOLEAN
         /\ \/ what = "nothing" /\ heap' = heap /\ dangling' = dangling
            \/ out.owner \notin DOMAIN heap /\ heap' = heap
            \/ out.owner \in DOMAIN heap /\ ~heap[out.owner].live /\ heap' = heap
            \/ /\ what \in News /\ out.owner \in DOMAIN heap
               /\ heap' = [heap EXCEPT ![out.owner] = Told(heap[out.owner], what)]
               /\ \A k \in DOMAIN heap :
                    heap'[k] = IF k = out.owner THEN Told(heap[out.owner], what) ELSE heap[k]
               /\ dangling' = dangling
<1>1. /\ heap \in Seq(Sessions) /\ DOMAIN heap = 1..Len(heap) /\ dangling \in BOOLEAN
      /\ \A k \in DOMAIN heap : heap[k] \in Sessions
  BY BaseParts DEF Types
<1>2. dangling' \in BOOLEAN
  BY <1>1 DEF Tells
<1>3. CASE heap' = heap
  <2>1. /\ m_slaves' = m_slaves /\ Filled' = Filled /\ TableSound'
        /\ \A o : Served(o) => Served(o)'
    BY <1>3, SessionsStay
  <2>2. \/ what = "nothing" /\ dangling' = dangling
        \/ out.owner \notin DOMAIN heap
        \/ out.owner \in DOMAIN heap /\ ~heap[out.owner].live
        \/ /\ what \in News /\ out.owner \in DOMAIN heap
           /\ heap' = [heap EXCEPT ![out.owner] = Told(heap[out.owner], what)]
           /\ dangling' = dangling
    BY DEF Tells
  <2>3. ASSUME what \in News, out.owner \in DOMAIN heap,
               heap' = [heap EXCEPT ![out.owner] = Told(heap[out.owner], what)]
        PROVE  \A k \in DOMAIN heap :
                 heap'[k] = IF k = out.owner THEN Told(heap[out.owner], what) ELSE heap[k]
    BY <2>3
  <2>4. QED
    BY <1>1, <1>2, <1>3, <2>1, <2>2, <2>3
<1>4. CASE heap' # heap
  <2>1. /\ what # "nothing"
        /\ heap' = [heap EXCEPT ![out.owner] = Told(heap[out.owner], what)]
        /\ dangling' = dangling
    BY <1>4 DEF Tells
  <2>2. out.owner \in DOMAIN heap
    BY <1>1, <1>4, <2>1
  <2>3. what \in News
    BY <2>1
  <2>4. PICK t \in Sessions : t = Told(heap[out.owner], what)
                              /\ t.id = heap[out.owner].id /\ t.live = heap[out.owner].live
    BY <1>1, <2>2, <2>3, ToldIs DEF News
  <2>5. heap' = [heap EXCEPT ![out.owner] = t]
    BY <2>1, <2>4
  <2>6. /\ heap' \in Seq(Sessions) /\ Len(heap') = Len(heap)
        /\ \A k \in DOMAIN heap : heap'[k] = IF k = out.owner THEN t ELSE heap[k]
        /\ m_slaves' = m_slaves /\ Filled' = Filled /\ TableSound'
        /\ \A o : Served(o) => Served(o)'
    BY <2>2, <2>4, <2>5, SessionChanges
  <2>7. QED
    BY <1>2, <2>1, <2>2, <2>3, <2>4, <2>6
<1>5. QED
  BY <1>3, <1>4

\* The callbacks tell one of five things, or nothing.
LEMMA WhatIsTold ==
  ASSUME NEW o, NEW ok, NEW st
  PROVE  /\ EndedTells(o, ok) \in News \cup {"nothing"}
         /\ ReportTells(o, st) \in News \cup {"nothing"}
<1>1. EndedTells(o, ok) \in News \cup {"nothing"}
  BY DEF EndedTells, News
<1>2. ReportTells(o, st) \in News \cup {"nothing"}
  BY DEF ReportTells, News
<1>3. QED
  BY <1>1, <1>2

\* No download in progress.
LEMMA NoSdoType == NoSdo \in Transfers
<1>1. OutputInit.node = NoNode
  BY DEF OutputInit
<1>2. RequestDownload(OutputInit) \in Downloads
  BY <1>1, SegmentTypes DEF RequestDownload, Downloads
<1>3. QED
  BY <1>2 DEF NoSdo, Transfers

\* sm_boot_canopen_callback.
LEMMA BaseSdoEnds ==
  ASSUME BaseInv, SdoEnds
  PROVE  BaseInv'
<1>1. PICK ok \in BOOLEAN : out' = Ended(out, ok) /\ Tells(EndedTells(out, ok))
  <2>1. PICK ok : ok = (sdo.phase = "ok")
    OBVIOUS
  <2>2. ok \in BOOLEAN
    BY <2>1
  <2>3. out' = Ended(out, ok) /\ Tells(EndedTells(out, ok))
    BY <2>1 DEF SdoEnds
  <2>4. QED
    BY <2>2, <2>3
<1>2. sdo' = NoSdo /\ UNCHANGED <<tableVars, reports, dev, calls, troubles, alone>>
  BY DEF SdoEnds
<1>3. EndedTells(out, ok) \in News \cup {"nothing"}
  BY WhatIsTold
<1>4. /\ heap' \in Seq(Sessions) /\ Len(heap') = Len(heap)
      /\ m_slaves' = m_slaves /\ TableSound' /\ \A o : Served(o) => Served(o)'
      /\ dangling' \in BOOLEAN
  BY <1>1, <1>2, <1>3, TellsIs
<1>5. m_slaves \in [Slots -> 0..Len(heap)] /\ out \in Outputs /\ out.step >= -1
      /\ Agree(out, sdo) /\ Served(out)
  BY BaseParts DEF Agree
<1>6. PICK x \in Outputs :
           /\ x = Ended(out, ok) /\ ~x.wait
           /\ x.state = out.state /\ x.node = out.node /\ x.owner = out.owner
           /\ x.step \in {out.step, -1, out.step + 1}
  BY <1>5, EndedIs
<1>7. x.step >= -1
  <2>1. out.step \in Int
    BY <1>5 DEF Outputs
  <2>2. QED
    BY <1>5, <1>6, <2>1
<1>8. sdo'.phase = "none" /\ sdo' \in Transfers
  BY <1>2, NoSdoType DEF NoSdo
<1>9. Agree(out', sdo')
  BY <1>1, <1>2, <1>5, <1>6, <1>7, <1>8 DEF Agree
<1>10. Served(out)'
  <2>1. out'.owner = out.owner /\ out'.node = out.node
    BY <1>1, <1>6
  <2>2. QED
    BY <1>4, <1>5, <2>1 DEF Served
<1>11. calls' \in Nat /\ troubles' \in Nat /\ alone' \in BOOLEAN
  BY <1>2 DEF BaseInv, Types
<1>12. Types'
  BY <1>2, <1>4, <1>5, <1>11, OtherTypes
<1>13. QED
  BY <1>4, <1>9, <1>10, <1>12 DEF BaseInv

\* sm_boot_canopen_response_state_handle.
LEMMA BaseHears ==
  ASSUME BaseInv, NEW n \in Nodes, HearsReport(n)
  PROVE  BaseInv'
<1>1. PICK st : out' = Reported(out, st) /\ Tells(ReportTells(out, st))
  BY DEF HearsReport
<1>2. /\ UNCHANGED <<tableVars, sdo, dev, calls, troubles, alone>>
      /\ reports[n] # <<>> /\ reports' = [reports EXCEPT ![n] = Tail(reports[n])]
  BY DEF HearsReport
<1>3. ReportTells(out, st) \in News \cup {"nothing"}
  BY WhatIsTold
<1>4. /\ heap' \in Seq(Sessions) /\ Len(heap') = Len(heap)
      /\ m_slaves' = m_slaves /\ TableSound' /\ \A o : Served(o) => Served(o)'
      /\ dangling' \in BOOLEAN
  BY <1>1, <1>2, <1>3, TellsIs
<1>5. m_slaves \in [Slots -> 0..Len(heap)] /\ out \in Outputs
      /\ Agree(out, sdo) /\ Served(out)
  BY BaseParts
<1>6. PICK x :
           /\ x = Reported(out, st) /\ x \in Outputs
           /\ x.node = out.node /\ x.owner = out.owner /\ x.wait = out.wait
           /\ x.step \in {out.step, -1}
           /\ x.state = out.state \/ x.state = "IDLE"
  BY <1>5, ReportedIs
<1>7. x.step >= -1
  <2>1. out.step \in Int /\ out.step >= -1
    BY <1>5 DEF Outputs, Agree
  <2>2. QED
    BY <1>6, <2>1
<1>8. Agree(out', sdo')
  BY <1>1, <1>2, <1>5, <1>6, <1>7 DEF Agree
<1>9. Served(out)'
  BY <1>1, <1>4, <1>5, <1>6 DEF Served
<1>10. reports' \in [Nodes -> Seq(BootStates)] /\ \A k \in Nodes : Len(reports'[k]) <= 1
  <2>1. reports \in [Nodes -> Seq(BootStates)] /\ \A k \in Nodes : Len(reports[k]) <= 1
    BY DEF BaseInv, Types
  <2>2. Tail(reports[n]) \in Seq(BootStates) /\ Len(Tail(reports[n])) = Len(reports[n]) - 1
        /\ Len(reports[n]) \in Nat
    BY <1>2, <2>1, HeadTailProperties, LenProperties
  <2>3. QED
    BY <1>2, <2>1, <2>2
<1>11. calls' \in Nat /\ troubles' \in Nat /\ alone' \in BOOLEAN
  BY <1>2 DEF BaseInv, Types
<1>12. Types'
  BY <1>2, <1>4, <1>5, <1>10, <1>11 DEF BaseInv, Types
<1>13. QED
  BY <1>4, <1>8, <1>9, <1>12 DEF BaseInv

-----------------------------------------------------------------------------
(* The nodes.                                                                *)

\* What a node makes of a download d: its answer, its loader after and what it
\* reports.
Refused(e, new, rep) == new = e /\ rep = ""
Started(e, new, rep) ==
  /\ rep = "READY" /\ new.mode = "load"
  /\ \/ e.mode = "load" /\ new = e
     \/ e.mode = "wait"
SameFlash(e, new) == new.mode = e.mode /\ new.flash = e.flash /\ new.installed = e.installed
Wrote(e, d, new, rep) ==
  /\ rep = "LOADING_SERVER" /\ e.mode = "load" /\ Fits(e, d)
  /\ new.mode = "load" /\ new.flash = [e.flash EXCEPT ![d.seg.no] = d.seg.fw]
  /\ new.installed = e.installed
Installs(e, d, new, rep) ==
  /\ rep = "" /\ e.mode = "load" /\ \A k \in Segs : e.flash[k] = d.fw
  /\ new.mode = "wait" /\ new.installed = d.fw /\ new.flash = e.flash

Answered(n, d, new, rep, ok) ==
  /\ new \in Loaders /\ rep \in BootStates \cup {""} /\ ok \in BOOLEAN
  /\ dev' = [dev EXCEPT ![n] = new]
  /\ sdo' \in Transfers /\ sdo'.d = sdo.d
  /\ sdo'.phase = IF ok THEN "ok" ELSE "abort"
  /\ reports' = IF rep = "" THEN reports ELSE [reports EXCEPT ![n] = Append(reports[n], rep)]
  /\ \/ ~ok /\ Refused(dev[n], new, rep)
     \/ ok /\ d.item = "request" /\ Started(dev[n], new, rep)
     \/ /\ ok /\ d.item \in {"seg_addr", "seg_data", "size", "crc"}
        /\ dev[n].mode = "load" /\ rep = "" /\ SameFlash(dev[n], new)
     \/ ok /\ d.item = "seg_crc" /\ Wrote(dev[n], d, new, rep)
     \/ ok /\ d.item = "version" /\ Installs(dev[n], d, new, rep)

\* A node serves a download in one of these ways.
LEMMA ServeIs ==
  ASSUME BaseInv, NodeServes
  PROVE  /\ sdo.d.node \in Nodes /\ sdo.phase = "sent" /\ dev[sdo.d.node] \in Loaders
         /\ sdo.d.item \in {"request", "seg_crc"} => reports[sdo.d.node] = <<>>
         /\ \E new, rep, ok : Answered(sdo.d.node, sdo.d, new, rep, ok)
<1> DEFINE d == sdo.d  n == d.node  e == dev[n]
<1>1. /\ sdo.phase = "sent" /\ Serve(n, d)
      /\ d.item \in {"request", "seg_crc"} => reports[n] = <<>>
  BY DEF NodeServes
<1>2. sdo \in Transfers /\ d \in Downloads /\ n \in Nodes
  BY <1>1, BaseParts DEF Agree
<1>3. dev \in [Nodes -> Loaders] /\ e \in Loaders
  BY <1>2 DEF BaseInv, Types
<1>4. d.seg \in Segments /\ d.fw \in Firmwares \cup {NoFw} /\ d.item \in {"request"} \cup StepItems
      /\ d.seg.no \in 0..NumSeg /\ d.seg.fw \in Firmwares \cup {NoFw}
  BY <1>2 DEF Downloads, Segments
<1>5. e.mode \in {"wait", "load"} /\ e.flash \in [Segs -> Firmwares \cup {NoFw}]
  BY <1>3 DEF Loaders
<1>6. SUFFICES \E new, rep, ok : Answered(n, d, new, rep, ok)
  BY <1>1, <1>2, <1>3
<1>7. ASSUME NEW ok \in BOOLEAN, NEW new \in Loaders, NEW rep \in BootStates \cup {""},
             sdo' = [sdo EXCEPT !.phase = IF ok THEN "ok" ELSE "abort"],
             dev' = [dev EXCEPT ![n] = new],
             reports' = IF rep = "" THEN reports
                        ELSE [reports EXCEPT ![n] = Append(reports[n], rep)],
             \/ ~ok /\ Refused(e, new, rep)
             \/ ok /\ d.item = "request" /\ Started(e, new, rep)
             \/ /\ ok /\ d.item \in {"seg_addr", "seg_data", "size", "crc"}
                /\ e.mode = "load" /\ rep = "" /\ SameFlash(e, new)
             \/ ok /\ d.item = "seg_crc" /\ Wrote(e, d, new, rep)
             \/ ok /\ d.item = "version" /\ Installs(e, d, new, rep)
      PROVE  \E new1, rep1, ok1 : Answered(n, d, new1, rep1, ok1)
  <2>1. PICK p : p = IF ok THEN "ok" ELSE "abort"
    OBVIOUS
  <2>2. p \in {"ok", "abort"}
    BY <2>1
  <2>3. sdo' = [sdo EXCEPT !.phase = p]
    BY <1>7, <2>1
  <2>4. sdo' \in Transfers /\ sdo'.d = sdo.d /\ sdo'.phase = p
    BY <1>2, <2>2, <2>3 DEF Transfers
  <2>5. Answered(n, d, new, rep, ok)
    BY <1>7, <2>1, <2>4 DEF Answered
  <2>6. QED
    BY <2>5
<1>8. PICK yes \in BOOLEAN, no \in BOOLEAN : yes = TRUE /\ no = FALSE
  OBVIOUS
<1>9. ASSUME sdo' = [sdo EXCEPT !.phase = "abort"], dev' = [dev EXCEPT ![n] = e],
             reports' = reports
      PROVE  \E new, rep, ok : Answered(n, d, new, rep, ok)
  <2>1. sdo' = [sdo EXCEPT !.phase = IF no THEN "ok" ELSE "abort"]
    BY <1>8, <1>9
  <2>2. Refused(e, e, "")
    BY DEF Refused
  <2>3. reports' = IF "" = "" THEN reports ELSE [reports EXCEPT ![n] = Append(reports[n], "")]
    BY <1>9
  <2>4. QED
    BY <1>3, <1>7, <1>8, <1>9, <2>1, <2>2, <2>3
<1>10. ASSUME NEW new \in Loaders, NEW rep \in BootStates \cup {""},
             sdo' = [sdo EXCEPT !.phase = "ok"], dev' = [dev EXCEPT ![n] = new],
             reports' = IF rep = "" THEN reports
                        ELSE [reports EXCEPT ![n] = Append(reports[n], rep)],
             \/ d.item = "request" /\ Started(e, new, rep)
             \/ /\ d.item \in {"seg_addr", "seg_data", "size", "crc"}
                /\ e.mode = "load" /\ rep = "" /\ SameFlash(e, new)
             \/ d.item = "seg_crc" /\ Wrote(e, d, new, rep)
             \/ d.item = "version" /\ Installs(e, d, new, rep)
      PROVE  \E new1, rep1, ok : Answered(n, d, new1, rep1, ok)
  <2>1. sdo' = [sdo EXCEPT !.phase = IF yes THEN "ok" ELSE "abort"]
    BY <1>8, <1>10
  <2>2. QED
    BY <1>7, <1>8, <1>10, <2>1
<1>11. CASE d.item = "request" /\ e.mode = "wait"
  <2>1. PICK z, new : z = 0 /\ new = [e EXCEPT !.mode = "load", !.flash = Erased,
                                          !.installed = NoFw, !.addr = z, !.data = NoSeg]
    OBVIOUS
  <2>2. /\ sdo' = [sdo EXCEPT !.phase = "ok"] /\ dev' = [dev EXCEPT ![n] = new]
        /\ reports' = [reports EXCEPT ![n] = Append(reports[n], "READY")]
    BY <1>1, <1>11, <2>1 DEF Serve
  <2>3. z \in 0..NumSeg
    BY <2>1, MasterAssumption
  <2>4. Erased \in [Segs -> Firmwares \cup {NoFw}]
    BY DEF Erased
  <2>5. PICK y1 \in Loaders : y1 = [e EXCEPT !.mode = "load"]
    BY <1>3 DEF Loaders
  <2>6. PICK y2 \in Loaders : y2 = [y1 EXCEPT !.flash = Erased]
    BY <2>4 DEF Loaders
  <2>7. PICK y3 \in Loaders : y3 = [y2 EXCEPT !.installed = NoFw]
    BY DEF Loaders
  <2>8. PICK y4 \in Loaders : y4 = [y3 EXCEPT !.addr = z]
    BY <2>3 DEF Loaders
  <2>9. new = [y4 EXCEPT !.data = NoSeg]
    BY <2>1, <2>5, <2>6, <2>7, <2>8
  <2>10. y4.mode = "load"
    BY <2>5, <2>6, <2>7, <2>8 DEF Loaders
  <2>11. new \in Loaders /\ new.mode = "load"
    BY <2>9, <2>10, SegmentTypes DEF Loaders
  <2>12. Started(e, new, "READY")
    BY <1>11, <2>11 DEF Started
  <2>13. QED
    BY <1>10, <1>11, <2>2, <2>11, <2>12 DEF BootStates
<1>12. CASE d.item = "request" /\ e.mode = "load"
  <2>1. /\ sdo' = [sdo EXCEPT !.phase = "ok"] /\ dev' = [dev EXCEPT ![n] = e]
        /\ reports' = [reports EXCEPT ![n] = Append(reports[n], "READY")]
    BY <1>1, <1>12 DEF Serve
  <2>2. Started(e, e, "READY")
    BY <1>12 DEF Started
  <2>3. QED
    BY <1>3, <1>10, <1>12, <2>1, <2>2 DEF BootStates
<1>13. CASE d.item # "request" /\ e.mode = "wait"
  <2>1. /\ sdo' = [sdo EXCEPT !.phase = "abort"] /\ dev' = [dev EXCEPT ![n] = e]
        /\ reports' = reports
    BY <1>1, <1>13 DEF Serve
  <2>2. QED
    BY <1>9, <2>1
<1>14. CASE d.item = "seg_addr" /\ e.mode = "load"
  <2>1. PICK new : new = [e EXCEPT !.addr = d.seg.no, !.data = NoSeg]
    OBVIOUS
  <2>2. /\ sdo' = [sdo EXCEPT !.phase = "ok"] /\ dev' = [dev EXCEPT ![n] = new]
        /\ reports' = reports
    BY <1>1, <1>14, <2>1 DEF Serve
  <2>3. PICK y \in Loaders : y = [e EXCEPT !.addr = d.seg.no]
    BY <1>3, <1>4 DEF Loaders
  <2>4. new = [y EXCEPT !.data = NoSeg]
    BY <2>1, <2>3
  <2>5. new \in Loaders /\ SameFlash(e, new)
    <3>1. y.mode = e.mode /\ y.flash = e.flash /\ y.installed = e.installed
      BY <1>3, <2>3 DEF Loaders
    <3>2. new \in Loaders /\ new.mode = y.mode /\ new.flash = y.flash
          /\ new.installed = y.installed
      BY <2>4, SegmentTypes DEF Loaders
    <3>3. QED
      BY <3>1, <3>2 DEF SameFlash
  <2>6. QED
    BY <1>10, <1>14, <2>2, <2>5
<1>15. CASE d.item = "seg_data" /\ e.mode = "load"
  <2>1. PICK new : new = [e EXCEPT !.data = d.seg]
    OBVIOUS
  <2>2. /\ sdo' = [sdo EXCEPT !.phase = "ok"] /\ dev' = [dev EXCEPT ![n] = new]
        /\ reports' = reports
    BY <1>1, <1>15, <2>1 DEF Serve
  <2>3. new \in Loaders /\ SameFlash(e, new)
    BY <1>3, <1>4, <2>1 DEF Loaders, SameFlash
  <2>4. QED
    BY <1>10, <1>15, <2>2, <2>3
<1>16. CASE d.item = "seg_crc" /\ e.mode = "load" /\ Fits(e, d)
  <2>1. PICK new, fl : fl = [e.flash EXCEPT ![d.seg.no] = d.seg.fw]
                       /\ new = [e EXCEPT !.flash[d.seg.no] = d.seg.fw, !.data = NoSeg]
    OBVIOUS
  <2>2. /\ sdo' = [sdo EXCEPT !.phase = "ok"] /\ dev' = [dev EXCEPT ![n] = new]
        /\ reports' = [reports EXCEPT ![n] = Append(reports[n], "LOADING_SERVER")]
    BY <1>1, <1>16, <2>1 DEF Serve
  <2>3. fl \in [Segs -> Firmwares \cup {NoFw}]
    BY <1>4, <1>5, <2>1
  <2>4. PICK y \in Loaders : y = [e EXCEPT !.flash = fl]
    BY <1>3, <2>3 DEF Loaders
  <2>5. new = [y EXCEPT !.data = NoSeg]
    BY <1>3, <2>1, <2>4 DEF Loaders
  <2>6. new \in Loaders /\ Wrote(e, d, new, "LOADING_SERVER")
    <3>1. y.mode = e.mode /\ y.flash = fl /\ y.installed = e.installed
      BY <1>3, <2>4 DEF Loaders
    <3>2. new \in Loaders /\ new.mode = y.mode /\ new.flash = y.flash
          /\ new.installed = y.installed
      BY <2>5, SegmentTypes DEF Loaders
    <3>3. QED
      BY <1>16, <2>1, <3>1, <3>2 DEF Wrote
  <2>7. QED
    BY <1>10, <1>16, <2>2, <2>6 DEF BootStates
<1>17. CASE d.item = "seg_crc" /\ e.mode = "load" /\ ~Fits(e, d)
  <2>1. /\ sdo' = [sdo EXCEPT !.phase = "abort"] /\ dev' = [dev EXCEPT ![n] = e]
        /\ reports' = reports
    BY <1>1, <1>17 DEF Serve
  <2>2. QED
    BY <1>9, <2>1
<1>18. CASE d.item \in {"size", "crc"} /\ e.mode = "load"
  <2>1. /\ sdo' = [sdo EXCEPT !.phase = "ok"] /\ dev' = [dev EXCEPT ![n] = e]
        /\ reports' = reports
    BY <1>1, <1>18 DEF Serve
  <2>2. SameFlash(e, e)
    BY DEF SameFlash
  <2>3. QED
    BY <1>3, <1>10, <1>18, <2>1, <2>2
<1>19. CASE d.item = "version" /\ e.mode = "load" /\ \A k \in Segs : e.flash[k] = d.fw
  <2>1. PICK new : new = [e EXCEPT !.mode = "wait", !.installed = d.fw]
    OBVIOUS
  <2>2. /\ sdo' = [sdo EXCEPT !.phase = "ok"] /\ dev' = [dev EXCEPT ![n] = new]
        /\ reports' = reports
    BY <1>1, <1>19, <2>1 DEF Serve
  <2>3. new \in Loaders /\ new.mode = "wait" /\ new.installed = d.fw /\ new.flash = e.flash
    BY <1>3, <1>4, <2>1 DEF Loaders
  <2>4. Installs(e, d, new, "")
    BY <1>19, <2>3 DEF Installs
  <2>5. QED
    BY <1>10, <1>19, <2>2, <2>3, <2>4
<1>20. CASE d.item = "version" /\ e.mode = "load" /\ ~(\A k \in Segs : e.flash[k] = d.fw)
  <2>1. /\ sdo' = [sdo EXCEPT !.phase = "abort"] /\ dev' = [dev EXCEPT ![n] = e]
        /\ reports' = reports
    BY <1>1, <1>20 DEF Serve
  <2>2. QED
    BY <1>9, <2>1
<1>21. QED
  BY <1>4, <1>5, <1>11, <1>12, <1>13, <1>14, <1>15, <1>16, <1>17, <1>18, <1>19, <1>20
     DEF StepItems

\* A node serves a download.
LEMMA BaseServes ==
  ASSUME BaseInv, NodeServes
  PROVE  BaseInv'
<1>1. /\ sdo.d.node \in Nodes /\ sdo.phase = "sent"
      /\ sdo.d.item \in {"request", "seg_crc"} => reports[sdo.d.node] = <<>>
  BY ServeIs
<1>2. PICK new, rep, ok : Answered(sdo.d.node, sdo.d, new, rep, ok)
  BY ServeIs
<1>3. UNCHANGED <<tableVars, heap, out, calls, troubles, alone, dangling>>
  BY DEF NodeServes, history
<1>4. /\ heap' = heap /\ m_slaves' = m_slaves /\ TableSound' /\ \A o : Served(o) => Served(o)'
  BY <1>3, SessionsStay
<1>5. Agree(out, sdo) /\ Served(out) /\ Types
  BY BaseParts
<1>6. sdo' \in Transfers /\ sdo'.d = sdo.d /\ sdo'.phase \in {"ok", "abort"}
  BY <1>2 DEF Answered
<1>7. Agree(out', sdo')
  <2>1. out' = out
    BY <1>3
  <2>2. sdo'.phase # "none" /\ sdo'.d.node \in Nodes
    BY <1>1, <1>6
  <2>3. QED
    BY <1>1, <1>5, <1>6, <2>1, <2>2 DEF Agree
<1>8. Served(out)'
  BY <1>3, <1>4, <1>5
<1>9. dev' \in [Nodes -> Loaders]
  <2>1. dev \in [Nodes -> Loaders] /\ new \in Loaders
        /\ dev' = [dev EXCEPT ![sdo.d.node] = new]
    BY <1>2, <1>5 DEF Types, Answered
  <2>2. QED
    BY <2>1
<1>10. reports' \in [Nodes -> Seq(BootStates)] /\ \A n \in Nodes : Len(reports'[n]) <= 1
  <2>1. reports \in [Nodes -> Seq(BootStates)] /\ \A n \in Nodes : Len(reports[n]) <= 1
    BY <1>5 DEF Types
  <2>2. CASE rep = ""
    BY <1>2, <2>1, <2>2 DEF Answered
  <2>3. CASE rep # ""
    <3>1. rep \in BootStates /\ sdo.d.item \in {"request", "seg_crc"}
          /\ reports' = [reports EXCEPT ![sdo.d.node] = Append(reports[sdo.d.node], rep)]
      BY <1>2, <2>3 DEF Answered, Refused, Installs, Wrote, Started
    <3>2. PICK q : q = Append(reports[sdo.d.node], rep)
      OBVIOUS
    <3>3. q \in Seq(BootStates) /\ Len(q) = 1
      <4>1. Len(reports[sdo.d.node]) = 0 /\ reports[sdo.d.node] \in Seq(BootStates)
        BY <1>1, <2>1, <3>1, EmptySeq
      <4>2. QED
        BY <3>1, <3>2, <4>1, AppendProperties
    <3>4. reports' = [reports EXCEPT ![sdo.d.node] = q]
      BY <3>1, <3>2
    <3>5. reports' \in [Nodes -> Seq(BootStates)]
      BY <2>1, <3>3, <3>4
    <3>6. \A n \in Nodes : reports'[n] = IF n = sdo.d.node THEN q ELSE reports[n]
      BY <2>1, <3>4
    <3>7. ASSUME NEW n \in Nodes
          PROVE  Len(reports'[n]) <= 1
      <4>1. CASE n = sdo.d.node
        <5>1. reports'[n] = q
          BY <3>6, <4>1
        <5>2. Len(reports'[n]) = 1
          BY <3>3, <5>1, Zenon
        <5>3. QED
          BY <5>2
      <4>2. CASE n # sdo.d.node
        BY <2>1, <3>6, <4>2
      <4>3. QED
        BY <4>1, <4>2
    <3>8. QED
      BY <3>5, <3>7
  <2>4. QED
    BY <2>2, <2>3
<1>11. Types'
  BY <1>3, <1>4, <1>5, <1>9, <1>10 DEF Types
<1>12. QED
  BY <1>4, <1>7, <1>8, <1>11 DEF BaseInv

\* Time passes for a session, a download is lost, a node restarts.
LEMMA BaseTimer ==
  ASSUME BaseInv, NEW h \in DOMAIN heap, SlaveTimer(h)
  PROVE  /\ BaseInv' /\ heap[h] \in Sessions
         /\ \E t \in Sessions :
              /\ heap' = [heap EXCEPT ![h] = t]
              /\ \A k \in DOMAIN heap : heap'[k] = IF k = h THEN t ELSE heap[k]
              /\ DOMAIN heap' = DOMAIN heap /\ Filled' = Filled
              /\ t.id = heap[h].id /\ t.live = heap[h].live /\ t.fw = heap[h].fw
              /\ t.pos = heap[h].pos /\ t.seg = heap[h].seg /\ t.state = heap[h].state
              /\ t.repeat = heap[h].repeat /\ t.waiting = heap[h].waiting /\ t.expired
         /\ troubles' \in Nat /\ (troubles' = 0 => troubles = 0)
<1>1. /\ heap \in Seq(Sessions) /\ heap[h] \in Sessions /\ m_slaves \in [Slots -> 0..Len(heap)]
      /\ Types /\ Agree(out, sdo) /\ Served(out)
  BY BaseParts
<1>2. PICK f \in BOOLEAN : f = TRUE
  OBVIOUS
<1>3. PICK t : t = [heap[h] EXCEPT !.expired = f]
  OBVIOUS
<1>4. /\ heap' = [heap EXCEPT ![h] = t]
      /\ UNCHANGED <<tableVars, out, sdo, reports, dev, calls, alone, dangling>>
  BY <1>1, <1>2, <1>3 DEF SlaveTimer, busVars
<1>5. /\ t \in Sessions /\ t.id = heap[h].id /\ t.live = heap[h].live /\ t.fw = heap[h].fw
      /\ t.pos = heap[h].pos /\ t.seg = heap[h].seg /\ t.state = heap[h].state
      /\ t.repeat = heap[h].repeat /\ t.waiting = heap[h].waiting /\ t.expired = f
  BY <1>1, <1>3 DEF Sessions
<1>6. /\ heap' \in Seq(Sessions) /\ Len(heap') = Len(heap) /\ DOMAIN heap' = DOMAIN heap
      /\ \A k \in DOMAIN heap : heap'[k] = IF k = h THEN t ELSE heap[k]
      /\ m_slaves' = m_slaves /\ Filled' = Filled /\ TableSound'
      /\ \A o : Served(o) => Served(o)'
  BY <1>4, <1>5, SessionChanges
<1>7. troubles' \in Nat /\ (troubles' = 0 => troubles = 0)
  <2>1. troubles \in Nat
    BY <1>1 DEF Types
  <2>2. troubles' = troubles \/ troubles' = troubles + 1
    BY DEF SlaveTimer
  <2>3. QED
    BY <2>1, <2>2
<1>8. Types'
  BY <1>1, <1>4, <1>6, <1>7 DEF Types
<1>9. Served(out)' /\ Agree(out', sdo')
  BY <1>1, <1>4, <1>6
<1>10. BaseInv'
  BY <1>6, <1>8, <1>9 DEF BaseInv
<1>11. QED
  BY <1>1, <1>2, <1>4, <1>5, <1>6, <1>7, <1>10

\* A download is lost.
LEMMA BaseLost ==
  ASSUME BaseInv, SdoLost
  PROVE  /\ BaseInv' /\ sdo' \in Transfers /\ sdo'.d = sdo.d /\ sdo'.phase = "abort"
         /\ Busy /\ Busy' /\ troubles' # 0
<1>1. /\ sdo.phase \in {"sent", "ok"} /\ troubles' = troubles + 1
      /\ sdo' = [sdo EXCEPT !.phase = "abort"]
      /\ UNCHANGED <<tableVars, heap, out, reports, dev, calls, alone, dangling>>
  BY DEF SdoLost
<1>2. Types /\ Agree(out, sdo) /\ Served(out) /\ sdo \in Transfers
  BY BaseParts
<1>3. heap' = heap /\ m_slaves' = m_slaves /\ TableSound' /\ \A o : Served(o) => Served(o)'
  BY <1>1, SessionsStay
<1>4. sdo' \in Transfers /\ sdo'.d = sdo.d /\ sdo'.phase = "abort"
  BY <1>1, <1>2 DEF Transfers
<1>5. Agree(out', sdo')
  BY <1>1, <1>2, <1>4 DEF Agree
<1>6. troubles' \in Nat /\ troubles' # 0
  BY <1>1, <1>2 DEF Types
<1>7. Types'
  BY <1>1, <1>2, <1>3, <1>6 DEF Types
<1>8. BaseInv'
  BY <1>1, <1>2, <1>3, <1>5, <1>7 DEF BaseInv
<1>9. Busy /\ Busy'
  BY <1>1, <1>4 DEF Busy, NoSdo
<1>10. QED
  BY <1>4, <1>6, <1>8, <1>9

\* A node restarts: what it had installed stays.
LEMMA BaseRestarts ==
  ASSUME BaseInv, NEW n \in Nodes, NodeRestarts(n)
  PROVE  /\ BaseInv' /\ troubles' # 0
         /\ \A k \in Nodes : dev'[k].installed = dev[k].installed
<1>1. /\ troubles' = troubles + 1
      /\ UNCHANGED <<tableVars, heap, out, sdo, reports, calls, alone, dangling>>
  BY DEF NodeRestarts
<1>2. Types /\ Agree(out, sdo) /\ Served(out) /\ dev \in [Nodes -> Loaders]
  BY BaseParts DEF Types
<1>3. PICK z, new : z = 0 /\ new = [dev[n] EXCEPT !.mode = "wait", !.addr = z, !.data = NoSeg]
  OBVIOUS
<1>4. dev' = [dev EXCEPT ![n] = new]
  BY <1>2, <1>3 DEF NodeRestarts
<1>5. z \in 0..NumSeg
  BY <1>3, MasterAssumption
<1>6. PICK y1 \in Loaders : y1 = [dev[n] EXCEPT !.mode = "wait"]
  BY <1>2 DEF Loaders
<1>7. PICK y2 \in Loaders : y2 = [y1 EXCEPT !.addr = z]
  BY <1>5 DEF Loaders
<1>8. new = [y2 EXCEPT !.data = NoSeg]
  BY <1>3, <1>6, <1>7
<1>9. y2.installed = dev[n].installed
  <2>1. dev[n] \in Loaders
    BY <1>2
  <2>2. QED
    BY <1>6, <1>7, <2>1 DEF Loaders
<1>10. new \in Loaders /\ new.installed = y2.installed
  BY <1>8, SegmentTypes DEF Loaders
<1>11. dev' \in [Nodes -> Loaders] /\ \A k \in Nodes : dev'[k].installed = dev[k].installed
  BY <1>2, <1>4, <1>9, <1>10
<1>12. heap' = heap /\ m_slaves' = m_slaves /\ TableSound' /\ \A o : Served(o) => Served(o)'
  BY <1>1, SessionsStay
<1>13. troubles' \in Nat /\ troubles' # 0
  BY <1>1, <1>2 DEF Types
<1>14. Types'
  BY <1>1, <1>2, <1>11, <1>12, <1>13 DEF Types
<1>15. QED
  BY <1>1, <1>2, <1>11, <1>12, <1>13, <1>14 DEF BaseInv

\* The master begins with an empty table.
LEMMA BaseInit ==
  ASSUME MasterInit
  PROVE  BaseInv /\ Filled = {} /\ heap = <<>> /\ Len(heap) = 0 /\ DOMAIN heap = {}
<1>1. /\ m_slaves = [i \in Slots |-> 0] /\ m_slave_number = 0
      /\ heap = <<>> /\ out = OutputInit /\ sdo = NoSdo /\ reports = [n \in Nodes |-> <<>>]
      /\ dev = [n \in Nodes |-> [mode |-> "wait", addr |-> 0, data |-> NoSeg,
                                 flash |-> [k \in Segs |-> NoFw], installed |-> NoFw]]
      /\ calls = 0 /\ troubles = 0 /\ alone = TRUE /\ dangling = FALSE
  BY DEF MasterInit
<1>2. Filled = {}
  BY <1>1 DEF Filled
<1>3. heap \in Seq(Sessions) /\ Len(heap) = 0 /\ DOMAIN heap = {}
  <2>1. heap \in Seq(Sessions) /\ Len(heap) = 0
    BY <1>1, EmptySeq
  <2>2. DOMAIN heap = 1..0
    BY <2>1, LenProperties
  <2>3. QED
    BY <2>1, <2>2
<1>4. PICK z, m, f : z = 0 /\ m = -1 /\ f = FALSE
  OBVIOUS
<1>5. z \in 0..NumSeg /\ z \in Nat /\ m \in Int
  BY <1>4, MasterAssumption
<1>6. f \in BOOLEAN
  BY <1>4
<1>7. OutputInit \in Outputs /\ OutputInit.step >= -1 /\ ~OutputInit.wait
      /\ OutputInit.state = "IDLE" /\ OutputInit.node = NoNode /\ OutputInit.owner = 0
  <2>1. OutputInit = [state |-> "IDLE", step |-> m, node |-> NoNode, fw |-> NoFw, seg |-> NoSeg,
                      wait |-> f, owner |-> z]
    BY <1>4 DEF OutputInit
  <2>2. PICK o : o = OutputInit
    OBVIOUS
  <2>3. "IDLE" \in OutStates
    BY DEF OutStates
  <2>4. o \in Outputs
    BY <1>5, <1>6, <2>1, <2>2, <2>3, SegmentTypes DEF Outputs
  <2>5. o.step = m /\ o.wait = f /\ o.state = "IDLE" /\ o.node = NoNode /\ o.owner = z
    BY <2>1, <2>2
  <2>6. m >= -1
    BY <1>4
  <2>7. QED
    BY <1>4, <2>2, <2>4, <2>5, <2>6
<1>8. Agree(out, sdo)
  <2>1. NoSdo.phase = "none" /\ NoSdo \in Transfers
    BY NoSdoType DEF NoSdo
  <2>2. QED
    BY <1>1, <1>7, <2>1 DEF Agree
<1>9. Served(out)
  BY <1>1, <1>3, <1>7 DEF Served
<1>10. TableSound
  <2>1. Cardinality(Filled) = 0
    BY <1>2, FS_EmptySet
  <2>2. QED
    BY <1>1, <1>2, <2>1 DEF TableSound, NumberIsTable
<1>11. dev \in [Nodes -> Loaders]
  <2>1. [k \in Segs |-> NoFw] \in [Segs -> Firmwares \cup {NoFw}]
    OBVIOUS
  <2>2. PICK l : l = [mode |-> "wait", addr |-> z, data |-> NoSeg,
                      flash |-> [k \in Segs |-> NoFw], installed |-> NoFw]
    OBVIOUS
  <2>3. l \in Loaders
    BY <1>5, <2>1, <2>2, SegmentTypes DEF Loaders
  <2>4. dev = [n \in Nodes |-> l]
    BY <1>1, <1>4, <2>2
  <2>5. QED
    BY <2>3, <2>4
<1>12. reports \in [Nodes -> Seq(BootStates)] /\ \A n \in Nodes : Len(reports[n]) <= 1
  <2>1. <<>> \in Seq(BootStates) /\ Len(<<>>) = 0
    BY EmptySeq
  <2>2. PICK q : q = <<>>
    OBVIOUS
  <2>3. reports = [n \in Nodes |-> q] /\ q \in Seq(BootStates) /\ Len(q) <= 1
    BY <1>1, <2>1, <2>2
  <2>4. QED
    BY <2>3
<1>13. m_slaves \in [Slots -> 0..Len(heap)]
  BY <1>1, <1>3
<1>14. calls \in Nat /\ troubles \in Nat
  BY <1>1
<1>15. alone \in BOOLEAN /\ dangling \in BOOLEAN
  BY <1>1
<1>16. Types
  BY <1>3, <1>11, <1>12, <1>13, <1>14, <1>15 DEF Types
<1>17. QED
  BY <1>1, <1>2, <1>3, <1>8, <1>9, <1>10, <1>16 DEF BaseInv

\* Every step keeps it.
LEMMA BaseStep ==
  ASSUME BaseInv, [Next]_vars
  PROVE  BaseInv'
<1>1. CASE UNCHANGED vars
  <2>1. UNCHANGED <<tableVars, heap, out, sdo, reports, dev, calls, troubles, alone, dangling>>
    BY <1>1 DEF vars, busVars, history
  <2>2. heap' = heap /\ m_slaves' = m_slaves /\ TableSound' /\ \A o : Served(o) => Served(o)'
    BY <2>1, SessionsStay
  <2>3. Types /\ Agree(out, sdo) /\ Served(out)
    BY BaseParts
  <2>4. Types' /\ Agree(out', sdo') /\ Served(out)'
    BY <2>1, <2>2, <2>3 DEF Types
  <2>5. QED
    BY <2>2, <2>4 DEF BaseInv
<1>2. CASE \E n \in Nodes : NodeRestarts(n)
  BY <1>2, BaseRestarts
<1>3. CASE \E h \in DOMAIN heap : SlaveTimer(h)
  BY <1>3, BaseTimer
<1>4. QED
  BY <1>1, <1>2, <1>3, BaseAdd, BaseRemove, BaseProcess, BaseSdoEnds, BaseHears, BaseServes,
     BaseLost DEF Next

-----------------------------------------------------------------------------
(* A session that has the output to itself.                                  *)

\* The session s, the output o and the transfer d: how far each is.
One(s, o, d) ==
  /\ o.state = "SEND_SEG" => o.step <= 3 /\ (d.phase # "none" => o.step <= 2)
  /\ o.state = "SEND_FW_INFO" => o.step <= 2
  /\ o.state = "REQUEST" => o.step <= 0 /\ s.state \in {"REQUEST", "ABORT"}
  /\ o.state = "IDLE" => o.step <= 1 /\ (d.phase # "none" => o.step <= 0)
  /\ s.state = "IDLE" => o.state = "IDLE"
  /\ s.state = "REQUEST" => o.state \in {"IDLE", "REQUEST"}
  /\ s.state \in {"IDLE", "REQUEST"} /\ o.state = "IDLE" => d.phase = "none" /\ o.step <= 0
  /\ s.state \in {"SEND_SEG", "SEND_FW_INFO", "FINISH"} => o.node = s.id
  /\ s.repeat <= RepeatMax
  /\ s.state \notin {"ABORT", "FINISH"} => s.repeat < RepeatMax

\* The output without a session.
None(o, d) == o.state = "IDLE" /\ o.step <= 0 /\ (d.phase # "none" => o.step <= -1)

AloneInv ==
  alone =>
    /\ ~dangling
    /\ \A h \in DOMAIN heap : heap[h].repeat <= RepeatMax
    /\ \A i \in Filled : m_slaves[i] = out.owner
    /\ Filled # {} => One(heap[out.owner], out, sdo)
    /\ Filled = {} => None(out, sdo)

\* The one session.
LEMMA AloneParts ==
  ASSUME BaseInv, AloneInv, alone, Filled # {}
  PROVE  /\ out.owner \in DOMAIN heap /\ heap[out.owner] \in Sessions /\ heap[out.owner].live
         /\ \E i \in Filled : Filled = {i} /\ m_slaves[i] = out.owner
         /\ out \in Outputs /\ out.step >= -1 /\ out.node \in {NoNode, heap[out.owner].id}
         /\ One(heap[out.owner], out, sdo) /\ ~dangling
         /\ \A h \in DOMAIN heap : heap[h].repeat <= RepeatMax
<1>1. PICK i : i \in Filled
  OBVIOUS
<1>2. \A j \in Filled : m_slaves[j] = out.owner
  BY DEF AloneInv
<1>3. \A j \in Filled : j = i
  BY <1>1, <1>2, BaseParts DEF TableSound
<1>4. /\ out.owner \in DOMAIN heap /\ heap[out.owner] \in Sessions /\ heap[out.owner].live
  BY <1>1, <1>2, BaseParts DEF TableSound
<1>5. out.node \in {NoNode, heap[out.owner].id}
  BY <1>2, BaseParts DEF Served
<1>6. out \in Outputs /\ out.step >= -1
  BY BaseParts DEF Agree
<1>7. QED
  BY <1>1, <1>2, <1>3, <1>4, <1>5, <1>6 DEF AloneInv

\* Processing the output.
LEMMA OneProcess ==
  ASSUME BaseInv, NEW s \in Sessions, One(s, out, sdo), NEW r \in Process(out)
  PROVE  One(s, r.o, r.sdo)
<1>1. out \in Outputs /\ out.step >= -1 /\ out.step \in Int /\ Busy \in BOOLEAN
      /\ out.state \in OutStates
  BY BaseParts DEF Agree, Outputs, Busy
<1>2. Busy <=> sdo.phase # "none"
  BY BaseParts
<1>3. CASE r = [o |-> out, sdo |-> sdo]
  BY <1>3
<1>4. CASE Restarts(out, Busy) /\ r = [o |-> [out EXCEPT !.step = 0], sdo |-> sdo]
  <2>1. out.state \in {"SEND_SEG", "SEND_FW_INFO"} /\ out.step < 0
    BY <1>1, <1>4, RestartIsOne
  <2>2. r.o = [out EXCEPT !.step = 0] /\ r.sdo = sdo
    BY <1>4
  <2>3. r.o.step = 0 /\ r.o.state = out.state /\ r.o.node = out.node
    BY <1>1, <2>2 DEF Outputs
  <2>4. QED
    BY <2>1, <2>2, <2>3 DEF One
<1>5. CASE /\ out.state = "REQUEST"
           /\ r = [o |-> [out EXCEPT !.wait = TRUE],
                   sdo |-> [phase |-> "sent", d |-> RequestDownload(out)]]
  <2>1. r.o = [out EXCEPT !.wait = TRUE] /\ r.sdo.phase = "sent"
    BY <1>5
  <2>2. r.o.step = out.step /\ r.o.state = out.state /\ r.o.node = out.node
    BY <1>1, <2>1 DEF Outputs
  <2>3. QED
    BY <1>5, <2>1, <2>2 DEF One
<1>6. CASE /\ SendsStep(out, Busy)
           /\ r = [o |-> [out EXCEPT !.wait = TRUE],
                   sdo |-> [phase |-> "sent", d |-> Download(out)]]
  <2>1. out.state \in {"SEND_SEG", "SEND_FW_INFO"} /\ out.step \in 0..2
    BY <1>1, <1>6, StepIsOne
  <2>2. r.o = [out EXCEPT !.wait = TRUE] /\ r.sdo.phase = "sent"
    BY <1>6
  <2>3. r.o.step = out.step /\ r.o.state = out.state /\ r.o.node = out.node
    BY <1>1, <2>2 DEF Outputs
  <2>4. QED
    BY <2>1, <2>2, <2>3 DEF One
<1>7. QED
  BY <1>3, <1>4, <1>5, <1>6, ProcessCases

\* The switch.
LEMMA OneMoved ==
  ASSUME NEW s \in Sessions, NEW o \in Outputs, o.step >= -1, o.node \in {NoNode, s.id},
         NEW d, One(s, o, d), NEW t, NEW o2, Moved(s, o, t, o2)
  PROVE  One(t, o2, d) /\ t.repeat <= RepeatMax
<1>1. /\ s.id # NoNode /\ s.repeat \in Nat /\ s.repeat <= RepeatMax /\ RepeatMax \in Nat
      /\ o.step \in Int
      /\ s.state \notin {"ABORT", "FINISH"} => s.repeat < RepeatMax
  BY OutputAssumption, MasterAssumption DEF One, Sessions, Outputs
<1>2. t.id = s.id
  BY DEF Moved
<1>3. CASE Begun(s, o, t, o2)
  BY <1>1, <1>2, <1>3 DEF Begun, One
<1>4. CASE Requested(s, o, t, o2)
  <2>1. /\ s.state = "REQUEST" /\ t.repeat = s.repeat + 1
        /\ t.state = Limited(s, s.repeat + 1)
        /\ o2.state = "REQUEST" /\ o2.step = o.step /\ o2.node = s.id
    BY <1>4 DEF Requested
  <2>2. o.step <= 0
    BY <1>1, <2>1 DEF One
  <2>3. /\ t.repeat <= RepeatMax /\ t.state \in {"REQUEST", "ABORT"}
        /\ t.state # "ABORT" => t.repeat < RepeatMax
    BY <1>1, <2>1 DEF Limited
  <2>4. QED
    BY <2>1, <2>2, <2>3 DEF One
<1>5. CASE Informed(s, o, t, o2)
  <2>1. o.node = s.id
    BY <1>5 DEF Informed, One
  <2>2. /\ s.state = "SEND_FW_INFO" /\ t.repeat = s.repeat + 1
        /\ t.state = Limited(s, s.repeat + 1)
        /\ o2.state = "SEND_FW_INFO" /\ o2.step = -1 /\ o2.node = s.id
    BY <1>1, <1>5, <2>1 DEF Informed
  <2>3. /\ t.repeat <= RepeatMax /\ t.state \in {"SEND_FW_INFO", "ABORT"}
        /\ t.state # "ABORT" => t.repeat < RepeatMax
    BY <1>1, <2>2 DEF Limited
  <2>4. QED
    BY <1>2, <2>2, <2>3 DEF One
<1>6. CASE Handed(s, o, t, o2)
  <2>1. o.node = s.id
    BY <1>6 DEF Handed, One
  <2>2. /\ s.state = "SEND_SEG" /\ t.repeat = s.repeat + 1
        /\ t.state = Limited(s, s.repeat + 1)
        /\ o2.state = "SEND_SEG" /\ o2.step = -1 /\ o2.node = s.id
    BY <1>1, <1>6, <2>1 DEF Handed
  <2>3. /\ t.repeat <= RepeatMax /\ t.state \in {"SEND_SEG", "ABORT"}
        /\ t.state # "ABORT" => t.repeat < RepeatMax
    BY <1>1, <2>2 DEF Limited
  <2>4. QED
    BY <1>2, <2>2, <2>3 DEF One
<1>7. CASE GivenUp(s, o, t, o2)
  BY <1>1, <1>2, <1>7 DEF GivenUp, One
<1>8. CASE t = s /\ o2 = o
  BY <1>1, <1>8
<1>9. QED
  BY <1>3, <1>4, <1>5, <1>6, <1>7, <1>8 DEF Moved

\* What the end of a download tells.
LEMMA EndedTellsIs ==
  ASSUME NEW o \in Outputs, NEW ok \in BOOLEAN
  PROVE  \/ EndedTells(o, ok) = "nothing"
         \/ EndedTells(o, ok) = "seg_failed" /\ ~ok /\ o.step >= 0 /\ o.state = "SEND_SEG"
         \/ EndedTells(o, ok) = "fw_failed" /\ ~ok /\ o.step >= 0 /\ o.state = "SEND_FW_INFO"
         \/ EndedTells(o, ok) = "fw_done" /\ ok /\ o.step >= 2 /\ o.state = "SEND_FW_INFO"
<1>1. CASE ~ok /\ o.step >= 0 /\ o.state = "SEND_SEG"
  BY <1>1 DEF EndedTells
<1>2. CASE ~ok /\ o.step >= 0 /\ o.state = "SEND_FW_INFO"
  BY <1>2 DEF EndedTells
<1>3. CASE ok /\ o.step >= 2 /\ o.state = "SEND_FW_INFO"
  BY <1>3 DEF EndedTells
<1>4. CASE /\ ~(~ok /\ o.step >= 0 /\ o.state = "SEND_SEG")
           /\ ~(~ok /\ o.step >= 0 /\ o.state = "SEND_FW_INFO")
           /\ ~(ok /\ o.step >= 2 /\ o.state = "SEND_FW_INFO")
  BY <1>4, Zenon DEF EndedTells
<1>5. QED
  BY <1>1, <1>2, <1>3, <1>4

\* The session after what it is told.
TellsOne(s, what, t) == IF what = "nothing" THEN t = s ELSE t = Told(s, what)

\* The end of a download.
LEMMA OneEnded ==
  ASSUME NEW s \in Sessions, NEW o \in Outputs, o.step >= -1, o.node \in {NoNode, s.id},
         o.state # "IDLE" => o.node # NoNode,
         NEW d, d.phase # "none", One(s, o, d), NEW d2, d2.phase = "none",
         NEW ok \in BOOLEAN, NEW t, TellsOne(s, EndedTells(o, ok), t)
  PROVE  One(t, Ended(o, ok), d2) /\ t.repeat <= RepeatMax
<1>1. PICK x : /\ x = Ended(o, ok) /\ x.state = o.state /\ x.node = o.node
               /\ \/ x.step = o.step
                  \/ x.step = -1
                  \/ /\ o.state # "REQUEST" /\ ~(o.state = "SEND_FW_INFO" /\ o.step >= 2)
                     /\ x.step = o.step + 1
  BY EndedIs
<1>2. o.step \in Int /\ s.repeat \in Nat /\ RepeatMax \in Nat
  BY MasterAssumption DEF Outputs, Sessions
<1>3. One(s, x, d2)
  BY <1>1, <1>2 DEF One
<1>4. \/ t = s
      \/ /\ t \in Sessions /\ t.id = s.id /\ t.repeat = s.repeat
         /\ \/ t.state = s.state
            \/ t.state = "FINISH" /\ o.state = "SEND_FW_INFO"
  <2>1. \/ EndedTells(o, ok) = "nothing" /\ t = s
        \/ EndedTells(o, ok) = "seg_failed" /\ t = Told(s, "seg_failed")
        \/ EndedTells(o, ok) = "fw_failed" /\ t = Told(s, "fw_failed")
        \/ EndedTells(o, ok) = "fw_done" /\ t = Told(s, "fw_done") /\ o.state = "SEND_FW_INFO"
    BY EndedTellsIs DEF TellsOne
  <2>2. QED
    BY <2>1, ToldIs
<1>5. CASE t = s
  BY <1>1, <1>3, <1>5 DEF One
<1>6. CASE t.id = s.id /\ t.repeat = s.repeat /\ t.state = s.state
  BY <1>1, <1>3, <1>6 DEF One
<1>7. CASE t.id = s.id /\ t.repeat = s.repeat /\ t.state = "FINISH" /\ o.state = "SEND_FW_INFO"
  BY <1>1, <1>3, <1>7 DEF One
<1>8. QED
  BY <1>4, <1>5, <1>6, <1>7

\* A report of the node.
LEMMA OneHeard ==
  ASSUME NEW s \in Sessions, NEW o \in Outputs, o.step >= -1, o.node \in {NoNode, s.id},
         o.state # "IDLE" => o.node # NoNode,
         NEW d, One(s, o, d), NEW st, NEW t, TellsOne(s, ReportTells(o, st), t)
  PROVE  One(t, Reported(o, st), d) /\ t.repeat <= RepeatMax
<1>1. PICK x :
           /\ x = Reported(o, st) /\ x.node = o.node
           /\ \/ /\ ReportTells(o, st) = "seg_done"
                 /\ o.state = "SEND_SEG" /\ x.state = o.state /\ x.step = -1
              \/ /\ ReportTells(o, st) = "ready" /\ o.state = "REQUEST"
                 /\ x.state = "IDLE" /\ x.step = o.step
              \/ ReportTells(o, st) = "nothing" /\ x = o
  BY ReportedIs
<1>2. o.step \in Int /\ s.repeat \in Nat /\ RepeatMax \in Nat /\ 0 < RepeatMax
  BY MasterAssumption DEF Outputs, Sessions
<1>3. CASE ReportTells(o, st) = "nothing" /\ x = o
  BY <1>1, <1>3 DEF One, TellsOne
<1>4. CASE ReportTells(o, st) = "ready" /\ o.state = "REQUEST" /\ x.state = "IDLE"
           /\ x.step = o.step
  <2>1. t = Told(s, "ready")
    BY <1>4 DEF TellsOne
  <2>2. t.id = s.id /\ t.repeat = 0 /\ t.state = "SEND_SEG"
    BY <2>1, ToldIs
  <2>3. o.step <= 0 /\ o.node = s.id
    BY <1>4 DEF One
  <2>4. QED
    BY <1>1, <1>2, <1>4, <2>2, <2>3 DEF One
<1>5. CASE ReportTells(o, st) = "seg_done" /\ o.state = "SEND_SEG" /\ x.state = o.state
           /\ x.step = -1
  <2>1. t = Told(s, "seg_done")
    BY <1>5 DEF TellsOne
  <2>2. t.id = s.id /\ t.repeat = 0 /\ t.state \in {"SEND_FW_INFO", s.state}
    BY <2>1, ToldIs
  <2>3. s.state \notin {"IDLE", "REQUEST"} /\ o.node = s.id
    BY <1>5 DEF One
  <2>4. QED
    BY <1>1, <1>2, <1>5, <2>2, <2>3 DEF One
<1>6. QED
  BY <1>1, <1>3, <1>4, <1>5

\* sm_boot_master_add_slave: a session that meets another ends the claim.
LEMMA AloneAdd ==
  ASSUME BaseInv, AloneInv, AddSlave
  PROVE  AloneInv'
<1>1. SUFFICES ASSUME alone' PROVE AloneInv'
  BY DEF AloneInv
<1>2. PICK n \in Nodes, fw \in Firmwares : CreateSlave(n, fw)
  <2>1. PICK n \in Nodes, fw \in Firmwares : UpdateSlave(n, fw) \/ CreateSlave(n, fw)
    BY DEF AddSlave
  <2>2. ~UpdateSlave(n, fw)
    BY <1>1 DEF UpdateSlave
  <2>3. QED
    BY <2>1, <2>2
<1>3. alone /\ Filled = {} /\ ~Busy /\ sdo' = sdo /\ dangling' = dangling
  BY <1>1, <1>2 DEF CreateSlave, AddSlave, busVars, NothingOut
<1>4. ~dangling /\ None(out, sdo) /\ \A h \in DOMAIN heap : heap[h].repeat <= RepeatMax
  BY <1>3 DEF AloneInv
<1>5. PICK i \in Slots : Filled' = {i} /\ m_slaves'[i] = out'.owner
  BY <1>2, <1>3, CreatedIs
<1>6. /\ DOMAIN heap' = 1..(Len(heap) + 1) /\ \A k \in DOMAIN heap : heap'[k] = heap[k]
      /\ heap'[Len(heap) + 1] = NewSlave(n, fw) /\ out'.owner = Len(heap) + 1
      /\ out'.state = out.state /\ out'.step = out.step
      /\ DOMAIN heap = 1..Len(heap) /\ Len(heap) \in Nat
  BY <1>2, CreatedIs, BaseParts
<1>7. NewSlave(n, fw).state = "IDLE" /\ NewSlave(n, fw).repeat = 0
  BY NewSlaveType
<1>8. 0 < RepeatMax /\ 0 <= RepeatMax
  BY MasterAssumption
<1>9. \A h \in DOMAIN heap' : heap'[h].repeat <= RepeatMax
  BY <1>4, <1>6, <1>7, <1>8
<1>10. sdo'.phase = "none"
  BY <1>3, BaseParts
<1>11. One(heap'[out'.owner], out', sdo')
  <2>1. PICK s : s = heap'[out'.owner]
    OBVIOUS
  <2>2. s.state = "IDLE" /\ s.repeat = 0
    BY <1>6, <1>7, <2>1
  <2>3. out'.state = "IDLE" /\ out'.step <= 0
    BY <1>4, <1>6 DEF None
  <2>4. out'.step \in Int
    BY <1>6, BaseParts DEF Outputs
  <2>5. One(s, out', sdo')
    BY <1>8, <1>10, <2>2, <2>3, <2>4 DEF One
  <2>6. QED
    BY <2>1, <2>5
<1>12. QED
  BY <1>3, <1>4, <1>5, <1>9, <1>11 DEF AloneInv

\* A session ends.
LEMMA AloneEnds ==
  ASSUME BaseInv, AloneInv, alone, NEW i \in Filled, NEW o, RemoveSlot(i, o),
         Agree(o, sdo'), UNCHANGED dangling
  PROVE  AloneInv'
<1>1. Filled = {i} /\ ~dangling /\ \A h \in DOMAIN heap : heap[h].repeat <= RepeatMax
  BY AloneParts
<1>2. /\ DOMAIN heap' = DOMAIN heap /\ m_slaves[i] \in DOMAIN heap
      /\ \A k \in DOMAIN heap : k # m_slaves[i] => heap'[k] = heap[k]
      /\ heap'[m_slaves[i]].repeat = 0 /\ Filled' = Filled \ {i} /\ out' = Free(o)
  BY SlotRemoved, BaseParts
<1>3. 0 <= RepeatMax
  BY MasterAssumption
<1>4. \A h \in DOMAIN heap' : heap'[h].repeat <= RepeatMax
  BY <1>1, <1>2, <1>3
<1>5. Filled' = {}
  BY <1>1, <1>2
<1>6. out'.state = "IDLE" /\ out'.step = -1
  BY <1>2, FreeAgrees
<1>7. None(out, sdo)'
  BY <1>6 DEF None
<1>8. QED
  BY <1>1, <1>4, <1>5, <1>7 DEF AloneInv

\* sm_boot_master_remove_slave.
LEMMA AloneRemove ==
  ASSUME BaseInv, AloneInv, RemoveSlave
  PROVE  AloneInv'
<1>1. PICK i \in Filled : RemoveSlot(i, out)
  BY DEF RemoveSlave
<1>2. UNCHANGED <<sdo, alone, dangling>>
  BY DEF RemoveSlave, busVars
<1>3. CASE alone
  BY <1>1, <1>2, <1>3, BaseParts, AloneEnds
<1>4. CASE ~alone
  BY <1>2, <1>4 DEF AloneInv
<1>5. QED
  BY <1>3, <1>4

\* sm_boot_slave_process of one slot.
LEMMA AloneProcess ==
  ASSUME BaseInv, AloneInv, NEW i \in Slots, ProcessSlave(i)
  PROVE  AloneInv'
<1> DEFINE h == m_slaves[i]  s == heap[h]
<1>1. i \in Filled /\ h \in DOMAIN heap /\ s \in Sessions /\ UNCHANGED <<alone, dangling>>
  BY ProcessSlaveIs
<1>2. SUFFICES ASSUME alone PROVE AloneInv'
  BY <1>1 DEF AloneInv
<1>3. PICK r \in Process(out) :
        /\ sdo' = r.sdo
        /\ \/ /\ UNCHANGED tableVars
              /\ \E t : /\ heap' = [heap EXCEPT ![m_slaves[i]] = t]
                        /\ Moved(heap[m_slaves[i]], r.o, t, out')
           \/ RemoveSlot(i, r.o)
  BY ProcessSlaveIs
<1>4. /\ Filled = {i} /\ h = out.owner /\ out.node \in {NoNode, s.id} /\ One(s, out, sdo)
      /\ ~dangling /\ \A k \in DOMAIN heap : heap[k].repeat <= RepeatMax
  BY <1>1, <1>2, AloneParts
<1>5. Agree(r.o, r.sdo) /\ r.o.node = out.node /\ r.o.owner = out.owner
  BY ProcessAgrees
<1>6. One(s, r.o, r.sdo)
  BY <1>1, <1>4, OneProcess
<1>7. CASE RemoveSlot(i, r.o)
  BY <1>1, <1>2, <1>3, <1>5, <1>7, AloneEnds
<1>8. CASE UNCHANGED tableVars /\ \E t : /\ heap' = [heap EXCEPT ![m_slaves[i]] = t]
                                         /\ Moved(heap[m_slaves[i]], r.o, t, out')
  <2>1. PICK t : heap' = [heap EXCEPT ![h] = t] /\ Moved(s, r.o, t, out')
    BY <1>8
  <2>2. t \in Sessions /\ t.id = s.id /\ t.live = s.live /\ out'.owner = out.owner
    BY <1>5, <2>1 DEF Moved
  <2>3. /\ DOMAIN heap' = DOMAIN heap /\ m_slaves' = m_slaves /\ Filled' = Filled
        /\ \A k \in DOMAIN heap : heap'[k] = IF k = h THEN t ELSE heap[k]
    BY <1>1, <1>8, <2>1, <2>2, SessionChanges
  <2>4. r.o \in Outputs /\ r.o.step >= -1 /\ r.o.node \in {NoNode, s.id}
    BY <1>4, <1>5 DEF Agree
  <2>5. One(t, out', sdo') /\ t.repeat <= RepeatMax
    BY <1>1, <1>3, <1>6, <2>1, <2>4, OneMoved
  <2>6. One(heap'[out'.owner], out', sdo')
    BY <1>1, <1>4, <2>2, <2>3, <2>5
  <2>7. \A k \in DOMAIN heap' : heap'[k].repeat <= RepeatMax
    BY <1>4, <2>3, <2>5
  <2>8. \A j \in Filled' : m_slaves'[j] = out'.owner
    BY <1>4, <2>2, <2>3
  <2>9. Filled' # {}
    BY <1>1, <2>3
  <2>10. QED
    BY <1>1, <1>4, <2>6, <2>7, <2>8, <2>9 DEF AloneInv
<1>9. QED
  BY <1>3, <1>7, <1>8

\* Time passes for a session.
LEMMA AloneTimer ==
  ASSUME BaseInv, AloneInv, NEW h \in DOMAIN heap, SlaveTimer(h)
  PROVE  AloneInv'
<1>1. UNCHANGED <<m_slaves, out, sdo, alone, dangling>>
  BY DEF SlaveTimer, tableVars, busVars
<1>2. SUFFICES ASSUME alone PROVE AloneInv'
  BY <1>1 DEF AloneInv
<1>3. PICK t \in Sessions :
        /\ \A k \in DOMAIN heap : heap'[k] = IF k = h THEN t ELSE heap[k]
        /\ DOMAIN heap' = DOMAIN heap /\ Filled' = Filled
        /\ t.id = heap[h].id /\ t.state = heap[h].state /\ t.repeat = heap[h].repeat
  BY BaseTimer
<1>4. /\ ~dangling /\ \A k \in DOMAIN heap : heap[k].repeat <= RepeatMax
      /\ \A i \in Filled : m_slaves[i] = out.owner
      /\ Filled = {} => None(out, sdo)
  BY <1>2 DEF AloneInv
<1>5. \A k \in DOMAIN heap' : heap'[k].repeat <= RepeatMax
  BY <1>3, <1>4
<1>6. Filled # {} => One(heap'[out.owner], out, sdo)
  <2>1. SUFFICES ASSUME Filled # {} PROVE One(heap'[out.owner], out, sdo)
    OBVIOUS
  <2>2. out.owner \in DOMAIN heap /\ One(heap[out.owner], out, sdo)
    BY <1>2, <2>1, AloneParts
  <2>3. CASE out.owner = h
    BY <1>3, <2>2, <2>3 DEF One
  <2>4. CASE out.owner # h
    BY <1>3, <2>2, <2>4
  <2>5. QED
    BY <2>3, <2>4
<1>7. QED
  BY <1>1, <1>3, <1>4, <1>5, <1>6 DEF AloneInv

\* What the session is told, when there is one.
LEMMA AloneTells ==
  ASSUME BaseInv, AloneInv, alone, Filled # {}, UNCHANGED tableVars,
         NEW what \in News \cup {"nothing"}, Tells(what)
  PROVE  /\ DOMAIN heap' = DOMAIN heap /\ m_slaves' = m_slaves /\ Filled' = Filled
         /\ dangling' = dangling
         /\ TellsOne(heap[out.owner], what, heap'[out.owner])
         /\ \A k \in DOMAIN heap : k # out.owner => heap'[k] = heap[k]
<1>1. out.owner \in DOMAIN heap /\ heap[out.owner].live
  BY AloneParts
<1>2. /\ heap' \in Seq(Sessions) /\ Len(heap') = Len(heap)
      /\ m_slaves' = m_slaves /\ Filled' = Filled
      /\ \/ what = "nothing" /\ heap' = heap /\ dangling' = dangling
         \/ /\ what \in News
            /\ \A k \in DOMAIN heap :
                 heap'[k] = IF k = out.owner THEN Told(heap[out.owner], what) ELSE heap[k]
            /\ dangling' = dangling
  <2>1. what \in News => what # "nothing"
    BY DEF News
  <2>2. \/ what = "nothing" /\ heap' = heap /\ dangling' = dangling
        \/ /\ what \in News
           /\ \A k \in DOMAIN heap :
                heap'[k] = IF k = out.owner THEN Told(heap[out.owner], what) ELSE heap[k]
           /\ dangling' = dangling
    <3>1. CASE what = "nothing"
      BY <3>1 DEF Tells
    <3>2. CASE what # "nothing"
      <4>1. heap' = [heap EXCEPT ![out.owner] = Told(heap[out.owner], what)]
            /\ dangling' = dangling
        BY <1>1, <3>2 DEF Tells
      <4>2. QED
        BY <3>2, <4>1
    <3>3. QED
      BY <3>1, <3>2
  <2>3. QED
    BY <2>2, TellsIs
<1>3. DOMAIN heap' = DOMAIN heap
  BY <1>2, BaseParts, LenProperties
<1>4. TellsOne(heap[out.owner], what, heap'[out.owner])
  BY <1>1, <1>2 DEF TellsOne, News
<1>5. QED
  BY <1>1, <1>2, <1>3, <1>4

\* sm_boot_canopen_callback.
LEMMA AloneSdoEnds ==
  ASSUME BaseInv, AloneInv, SdoEnds
  PROVE  AloneInv'
<1>1. PICK ok \in BOOLEAN : out' = Ended(out, ok) /\ Tells(EndedTells(out, ok))
  <2>1. PICK ok : ok = (sdo.phase = "ok")
    OBVIOUS
  <2>2. ok \in BOOLEAN
    BY <2>1
  <2>3. out' = Ended(out, ok) /\ Tells(EndedTells(out, ok))
    BY <2>1 DEF SdoEnds
  <2>4. QED
    BY <2>2, <2>3
<1>2. /\ sdo' = NoSdo /\ sdo.phase # "none" /\ UNCHANGED <<tableVars, alone>>
      /\ sdo'.phase = "none"
  BY DEF SdoEnds, NoSdo
<1>3. SUFFICES ASSUME alone PROVE AloneInv'
  BY <1>2 DEF AloneInv
<1>4. /\ out \in Outputs /\ out.step >= -1 /\ out.step \in Int
      /\ out.state # "IDLE" => out.node # NoNode
  BY BaseParts DEF Agree, Outputs
<1>5. EndedTells(out, ok) \in News \cup {"nothing"}
  BY WhatIsTold
<1>6. out'.owner = out.owner
  BY <1>1, <1>4, EndedIs
<1>7. CASE Filled = {}
  <2>1. None(out, sdo) /\ ~dangling /\ \A h \in DOMAIN heap : heap[h].repeat <= RepeatMax
    BY <1>3, <1>7 DEF AloneInv
  <2>2. out.state = "IDLE" /\ out.step <= -1
    BY <1>2, <2>1 DEF None
  <2>3. EndedTells(out, ok) = "nothing"
    BY <1>4, <2>2, EndedTellsIs
  <2>4. heap' = heap /\ dangling' = dangling /\ m_slaves' = m_slaves
    BY <1>1, <1>2, <2>3 DEF Tells, tableVars
  <2>5. out'.state = "IDLE" /\ out'.step <= 0
    <3>1. out'.state = out.state /\ out'.step \in {out.step, -1, out.step + 1}
      BY <1>1, <1>4, EndedIs
    <3>2. QED
      BY <1>4, <2>2, <3>1
  <2>6. None(out, sdo)'
    BY <1>2, <2>5 DEF None
  <2>7. Filled' = {}
    BY <1>7, <2>4 DEF Filled
  <2>8. QED
    BY <2>1, <2>4, <2>6, <2>7 DEF AloneInv
<1>8. CASE Filled # {}
  <2>1. /\ out.owner \in DOMAIN heap /\ heap[out.owner] \in Sessions
        /\ out.node \in {NoNode, heap[out.owner].id} /\ One(heap[out.owner], out, sdo)
        /\ ~dangling /\ \A h \in DOMAIN heap : heap[h].repeat <= RepeatMax
        /\ \A i \in Filled : m_slaves[i] = out.owner
    BY <1>3, <1>8, AloneParts DEF AloneInv
  <2>2. /\ DOMAIN heap' = DOMAIN heap /\ m_slaves' = m_slaves /\ Filled' = Filled
        /\ dangling' = dangling
        /\ TellsOne(heap[out.owner], EndedTells(out, ok), heap'[out.owner])
        /\ \A k \in DOMAIN heap : k # out.owner => heap'[k] = heap[k]
    BY <1>1, <1>2, <1>3, <1>5, <1>8, AloneTells
  <2>3. One(heap'[out.owner], out', sdo') /\ heap'[out.owner].repeat <= RepeatMax
    BY <1>1, <1>2, <1>4, <2>1, <2>2, OneEnded
  <2>4. \A h \in DOMAIN heap' : heap'[h].repeat <= RepeatMax
    BY <2>1, <2>2, <2>3
  <2>5. QED
    BY <1>6, <1>8, <2>1, <2>2, <2>3, <2>4 DEF AloneInv
<1>9. QED
  BY <1>7, <1>8

\* sm_boot_canopen_response_state_handle.
LEMMA AloneHears ==
  ASSUME BaseInv, AloneInv, NEW n \in Nodes, HearsReport(n)
  PROVE  AloneInv'
<1>1. PICK st : out' = Reported(out, st) /\ Tells(ReportTells(out, st))
  BY DEF HearsReport
<1>2. UNCHANGED <<tableVars, sdo, alone>>
  BY DEF HearsReport
<1>3. SUFFICES ASSUME alone PROVE AloneInv'
  BY <1>2 DEF AloneInv
<1>4. /\ out \in Outputs /\ out.step >= -1
      /\ out.state # "IDLE" => out.node # NoNode
  BY BaseParts DEF Agree
<1>5. ReportTells(out, st) \in News \cup {"nothing"}
  BY WhatIsTold
<1>6. out'.owner = out.owner
  BY <1>1, <1>4, ReportedIs
<1>7. CASE Filled = {}
  <2>1. None(out, sdo) /\ ~dangling /\ \A h \in DOMAIN heap : heap[h].repeat <= RepeatMax
    BY <1>3, <1>7 DEF AloneInv
  <2>2. ReportTells(out, st) = "nothing" /\ out' = out
    BY <1>1, <1>4, <2>1, ReportedIs DEF None
  <2>3. heap' = heap /\ dangling' = dangling /\ m_slaves' = m_slaves
    BY <1>1, <1>2, <2>2 DEF Tells, tableVars
  <2>4. Filled' = {}
    BY <1>7, <2>3 DEF Filled
  <2>5. None(out, sdo)'
    BY <1>2, <2>1, <2>2
  <2>6. QED
    BY <2>1, <2>3, <2>4, <2>5 DEF AloneInv
<1>8. CASE Filled # {}
  <2>1. /\ out.owner \in DOMAIN heap /\ heap[out.owner] \in Sessions
        /\ out.node \in {NoNode, heap[out.owner].id} /\ One(heap[out.owner], out, sdo)
        /\ ~dangling /\ \A h \in DOMAIN heap : heap[h].repeat <= RepeatMax
        /\ \A i \in Filled : m_slaves[i] = out.owner
    BY <1>3, <1>8, AloneParts DEF AloneInv
  <2>2. /\ DOMAIN heap' = DOMAIN heap /\ m_slaves' = m_slaves /\ Filled' = Filled
        /\ dangling' = dangling
        /\ TellsOne(heap[out.owner], ReportTells(out, st), heap'[out.owner])
        /\ \A k \in DOMAIN heap : k # out.owner => heap'[k] = heap[k]
    BY <1>1, <1>2, <1>3, <1>5, <1>8, AloneTells
  <2>3. One(heap'[out.owner], out', sdo') /\ heap'[out.owner].repeat <= RepeatMax
    BY <1>1, <1>2, <1>4, <2>1, <2>2, OneHeard
  <2>4. \A h \in DOMAIN heap' : heap'[h].repeat <= RepeatMax
    BY <2>1, <2>2, <2>3
  <2>5. QED
    BY <1>6, <1>8, <2>1, <2>2, <2>3, <2>4 DEF AloneInv
<1>9. QED
  BY <1>7, <1>8

\* The steps of the nodes and the bus keep it: a download in progress stays one.
LEMMA AloneBus ==
  ASSUME BaseInv, AloneInv, UNCHANGED <<tableVars, heap, out, alone, dangling>>,
         sdo'.phase # "none" <=> sdo.phase # "none"
  PROVE  AloneInv'
<1>1. Filled' = Filled /\ m_slaves' = m_slaves
  BY DEF Filled, tableVars
<1>2. \A s : One(s, out, sdo) => One(s, out', sdo')
  BY DEF One
<1>3. None(out, sdo) => None(out, sdo)'
  BY DEF None
<1>4. QED
  BY <1>1, <1>2, <1>3 DEF AloneInv

\* Every step keeps it.
LEMMA AloneStepHolds ==
  ASSUME BaseInv, AloneInv, [Next]_vars
  PROVE  AloneInv'
<1>1. CASE UNCHANGED vars
  BY <1>1, AloneBus DEF vars, busVars, history
<1>2. CASE NodeServes
  <2>1. sdo.phase = "sent" /\ sdo'.phase # "none"
    BY <1>2, ServeIs DEF Answered
  <2>2. QED
    BY <1>2, <2>1, AloneBus DEF NodeServes, history
<1>3. CASE SdoLost
  BY <1>3, BaseLost, AloneBus DEF SdoLost
<1>4. CASE \E n \in Nodes : NodeRestarts(n)
  BY <1>4, AloneBus DEF NodeRestarts
<1>5. QED
  BY <1>1, <1>2, <1>3, <1>4, AloneAdd, AloneRemove, AloneProcess, AloneTimer, AloneSdoEnds,
     AloneHears DEF Next

\* The master begins with a quiet output.
LEMMA AloneInit ==
  ASSUME MasterInit
  PROVE  AloneInv
<1>1. Filled = {} /\ DOMAIN heap = {} /\ out = OutputInit /\ sdo = NoSdo /\ dangling = FALSE
  BY BaseInit DEF MasterInit
<1>2. None(out, sdo)
  BY <1>1 DEF None, OutputInit, NoSdo
<1>3. QED
  BY <1>1, <1>2 DEF AloneInv

-----------------------------------------------------------------------------
(* The table, the output and the download in progress agree.                 *)

\* The types follow.
LEMMA TypesHold ==
  ASSUME BaseInv, AloneInv
  PROVE  TypeOK
<1>1. m_slaves \in [Slots -> 0..Len(heap)] /\ m_slave_number \in 0..TableSize
  BY BaseParts, FilledIsFinite DEF TableSound, NumberIsTable
<1>2. \A h \in DOMAIN heap :
        /\ heap[h].id \in Nodes /\ heap[h].state \in Slv!SlvStates
        /\ heap[h].repeat \in Nat /\ heap[h].pos \in 0..NumSeg
        /\ alone => heap[h].repeat <= RepeatMax
  <2>1. \A h \in DOMAIN heap : heap[h] \in Sessions
    BY BaseParts
  <2>2. \A h \in DOMAIN heap :
          /\ heap[h].id \in Nodes /\ heap[h].state \in Slv!SlvStates
          /\ heap[h].repeat \in Nat /\ heap[h].pos \in 0..NumSeg
    BY <2>1 DEF Sessions
  <2>3. QED
    BY <2>2 DEF AloneInv
<1>3. /\ out \in Outputs /\ out.state \in OutStates /\ out.step \in Int /\ out.step >= -1
      /\ out.owner \in Nat /\ out.owner <= Len(heap) /\ Len(heap) \in Nat
  BY BaseParts DEF Agree, Outputs, Served
<1>4. out.owner \in 0..Len(heap)
  BY <1>3
<1>5. ASSUME alone
      PROVE  out.step <= 3
  <2>1. CASE Filled = {}
    BY <1>3, <1>5, <2>1 DEF AloneInv, None
  <2>2. CASE Filled # {}
    <3>1. One(heap[out.owner], out, sdo)
      BY <1>5, <2>2 DEF AloneInv
    <3>2. QED
      BY <1>3, <3>1 DEF One, OutStates
  <2>3. QED
    BY <2>1, <2>2
<1>6. sdo.phase \in {"none", "sent", "ok", "abort"} /\ sdo.d \in Downloads
  BY BaseParts DEF Transfers
<1>7. \A n \in Nodes : Len(reports[n]) <= 1
  BY BaseParts DEF Types
<1>8. QED
  BY <1>1, <1>2, <1>3, <1>4, <1>5, <1>6, <1>7 DEF TypeOK

\* What the runs check of the output follows.
LEMMA SoundOutput ==
  ASSUME BaseInv, AloneInv
  PROVE  OutputIsSound
<1>1. NumberIsTable
  BY BaseParts DEF TableSound
<1>2. OutputServesTable
  BY BaseParts DEF Served, OutputServesTable
<1>3. WaitsOnlyForSdo
  BY BaseParts DEF Agree, WaitsOnlyForSdo
<1>4. NoDanglingCallback
  BY DEF AloneInv, NoDanglingCallback
<1>5. QED
  BY <1>1, <1>2, <1>3, <1>4, TypesHold DEF OutputIsSound

\* Both invariants hold in every state.
LEMMA Invariance == Spec => [](BaseInv /\ AloneInv)
<1>1. MasterInit => BaseInv /\ AloneInv
  BY BaseInit, AloneInit
<1>2. BaseInv /\ AloneInv /\ [Next]_vars => (BaseInv /\ AloneInv)'
  BY BaseStep, AloneStepHolds
<1>3. QED
  BY <1>1, <1>2, PTL DEF Spec

\* The table, the one output all sessions share and the download in progress
\* agree, whatever sessions come and go: the number that decides whether any
\* session is processed (sm_boot_master.c) is that of the table, the output is
\* held only for a node with a session, it waits only for a download in
\* progress, and a session that meets no other one calls back no freed session.
THEOREM OutputHolds == Spec => []OutputIsSound
<1>1. BaseInv /\ AloneInv => OutputIsSound
  BY SoundOutput
<1>2. QED
  BY <1>1, Invariance, PTL

-----------------------------------------------------------------------------
(* What a session counts as written and reports as installed.                *)

Sending == {"SEND_SEG", "SEND_FW_INFO"}

\* What a node has taken as its version is what it has installed.
OkIsInstalled ==
  sdo.phase = "ok" /\ sdo.d.item = "version" => dev[sdo.d.node].installed = sdo.d.fw

\* The session s that has the output o to itself, the transfer d and the loader
\* e of its node, whatever trouble there is: the transfer is the one the output
\* is at, of the session's own segment and firmware.
Current(s, o, d, e) ==
  /\ d.phase # "none" => d.d.node = s.id
  /\ d.phase # "none" /\ o.state \in Sending /\ o.step >= 0 => d.d = Download(o)
  /\ d.phase # "none" /\ o.state = "REQUEST" => d.d.item = "request"
  /\ o.state = "SEND_FW_INFO" => o.fw = s.fw
  /\ o.state = "SEND_SEG" => /\ o.seg = s.seg /\ s.pos > 0
                             /\ s.state \in {"SEND_SEG", "SEND_FW_INFO", "ABORT"}
  /\ s.pos > 0 => s.seg.no = s.pos /\ s.seg.fw = s.fw
  /\ s.state = "SEND_SEG" /\ s.repeat > 0 => s.pos > 0
  /\ s.state \in {"IDLE", "REQUEST"} \/ o.state = "REQUEST" => s.pos = 0 /\ ~s.waiting
  /\ s.waiting => s.repeat > 0
  /\ s.state = "FINISH" => o.state = "SEND_FW_INFO" /\ d.phase = "none" /\ e.installed = s.fw

\* A session between two of its segments.
Between(s) == s.state = "SEND_FW_INFO" \/ (s.state = "SEND_SEG" /\ ~s.waiting)

\* Without trouble nothing is left over from before: what the node still says,
\* with q the report of it on its way, is about what the output is at.
NearlyInStep(s, o, d, e, q) ==
  /\ d.phase = "sent" /\ d.d.item = "seg_crc" => o.state = "SEND_SEG" /\ o.step = 2
  /\ o.state = "SEND_SEG" /\ Between(s) => o.step <= 0
  /\ o.state = "SEND_SEG" /\ s.state = "SEND_FW_INFO" => s.expired
  /\ q = <<"LOADING_SERVER">> =>
       /\ o.state = "SEND_SEG"
       /\ (d.phase = "ok" /\ o.step = 2) \/ (d.phase = "none" /\ o.step = 3)
       /\ e.mode = "load" => e.flash[s.pos] = s.fw
  /\ o.state = "REQUEST" /\ q = <<"READY">> => e.mode = "load"
  /\ d.phase = "sent" /\ d.d.item = "request" /\ o.state # "REQUEST" => e.mode = "load"
  /\ s.state \in {"IDLE", "REQUEST"} /\ o.state = "IDLE" => q = <<>>
  /\ e.mode = "load" => \A k \in 1..Done(s) : e.flash[k] = s.fw

InStep(s, o, d, e, q) ==
  /\ NearlyInStep(s, o, d, e, q)
  /\ o.state = "SEND_SEG" /\ Between(s) /\ o.step = 0 => d.phase = "none"

ReportInv ==
  /\ OkIsInstalled
  /\ alone /\ Filled # {} =>
       LET s == heap[out.owner] IN
       /\ \A n \in Nodes : n # s.id => reports[n] = <<>>
       /\ Current(s, out, sdo, dev[s.id])
       /\ troubles = 0 => InStep(s, out, sdo, dev[s.id], reports[s.id])

\* Processing the output.
LEMMA SentIs ==
  ASSUME BaseInv, NEW s \in Sessions, out.node \in {NoNode, s.id}, NEW r \in Process(out)
  PROVE  /\ r.o.state = out.state /\ r.o.fw = out.fw /\ r.o.seg = out.seg
         /\ r.o.node = out.node
         /\ \/ r.o = out /\ r.sdo = sdo
            \/ /\ out.state \in Sending /\ r.o.step = 0 /\ out.step < 0 /\ sdo.phase = "none"
               /\ r.sdo = sdo
            \/ /\ out.state = "REQUEST" /\ r.o.step = out.step /\ sdo.phase = "none"
               /\ r.sdo.phase = "sent" /\ r.sdo.d.node = s.id /\ r.sdo.d.item = "request"
            \/ /\ out.state \in Sending /\ r.o.step = out.step /\ sdo.phase = "none"
               /\ out.step \in 0..2
               /\ r.sdo.phase = "sent" /\ r.sdo.d = Download(r.o) /\ r.sdo.d.node = s.id
               /\ r.sdo.d.item # "request"
               /\ r.sdo.d.item = "seg_crc" <=> (out.state = "SEND_SEG" /\ out.step = 2)
<1>1. out \in Outputs /\ out.step >= -1 /\ out.step \in Int /\ Busy \in BOOLEAN
  BY BaseParts DEF Agree, Outputs, Busy
<1>2. /\ Busy <=> sdo.phase # "none"
      /\ out.state # "IDLE" => out.node = s.id
  BY BaseParts DEF Agree
<1>3. /\ r.o.state = out.state /\ r.o.fw = out.fw /\ r.o.seg = out.seg
      /\ r.o.node = out.node
  BY ProcessAgrees
<1>4. CASE r = [o |-> out, sdo |-> sdo]
  BY <1>4
<1>5. CASE Restarts(out, Busy) /\ r = [o |-> [out EXCEPT !.step = 0], sdo |-> sdo]
  <2>1. out.state \in Sending /\ out.step < 0 /\ sdo.phase = "none"
    BY <1>1, <1>2, <1>5, RestartIsOne DEF Sending
  <2>2. r.o = [out EXCEPT !.step = 0] /\ r.sdo = sdo
    BY <1>5
  <2>3. r.o.step = 0
    BY <1>1, <2>2 DEF Outputs
  <2>4. QED
    BY <1>3, <2>1, <2>2, <2>3
<1>6. CASE /\ out.state = "REQUEST" /\ MaySend(out, Busy)
           /\ r = [o |-> [out EXCEPT !.wait = TRUE],
                   sdo |-> [phase |-> "sent", d |-> RequestDownload(out)]]
  <2>1. r.o = [out EXCEPT !.wait = TRUE] /\ r.sdo.phase = "sent" /\ r.sdo.d = RequestDownload(out)
    BY <1>6
  <2>2. r.o.step = out.step
    BY <1>1, <2>1 DEF Outputs
  <2>3. sdo.phase = "none"
    BY <1>2, <1>6 DEF MaySend
  <2>4. RequestDownload(out).node = s.id /\ RequestDownload(out).item = "request"
    BY <1>2, <1>6 DEF RequestDownload
  <2>5. QED
    BY <1>3, <1>6, <2>1, <2>2, <2>3, <2>4
<1>7. CASE /\ SendsStep(out, Busy)
           /\ r = [o |-> [out EXCEPT !.wait = TRUE],
                   sdo |-> [phase |-> "sent", d |-> Download(out)]]
  <2>1. r.o = [out EXCEPT !.wait = TRUE] /\ r.sdo.phase = "sent" /\ r.sdo.d = Download(out)
    BY <1>7
  <2>2. r.o.step = out.step
    BY <1>1, <2>1 DEF Outputs
  <2>3. /\ out.state \in Sending /\ out.step \in 0..2 /\ ~Busy
        /\ Items[out.state][out.step + 1] \in StepItems
        /\ Items[out.state][out.step + 1] = "seg_crc" <=>
             out.state = "SEND_SEG" /\ out.step = 2
    BY <1>1, <1>7, StepIsOne DEF Sending
  <2>4. sdo.phase = "none"
    BY <1>2, <2>3
  <2>5. Download(r.o) = Download(out)
    BY <1>3, <2>2 DEF Download
  <2>6. Download(out).node = out.node /\ Download(out).item = Items[out.state][out.step + 1]
    BY DEF Download
  <2>7. out.node = s.id
    BY <1>2, <2>3 DEF Sending
  <2>8. Items[out.state][out.step + 1] # "request"
    BY <2>3 DEF StepItems
  <2>9. QED
    BY <1>3, <2>1, <2>2, <2>3, <2>4, <2>5, <2>6, <2>7, <2>8
<1>8. QED
  BY <1>4, <1>5, <1>6, <1>7, ProcessCases

\* The output's process sends the download its step calls for.
LEMMA CurrentProcess ==
  ASSUME BaseInv, NEW s \in Sessions, out.node \in {NoNode, s.id}, NEW e,
         Current(s, out, sdo, e), s.state # "FINISH", NEW r \in Process(out)
  PROVE  Current(s, r.o, r.sdo, e)
<1>1. out.step \in Int
  BY BaseParts DEF Outputs
<1>2. CASE r.o = out /\ r.sdo = sdo
  BY <1>2
<1>3. CASE /\ out.state \in Sending /\ r.o.step = 0 /\ out.step < 0 /\ sdo.phase = "none"
           /\ r.sdo = sdo
  BY <1>3, SentIs DEF Current, Sending
<1>4. CASE /\ out.state = "REQUEST" /\ r.o.step = out.step /\ sdo.phase = "none"
           /\ r.sdo.phase = "sent" /\ r.sdo.d.node = s.id /\ r.sdo.d.item = "request"
  BY <1>4, SentIs DEF Current, Sending
<1>5. CASE /\ out.state \in Sending /\ r.o.step = out.step /\ sdo.phase = "none"
           /\ r.sdo.phase = "sent" /\ r.sdo.d = Download(r.o) /\ r.sdo.d.node = s.id
  BY <1>5, SentIs DEF Current, Sending
<1>6. QED
  BY <1>2, <1>3, <1>4, <1>5, SentIs

\* The switch gives the output the session's own segment or firmware.
LEMMA CurrentMoved ==
  ASSUME NEW s \in Sessions, NEW o \in Outputs, o.node \in {NoNode, s.id},
         NEW d, NEW e, One(s, o, d), Current(s, o, d, e), NEW t, NEW o2, Moved(s, o, t, o2)
  PROVE  Current(t, o2, d, e)
<1>1. /\ s.id # NoNode /\ s.repeat \in Nat /\ s.pos \in 0..NumSeg /\ NumSeg \in Nat
      /\ s.pos \in Int /\ o.step \in Int
  BY OutputAssumption, MasterAssumption DEF Sessions, Outputs
<1>2. t.id = s.id /\ t.fw = s.fw
  BY DEF Moved
<1>3. CASE Begun(s, o, t, o2)
  <2>1. s.state = "IDLE" /\ t.state = "REQUEST" /\ t.repeat = s.repeat
        /\ t.waiting = s.waiting /\ t.pos = s.pos /\ t.seg = s.seg /\ o2 = o
    BY <1>3 DEF Begun, SameWork
  <2>2. o.state = "IDLE"
    BY <2>1 DEF One
  <2>3. QED
    BY <1>2, <2>1, <2>2 DEF Current, Sending
<1>4. CASE Requested(s, o, t, o2)
  <2>1. /\ s.state = "REQUEST" /\ t.repeat = s.repeat + 1 /\ t.state \in {"REQUEST", "ABORT"}
        /\ t.waiting = s.waiting /\ t.pos = s.pos /\ t.seg = s.seg /\ o2.state = "REQUEST"
    BY <1>4 DEF Requested, SameWork, Limited
  <2>2. d.phase # "none" => o.state = "REQUEST"
    BY <2>1 DEF One
  <2>3. s.pos = 0 /\ ~s.waiting
    BY <2>1 DEF Current
  <2>4. d.phase # "none" => d.d.node = s.id /\ d.d.item = "request"
    BY <2>2 DEF Current
  <2>5. QED
    BY <1>1, <1>2, <2>1, <2>3, <2>4 DEF Current, Sending
<1>5. CASE Informed(s, o, t, o2)
  <2>1. o.node = s.id
    BY <1>5 DEF Informed, One
  <2>2. /\ s.state = "SEND_FW_INFO" /\ t.repeat = s.repeat + 1
        /\ t.state \in {"SEND_FW_INFO", "ABORT"}
        /\ t.waiting = s.waiting /\ t.pos = s.pos /\ t.seg = s.seg
        /\ o2.state = "SEND_FW_INFO" /\ o2.step = -1 /\ o2.fw = s.fw
    BY <1>1, <1>5, <2>1 DEF Informed, SameWork, Limited
  <2>3. /\ d.phase # "none" => d.d.node = s.id
        /\ s.pos > 0 => s.seg.no = s.pos /\ s.seg.fw = s.fw
        /\ s.waiting => s.repeat > 0
    BY DEF Current
  <2>4. s.waiting => t.repeat > 0
    BY <1>1, <2>2
  <2>5. QED
    BY <1>2, <2>2, <2>3, <2>4 DEF Current
<1>6. CASE Handed(s, o, t, o2)
  <2>1. o.node = s.id
    BY <1>6 DEF Handed, One
  <2>2. /\ s.state = "SEND_SEG" /\ t.repeat = s.repeat + 1 /\ t.waiting
        /\ t.state \in {"SEND_SEG", "ABORT"}
        /\ o2.state = "SEND_SEG" /\ o2.step = -1 /\ o2.seg = t.seg
        /\ s.repeat > 0 => t.pos = s.pos /\ t.seg = s.seg
        /\ ~(s.repeat > 0) => t.pos = s.pos + 1 /\ t.seg.no = s.pos + 1 /\ t.seg.fw = s.fw
    BY <1>1, <1>6, <2>1 DEF Handed, Limited
  <2>3. t.pos > 0 /\ t.seg.no = t.pos /\ t.seg.fw = s.fw
    BY <1>1, <2>2 DEF Current
  <2>4. d.phase # "none" => d.d.node = s.id
    BY DEF Current
  <2>5. t.repeat > 0
    BY <1>1, <2>2
  <2>6. QED
    BY <1>2, <2>2, <2>3, <2>4, <2>5 DEF Current
<1>7. CASE GivenUp(s, o, t, o2)
  BY <1>2, <1>7 DEF GivenUp, SameWork, Current, Sending
<1>8. CASE t = s /\ o2 = o
  BY <1>8
<1>9. QED
  BY <1>3, <1>4, <1>5, <1>6, <1>7, <1>8 DEF Moved

\* The segments that count as done.
LEMMA DoneIs ==
  ASSUME NEW s \in Sessions
  PROVE  /\ s.waiting \/ s.repeat > 0 => Done(s) = s.pos - 1
         /\ ~(s.waiting \/ s.repeat > 0) => Done(s) = s.pos
         /\ Done(s) \in Int /\ Done(s) <= s.pos /\ s.pos \in Int /\ s.repeat \in Nat
<1>1. s.pos \in Int /\ s.repeat \in Nat
  BY DEF Sessions
<1>2. CASE s.waiting \/ s.repeat > 0
  <2>1. Done(s) = s.pos - 1
    BY <1>2 DEF Done
  <2>2. QED
    BY <1>1, <1>2, <2>1
<1>3. CASE ~(s.waiting \/ s.repeat > 0)
  <2>1. Done(s) = s.pos
    BY <1>3 DEF Done
  <2>2. QED
    BY <1>1, <1>3, <2>1
<1>4. QED
  BY <1>2, <1>3

\* Processing the output, without trouble.
LEMMA InStepProcess ==
  ASSUME BaseInv, NEW s \in Sessions, out.node \in {NoNode, s.id}, NEW e, NEW q,
         Current(s, out, sdo, e), InStep(s, out, sdo, e, q), NEW r \in Process(out)
  PROVE  NearlyInStep(s, r.o, r.sdo, e, q)
<1>1. out.step \in Int
  BY BaseParts DEF Outputs
<1>2. /\ r.o.state = out.state
      /\ NearlyInStep(s, out, sdo, e, q)
  BY SentIs DEF InStep
<1>3. CASE r.o = out /\ r.sdo = sdo
  BY <1>2, <1>3
<1>4. CASE /\ out.state \in Sending /\ r.o.step = 0 /\ out.step < 0 /\ sdo.phase = "none"
           /\ r.sdo = sdo
  BY <1>1, <1>2, <1>4 DEF NearlyInStep, Sending
<1>5. CASE /\ out.state = "REQUEST" /\ r.o.step = out.step /\ sdo.phase = "none"
           /\ r.sdo.phase = "sent" /\ r.sdo.d.item = "request"
  BY <1>1, <1>2, <1>5 DEF NearlyInStep
<1>6. CASE /\ out.state \in Sending /\ r.o.step = out.step /\ sdo.phase = "none"
           /\ out.step \in 0..2
           /\ r.sdo.phase = "sent"
           /\ r.sdo.d.item # "request"
           /\ r.sdo.d.item = "seg_crc" <=> (out.state = "SEND_SEG" /\ out.step = 2)
  BY <1>1, <1>2, <1>6 DEF NearlyInStep, Sending
<1>7. QED
  BY <1>3, <1>4, <1>5, <1>6, SentIs

\* The switch, without trouble: the output is at the next segment only when
\* nothing of the one before is on its way.
LEMMA InStepMoved ==
  ASSUME NEW s \in Sessions, NEW o \in Outputs, o.node \in {NoNode, s.id},
         NEW d, NEW e, NEW q, One(s, o, d), Current(s, o, d, e), NearlyInStep(s, o, d, e, q),
         NEW t, NEW o2, Moved(s, o, t, o2)
  PROVE  InStep(t, o2, d, e, q)
<1>1. /\ s.id # NoNode /\ s.repeat \in Nat /\ o.step \in Int
      /\ s.pos \in Int /\ t \in Sessions
  BY OutputAssumption DEF Sessions, Outputs, Moved
<1>2. t.id = s.id /\ t.fw = s.fw
  BY DEF Moved
<1>3. /\ s.waiting \/ s.repeat > 0 => Done(s) = s.pos - 1
      /\ ~(s.waiting \/ s.repeat > 0) => Done(s) = s.pos
      /\ t.waiting \/ t.repeat > 0 => Done(t) = t.pos - 1
      /\ ~(t.waiting \/ t.repeat > 0) => Done(t) = t.pos
      /\ Done(s) \in Int /\ Done(t) \in Int
  BY <1>1, DoneIs
<1>4. ASSUME Done(t) <= Done(s)
      PROVE  e.mode = "load" => \A k \in 1..Done(t) : e.flash[k] = t.fw
  BY <1>2, <1>3, <1>4 DEF NearlyInStep
<1>5. CASE Begun(s, o, t, o2)
  <2>1. s.state = "IDLE" /\ t.state = "REQUEST" /\ t.repeat = s.repeat
        /\ t.waiting = s.waiting /\ t.pos = s.pos /\ o2 = o
    BY <1>5 DEF Begun, SameWork
  <2>2. o.state = "IDLE"
    BY <2>1 DEF One
  <2>3. Done(t) <= Done(s)
    BY <1>1, <1>3, <2>1
  <2>4. QED
    BY <1>4, <2>1, <2>2, <2>3 DEF InStep, NearlyInStep
<1>6. CASE Requested(s, o, t, o2)
  <2>1. /\ s.state = "REQUEST" /\ t.repeat = s.repeat + 1 /\ t.state \in {"REQUEST", "ABORT"}
        /\ t.waiting = s.waiting /\ t.pos = s.pos /\ o2.state = "REQUEST"
    BY <1>6 DEF Requested, SameWork, Limited
  <2>2. o.state \in {"IDLE", "REQUEST"} /\ (o.state = "IDLE" => d.phase = "none" /\ q = <<>>)
    BY <2>1 DEF One, NearlyInStep
  <2>3. Done(t) <= Done(s)
    <3>1. t.repeat > 0
      BY <1>1, <2>1
    <3>2. Done(t) = s.pos - 1
      BY <1>3, <2>1, <3>1
    <3>3. QED
      BY <1>1, <1>3, <3>2
  <2>4. <<>> # <<"READY">> /\ <<>> # <<"LOADING_SERVER">>
    OBVIOUS
  <2>5. QED
    BY <1>4, <2>1, <2>2, <2>3, <2>4 DEF InStep, NearlyInStep
<1>7. CASE Informed(s, o, t, o2)
  <2>1. o.node = s.id
    BY <1>7 DEF Informed, One
  <2>2. /\ s.state = "SEND_FW_INFO" /\ t.repeat = s.repeat + 1
        /\ t.state \in {"SEND_FW_INFO", "ABORT"}
        /\ t.waiting = s.waiting /\ t.pos = s.pos
        /\ o2.state = "SEND_FW_INFO"
    BY <1>1, <1>7, <2>1 DEF Informed, SameWork, Limited
  <2>3. o.state = "SEND_SEG" => o.step <= 0
    BY <2>2 DEF NearlyInStep, Between
  <2>4. o.state # "REQUEST"
    BY <2>2 DEF One
  <2>5. Done(t) <= Done(s)
    <3>1. t.repeat > 0
      BY <1>1, <2>2
    <3>2. Done(t) = s.pos - 1
      BY <1>3, <2>2, <3>1
    <3>3. QED
      BY <1>1, <1>3, <3>2
  <2>6. q # <<"LOADING_SERVER">> /\ ~(d.phase = "sent" /\ d.d.item = "seg_crc")
    BY <1>1, <2>3 DEF NearlyInStep
  <2>7. d.phase = "sent" /\ d.d.item = "request" => e.mode = "load"
    BY <2>4 DEF NearlyInStep
  <2>8. QED
    BY <1>4, <2>2, <2>5, <2>6, <2>7 DEF InStep, NearlyInStep
<1>8. CASE Handed(s, o, t, o2)
  <2>1. o.node = s.id
    BY <1>8 DEF Handed, One
  <2>2. /\ s.state = "SEND_SEG" /\ ~s.waiting /\ t.repeat = s.repeat + 1 /\ t.waiting
        /\ t.state \in {"SEND_SEG", "ABORT"}
        /\ o2.state = "SEND_SEG" /\ o2.step = -1
        /\ s.repeat > 0 => t.pos = s.pos
        /\ ~(s.repeat > 0) => t.pos = s.pos + 1
    BY <1>1, <1>8, <2>1 DEF Handed, Limited
  <2>3. o.state = "SEND_SEG" => o.step <= 0
    BY <2>2 DEF NearlyInStep, Between
  <2>4. o.state # "REQUEST"
    BY <2>2 DEF One
  <2>5. Done(t) <= Done(s)
    <3>1. Done(t) = t.pos - 1
      BY <1>3, <2>2
    <3>2. CASE s.repeat > 0
      BY <1>1, <1>3, <2>2, <3>1, <3>2
    <3>3. CASE ~(s.repeat > 0)
      <4>1. Done(s) = s.pos
        BY <1>3, <2>2, <3>3
      <4>2. QED
        BY <1>1, <2>2, <3>1, <3>3, <4>1
    <3>4. QED
      BY <3>2, <3>3
  <2>6. q # <<"LOADING_SERVER">> /\ ~(d.phase = "sent" /\ d.d.item = "seg_crc")
    BY <1>1, <2>3 DEF NearlyInStep
  <2>7. d.phase = "sent" /\ d.d.item = "request" => e.mode = "load"
    BY <2>4 DEF NearlyInStep
  <2>8. ~Between(t)
    BY <2>2 DEF Between
  <2>9. QED
    BY <1>4, <2>2, <2>5, <2>6, <2>7, <2>8 DEF InStep, NearlyInStep
<1>9. CASE GivenUp(s, o, t, o2)
  <2>1. /\ s.state = "SEND_SEG" /\ t.state = "ABORT" /\ t.repeat = s.repeat
        /\ t.waiting = s.waiting /\ t.pos = s.pos /\ o2 = o
    BY <1>9 DEF GivenUp, SameWork
  <2>2. Done(t) <= Done(s)
    BY <1>1, <1>3, <2>1
  <2>3. ~Between(t)
    BY <2>1 DEF Between
  <2>4. QED
    BY <1>2, <1>4, <2>1, <2>2, <2>3 DEF InStep, NearlyInStep
<1>10. CASE Waits(s) /\ t = s /\ o2 = o
  <2>1. o.state = "SEND_SEG" => ~Between(s)
    BY <1>10 DEF Waits, Between, NearlyInStep
  <2>2. QED
    BY <1>10, <2>1 DEF InStep
<1>11. QED
  BY <1>5, <1>6, <1>7, <1>8, <1>9, <1>10 DEF Moved


\* The one session, what its output, its node and the bus are at.
LEMMA ReportParts ==
  ASSUME BaseInv, AloneInv, ReportInv, alone, Filled # {}, NEW s, s = heap[out.owner]
  PROVE  /\ s \in Sessions /\ s.id \in Nodes /\ dev[s.id] \in Loaders
         /\ reports[s.id] \in Seq(BootStates) /\ Len(reports[s.id]) <= 1
         /\ \A n \in Nodes : n # s.id => reports[n] = <<>>
         /\ Current(s, out, sdo, dev[s.id])
         /\ troubles = 0 => InStep(s, out, sdo, dev[s.id], reports[s.id])
<1>1. s \in Sessions
  BY AloneParts
<1>2. s.id \in Nodes
  BY <1>1 DEF Sessions
<1>3. dev \in [Nodes -> Loaders] /\ reports \in [Nodes -> Seq(BootStates)]
      /\ \A n \in Nodes : Len(reports[n]) <= 1
  BY BaseParts DEF Types
<1>4. QED
  BY <1>1, <1>2, <1>3 DEF ReportInv

\* It holds again when it holds of the session the output then has.
LEMMA ReportAgain ==
  ASSUME OkIsInstalled',
         alone' /\ Filled' # {} =>
           \E t : /\ t = heap'[out'.owner]
                  /\ \A n \in Nodes : n # t.id => reports'[n] = <<>>
                  /\ Current(t, out', sdo', dev'[t.id])
                  /\ troubles' = 0 => InStep(t, out', sdo', dev'[t.id], reports'[t.id])
  PROVE  ReportInv'
BY DEF ReportInv

\* sm_boot_slave_process of one slot.
LEMMA ReportProcess ==
  ASSUME BaseInv, AloneInv, ReportInv, NEW i \in Slots, ProcessSlave(i)
  PROVE  ReportInv'
<1> PICK r \in Process(out) :
         /\ i \in Filled /\ m_slaves[i] \in DOMAIN heap
         /\ UNCHANGED <<reports, dev, calls, alone, dangling>>
         /\ troubles' \in Nat /\ (troubles' = 0 => troubles = 0)
         /\ sdo' = r.sdo
         /\ \/ /\ UNCHANGED tableVars
               /\ \E t : /\ heap' = [heap EXCEPT ![m_slaves[i]] = t]
                         /\ Moved(heap[m_slaves[i]], r.o, t, out')
            \/ RemoveSlot(i, r.o)
  BY ProcessSlaveIs
<1>1. OkIsInstalled'
  <2>1. r.sdo = sdo \/ r.sdo.phase = "sent"
    BY ProcessCases
  <2>2. CASE r.sdo = sdo
    BY <2>2 DEF ReportInv, OkIsInstalled
  <2>3. CASE r.sdo.phase = "sent"
    BY <2>3 DEF OkIsInstalled
  <2>4. QED
    BY <2>1, <2>2, <2>3
<1>2. ASSUME alone', Filled' # {}
      PROVE  \E t : /\ t = heap'[out'.owner]
                    /\ \A n \in Nodes : n # t.id => reports'[n] = <<>>
                    /\ Current(t, out', sdo', dev'[t.id])
                    /\ troubles' = 0 => InStep(t, out', sdo', dev'[t.id], reports'[t.id])
  <2>1. alone /\ Filled # {}
    BY <1>2
  <2>2. /\ out.owner \in DOMAIN heap /\ Filled = {i} /\ m_slaves[i] = out.owner
        /\ out.node \in {NoNode, heap[out.owner].id} /\ One(heap[out.owner], out, sdo)
    BY <2>1, AloneParts
  <2>3. CASE RemoveSlot(i, r.o)
    <3>1. Filled' = Filled \ {i}
      BY <2>3, SlotRemoved
    <3>2. QED
      BY <1>2, <2>2, <3>1
  <2>4. CASE /\ UNCHANGED tableVars
             /\ \E t : /\ heap' = [heap EXCEPT ![m_slaves[i]] = t]
                       /\ Moved(heap[m_slaves[i]], r.o, t, out')
    <3> PICK s : s = heap[out.owner]
      OBVIOUS
    <3> PICK t : heap' = [heap EXCEPT ![out.owner] = t] /\ Moved(s, r.o, t, out')
      BY <2>2, <2>4
    <3>1. /\ s \in Sessions /\ s.id \in Nodes
          /\ \A n \in Nodes : n # s.id => reports[n] = <<>>
          /\ Current(s, out, sdo, dev[s.id])
          /\ troubles = 0 => InStep(s, out, sdo, dev[s.id], reports[s.id])
      BY <2>1, ReportParts
    <3>2. t.id = s.id /\ out'.owner = r.o.owner
      BY DEF Moved
    <3>3. r.o.owner = out.owner /\ r.o.node = out.node /\ r.o \in Outputs
      BY ProcessAgrees DEF Agree
    <3>4. heap \in Seq(Sessions) /\ DOMAIN heap = 1..Len(heap)
      BY BaseParts
    <3>5. heap'[out'.owner] = t
      BY <2>2, <3>2, <3>3, <3>4
    <3>6. s.state # "FINISH"
      BY DEF Moved, Begun, Requested, Informed, Handed, GivenUp, Waits
    <3>7. One(s, r.o, r.sdo) /\ Current(s, r.o, r.sdo, dev[s.id])
      BY <2>2, <3>1, <3>6, OneProcess, CurrentProcess
    <3>8. Current(t, out', sdo', dev[s.id])
      BY <2>2, <3>1, <3>3, <3>7, CurrentMoved
    <3>9. troubles' = 0 => InStep(t, out', sdo', dev[s.id], reports[s.id])
      <4>1. SUFFICES ASSUME troubles = 0
                     PROVE  InStep(t, out', sdo', dev[s.id], reports[s.id])
        OBVIOUS
      <4>2. NearlyInStep(s, r.o, r.sdo, dev[s.id], reports[s.id])
        BY <2>2, <3>1, <4>1, InStepProcess
      <4>3. QED
        BY <2>2, <3>1, <3>3, <3>7, <4>2, InStepMoved
    <3>10. QED
      BY <3>1, <3>2, <3>5, <3>8, <3>9
  <2>5. QED
    BY <2>3, <2>4
<1>3. QED
  BY <1>1, <1>2, ReportAgain

\* A session goes out of the table, and leaves none in it.
LEMMA ReportRemove ==
  ASSUME BaseInv, AloneInv, ReportInv, RemoveSlave
  PROVE  ReportInv'
<1> PICK i \in Filled : RemoveSlot(i, out)
  BY DEF RemoveSlave
<1>1. sdo' = sdo /\ dev' = dev /\ alone' = alone
  BY DEF RemoveSlave, busVars
<1>2. OkIsInstalled'
  BY <1>1 DEF ReportInv, OkIsInstalled
<1>3. ASSUME alone'
      PROVE  Filled' = {}
  <2>1. \E j \in Filled : Filled = {j}
    BY <1>1, <1>3, AloneParts
  <2>2. Filled' = Filled \ {i}
    BY SlotRemoved
  <2>3. QED
    BY <2>1, <2>2
<1>4. QED
  BY <1>2, <1>3, ReportAgain

\* A new session that meets no other one begins with a quiet output.
LEMMA ReportAdd ==
  ASSUME BaseInv, AloneInv, ReportInv, AddSlave
  PROVE  ReportInv'
<1>1. sdo' = sdo /\ dev' = dev /\ reports' = reports /\ troubles' = troubles
  BY DEF AddSlave, busVars
<1>2. OkIsInstalled'
  BY <1>1 DEF ReportInv, OkIsInstalled
<1>3. ASSUME alone', Filled' # {}
      PROVE  \E t : /\ t = heap'[out'.owner]
                    /\ \A n \in Nodes : n # t.id => reports'[n] = <<>>
                    /\ Current(t, out', sdo', dev'[t.id])
                    /\ troubles' = 0 => InStep(t, out', sdo', dev'[t.id], reports'[t.id])
  <2>1. PICK n \in Nodes, fw \in Firmwares : CreateSlave(n, fw)
    BY <1>3 DEF AddSlave, UpdateSlave
  <2>2. alone /\ Filled = {} /\ NothingOut
    BY <1>3, <2>1 DEF CreateSlave
  <2>3. /\ out'.owner = Len(heap) + 1 /\ heap'[Len(heap) + 1] = NewSlave(n, fw)
        /\ out'.state = out.state /\ out'.step = out.step
    BY <2>1, CreatedIs
  <2>4. sdo.phase = "none" /\ \A k \in Nodes : reports[k] = <<>>
    BY <2>2, BaseParts DEF NothingOut
  <2>5. out.state = "IDLE"
    BY <2>2 DEF AloneInv, None
  <2>6. PICK t \in Sessions :
          /\ t = NewSlave(n, fw) /\ t.id = n /\ t.fw = fw /\ t.state = "IDLE"
          /\ t.repeat = 0 /\ t.pos = 0 /\ ~t.waiting
    BY NewSlaveType
  <2>7. Current(t, out', sdo', dev'[t.id])
    BY <1>1, <2>3, <2>4, <2>5, <2>6 DEF Current, Sending
  <2>8. InStep(t, out', sdo', dev'[t.id], reports'[t.id])
    <3>1. Done(t) = 0
      BY <2>6 DEF Done
    <3>2. reports'[t.id] = <<>>
      BY <1>1, <2>4, <2>6
    <3>3. <<>> # <<"READY">> /\ <<>> # <<"LOADING_SERVER">>
      OBVIOUS
    <3>4. \A k \in 1..Done(t) : FALSE
      BY <3>1
    <3>5. QED
      BY <1>1, <2>3, <2>4, <2>5, <2>6, <3>2, <3>3, <3>4 DEF InStep, NearlyInStep, Between
  <2>9. QED
    BY <1>1, <2>3, <2>4, <2>6, <2>7, <2>8
<1>4. QED
  BY <1>2, <1>3, ReportAgain

\* The end of a download: of the last one of the info, what it is the end of is
\* the firmware taken.
LEMMA CurrentEnded ==
  ASSUME NEW s \in Sessions, NEW o \in Outputs, o.step >= -1,
         NEW d, NEW e, One(s, o, d), Current(s, o, d, e),
         d.phase = "ok" /\ d.d.item = "version" => e.installed = d.d.fw,
         NEW d2, d2.phase = "none",
         NEW ok \in BOOLEAN, d.phase = IF ok THEN "ok" ELSE "abort",
         NEW t, TellsOne(s, EndedTells(o, ok), t)
  PROVE  Current(t, Ended(o, ok), d2, e)
<1>1. /\ ok \in BOOLEAN /\ o.step \in Int /\ s.repeat \in Nat /\ s.pos \in Int
      /\ d.phase # "none"
  BY DEF Outputs, Sessions
<1> PICK x \in Outputs :
      /\ x = Ended(o, ok) /\ x.state = o.state /\ x.fw = o.fw /\ x.seg = o.seg
  BY <1>1, EndedIs, Zenon
<1>2. s.state # "FINISH"
  BY <1>1 DEF Current
<1>3. CASE EndedTells(o, ok) = "nothing"
  <2>1. t = s
    BY <1>3 DEF TellsOne
  <2>2. QED
    BY <1>2, <2>1 DEF Current
<1>4. CASE EndedTells(o, ok) = "seg_failed" /\ o.state = "SEND_SEG"
  <2>1. /\ t.id = s.id /\ t.fw = s.fw /\ t.pos = s.pos /\ t.seg = s.seg
        /\ t.repeat = s.repeat /\ t.state = s.state /\ ~t.waiting
    BY <1>4, ToldIs DEF TellsOne
  <2>2. QED
    BY <1>2, <1>4, <2>1 DEF Current
<1>5. CASE EndedTells(o, ok) = "fw_failed"
  <2>1. /\ t.id = s.id /\ t.fw = s.fw /\ t.pos = s.pos /\ t.seg = s.seg
        /\ t.repeat = s.repeat /\ t.state = s.state /\ t.waiting = s.waiting
    BY <1>5, ToldIs DEF TellsOne
  <2>2. QED
    BY <1>2, <2>1 DEF Current
<1>6. CASE EndedTells(o, ok) = "fw_done" /\ ok /\ o.step >= 2 /\ o.state = "SEND_FW_INFO"
  <2>1. /\ t.id = s.id /\ t.fw = s.fw /\ t.pos = s.pos /\ t.seg = s.seg
        /\ t.repeat = s.repeat /\ t.state = "FINISH" /\ t.waiting = s.waiting
    <3>1. EndedTells(o, ok) = "fw_done"
      BY <1>6
    <3>2. QED
      BY <3>1, ToldIs DEF TellsOne
  <2>2. o.step = 2 /\ d.phase = "ok"
    <3>1. o.state = "SEND_FW_INFO" /\ o.step >= 2
      BY <1>6
    <3>2. o.step = 2
      BY <1>1, <3>1 DEF One
    <3>3. d.phase = "ok"
      BY <1>6
    <3>4. QED
      BY <3>2, <3>3
  <2>3. d.d = Download(o) /\ o.fw = s.fw
    BY <1>1, <1>6, <2>2 DEF Current, Sending
  <2>4. d.d.item = "version" /\ d.d.fw = s.fw
    BY <1>6, <2>2, <2>3, ItemsAre DEF Download
  <2>5. e.installed = s.fw
    BY <2>2, <2>4
  <2>6. QED
    BY <1>6, <2>1, <2>5 DEF Current
<1>7. Current(t, x, d2, e)
  BY <1>1, <1>3, <1>4, <1>5, <1>6, EndedTellsIs
<1>8. QED
  BY <1>7

\* The end of a download, without trouble.
LEMMA InStepEnded ==
  ASSUME NEW s \in Sessions, NEW o \in Outputs, o.step >= -1,
         NEW d, NEW e, NEW q,
         Current(s, o, d, e), InStep(s, o, d, e, q),
         NEW d2, d2.phase = "none",
         NEW ok \in BOOLEAN, d.phase = IF ok THEN "ok" ELSE "abort",
         NEW t, TellsOne(s, EndedTells(o, ok), t)
  PROVE  InStep(t, Ended(o, ok), d2, e, q)
<1>1. ok \in BOOLEAN /\ o.step \in Int /\ s.repeat \in Nat /\ s.pos \in Int
  BY DEF Outputs, Sessions
<1>2. d.phase # "none" /\ NearlyInStep(s, o, d, e, q)
  BY DEF InStep
<1> PICK x \in Outputs :
      /\ x = Ended(o, ok) /\ x.state = o.state
      /\ \/ /\ o.state = "REQUEST" \/ (~ok /\ o.step < 0)
            /\ x.step = o.step \/ (~ok /\ x.step = -1)
         \/ ~ok /\ o.step >= 0 /\ x.step = -1
         \/ ok /\ o.state = "SEND_FW_INFO" /\ o.step >= 2 /\ x.step = -1
         \/ /\ ok /\ o.state # "REQUEST" /\ ~(o.state = "SEND_FW_INFO" /\ o.step >= 2)
            /\ x.step = o.step + 1
  BY <1>1, EndedIs, Zenon
<1>3. o.state = "SEND_SEG" /\ Between(s) => o.step < 0
  <2>1. SUFFICES ASSUME o.state = "SEND_SEG", Between(s)
                 PROVE  o.step < 0
    OBVIOUS
  <2>2. o.step <= 0 /\ o.step # 0
    BY <1>2, <2>1 DEF InStep, NearlyInStep
  <2>3. QED
    BY <1>1, <2>2
<1>4. /\ t \in Sessions /\ t.fw = s.fw /\ t.pos = s.pos /\ t.repeat = s.repeat
      /\ t.waiting => s.waiting
      /\ t.state = s.state \/ (t.state = "FINISH" /\ o.state = "SEND_FW_INFO")
      /\ \/ t.expired = s.expired /\ t.waiting = s.waiting
         \/ o.state # "SEND_SEG"
         \/ ~ok /\ o.step >= 0
  <2>1. CASE EndedTells(o, ok) = "nothing"
    BY <2>1 DEF TellsOne
  <2>2. CASE EndedTells(o, ok) = "seg_failed" /\ ~ok /\ o.step >= 0
    BY <2>2, ToldIs DEF TellsOne
  <2>3. CASE EndedTells(o, ok) = "fw_failed" /\ o.state = "SEND_FW_INFO"
    BY <2>3, ToldIs DEF TellsOne
  <2>4. CASE EndedTells(o, ok) = "fw_done" /\ o.state = "SEND_FW_INFO"
    BY <2>4, ToldIs DEF TellsOne
  <2>5. QED
    BY <1>1, <2>1, <2>2, <2>3, <2>4, EndedTellsIs
<1>5. Done(t) = Done(s)
  <2>1. s.waiting => s.repeat > 0
    BY DEF Current
  <2>2. QED
    BY <1>1, <1>4, <2>1 DEF Done
<1>6. o.state = "SEND_SEG" /\ Between(t) => x.step <= 0
  <2>1. SUFFICES ASSUME o.state = "SEND_SEG", Between(t)
                 PROVE  x.step <= 0
    OBVIOUS
  <2>2. CASE ~ok /\ o.step >= 0
    BY <1>1, <2>1, <2>2
  <2>3. CASE ~(~ok /\ o.step >= 0)
    <3>1. Between(s)
      BY <1>4, <2>1, <2>3 DEF Between
    <3>2. o.step < 0
      BY <1>3, <2>1, <3>1
    <3>3. QED
      BY <1>1, <2>1, <3>2
  <2>4. QED
    BY <2>2, <2>3
<1>7. o.state = "SEND_SEG" /\ t.state = "SEND_FW_INFO" => t.expired
  <2>1. SUFFICES ASSUME o.state = "SEND_SEG", t.state = "SEND_FW_INFO"
                 PROVE  t.expired
    OBVIOUS
  <2>2. s.state = "SEND_FW_INFO"
    BY <1>4, <2>1
  <2>3. o.step < 0
    BY <1>3, <2>1, <2>2 DEF Between
  <2>4. t.expired = s.expired /\ t.waiting = s.waiting
    BY <1>1, <1>4, <2>1, <2>3
  <2>5. QED
    BY <1>2, <2>1, <2>2, <2>4 DEF NearlyInStep
<1>8. q = <<"LOADING_SERVER">> =>
        /\ o.state = "SEND_SEG" /\ x.step = 3
        /\ e.mode = "load" => e.flash[s.pos] = s.fw
  <2>1. SUFFICES ASSUME q = <<"LOADING_SERVER">>
                 PROVE  /\ o.state = "SEND_SEG" /\ x.step = 3
                        /\ e.mode = "load" => e.flash[s.pos] = s.fw
    OBVIOUS
  <2>2. /\ o.state = "SEND_SEG" /\ d.phase = "ok" /\ o.step = 2
        /\ e.mode = "load" => e.flash[s.pos] = s.fw
    BY <1>2, <2>1 DEF NearlyInStep
  <2>3. x.step = o.step + 1
    <3>1. ok
      BY <2>2
    <3>2. ~(o.step < 0) /\ o.state # "REQUEST" /\ o.state # "SEND_FW_INFO"
      BY <2>2
    <3>3. QED
      BY <3>1, <3>2
  <2>4. x.step = 3
    BY <2>2, <2>3
  <2>5. QED
    BY <2>2, <2>4
<1>9. /\ o.state = "REQUEST" /\ q = <<"READY">> => e.mode = "load"
      /\ t.state \in {"IDLE", "REQUEST"} /\ o.state = "IDLE" => q = <<>>
      /\ e.mode = "load" => \A k \in 1..Done(t) : e.flash[k] = t.fw
  BY <1>2, <1>4, <1>5 DEF NearlyInStep
<1>10. InStep(t, x, d2, e, q)
  BY <1>4, <1>6, <1>7, <1>8, <1>9 DEF InStep, NearlyInStep
<1>11. QED
  BY <1>10

\* sm_boot_canopen_callback.
LEMMA ReportSdoEnds ==
  ASSUME BaseInv, AloneInv, ReportInv, SdoEnds
  PROVE  ReportInv'
<1> PICK ok \in BOOLEAN :
       /\ sdo.phase = IF ok THEN "ok" ELSE "abort"
       /\ out' = Ended(out, ok) /\ Tells(EndedTells(out, ok))
  <2>1. PICK ok : ok = (sdo.phase = "ok")
    OBVIOUS
  <2>2. ok \in BOOLEAN
    BY <2>1
  <2>3. out' = Ended(out, ok) /\ Tells(EndedTells(out, ok)) /\ sdo.phase \in {"ok", "abort"}
    BY <2>1 DEF SdoEnds
  <2>4. sdo.phase = IF ok THEN "ok" ELSE "abort"
    BY <2>1, <2>3
  <2>5. QED
    BY <2>2, <2>3, <2>4
<1>1. /\ sdo' = NoSdo /\ dev' = dev /\ reports' = reports
      /\ troubles' = troubles /\ alone' = alone
      /\ UNCHANGED tableVars
  BY DEF SdoEnds
<1>2. sdo'.phase = "none"
  BY <1>1 DEF NoSdo
<1>3. OkIsInstalled'
  BY <1>2 DEF OkIsInstalled
<1>4. ASSUME alone', Filled' # {}
      PROVE  \E t : /\ t = heap'[out'.owner]
                    /\ \A n \in Nodes : n # t.id => reports'[n] = <<>>
                    /\ Current(t, out', sdo', dev'[t.id])
                    /\ troubles' = 0 => InStep(t, out', sdo', dev'[t.id], reports'[t.id])
  <2>1. EndedTells(out, ok) \in News \cup {"nothing"}
    BY WhatIsTold
  <2>2. alone /\ Filled # {}
    BY <1>1, <1>4, <2>1, TellsIs
  <2> PICK s : s = heap[out.owner]
    OBVIOUS
  <2> PICK t : t = heap'[out.owner]
    OBVIOUS
  <2>3. TellsOne(s, EndedTells(out, ok), t)
    BY <1>1, <2>1, <2>2, AloneTells
  <2>4. /\ s \in Sessions /\ out \in Outputs /\ out.step >= -1 /\ One(s, out, sdo)
        /\ \A n \in Nodes : n # s.id => reports[n] = <<>>
        /\ Current(s, out, sdo, dev[s.id])
        /\ troubles = 0 => InStep(s, out, sdo, dev[s.id], reports[s.id])
    BY <2>2, AloneParts, ReportParts
  <2>5. out'.owner = out.owner
    BY <1>1, <2>4, EndedIs
  <2>6. t.id = s.id
    BY <2>1, <2>3, <2>4, ToldIs DEF TellsOne, News
  <2>7. sdo.phase = "ok" /\ sdo.d.item = "version" => dev[s.id].installed = sdo.d.fw
    BY <2>4 DEF ReportInv, OkIsInstalled, Current
  <2> PICK d2, e, q : d2 = sdo' /\ e = dev[s.id] /\ q = reports[s.id]
    OBVIOUS
  <2>8. Current(t, out', sdo', dev[s.id])
    <3>1. /\ d2.phase = "none" /\ Current(s, out, sdo, e)
          /\ sdo.phase = "ok" /\ sdo.d.item = "version" => e.installed = sdo.d.fw
      BY <1>1, <1>2, <2>4, <2>7
    <3>2. Current(t, Ended(out, ok), d2, e)
      BY <2>3, <2>4, <3>1, CurrentEnded
    <3>3. QED
      BY <1>1, <3>2
  <2>9. troubles' = 0 => InStep(t, out', sdo', dev[s.id], reports[s.id])
    <3>1. SUFFICES ASSUME troubles = 0
                   PROVE  InStep(t, out', d2, e, q)
      BY <1>1
    <3>2. /\ d2.phase = "none" /\ Current(s, out, sdo, e)
          /\ InStep(s, out, sdo, e, q)
      BY <1>1, <1>2, <2>4, <3>1
    <3>3. InStep(t, Ended(out, ok), d2, e, q)
      BY <2>3, <2>4, <3>2, InStepEnded
    <3>4. QED
      BY <1>1, <3>3
  <2>10. QED
    BY <1>1, <2>4, <2>5, <2>6, <2>8, <2>9
<1>5. QED
  BY <1>3, <1>4, ReportAgain

\* A report of the node: what it says of a segment is about the one the output
\* is at.
LEMMA CurrentHeard ==
  ASSUME NEW s \in Sessions, NEW o \in Outputs, NEW d, NEW e, Current(s, o, d, e),
         NEW st, NEW t, TellsOne(s, ReportTells(o, st), t)
  PROVE  Current(t, Reported(o, st), d, e)
<1> PICK x \in Outputs :
      /\ x = Reported(o, st)
      /\ x.fw = o.fw /\ x.seg = o.seg
      /\ \/ /\ ReportTells(o, st) = "seg_done" /\ st = "LOADING_SERVER"
            /\ o.state = "SEND_SEG" /\ o.step >= 2 /\ x.state = o.state /\ x.step = -1
         \/ /\ ReportTells(o, st) = "ready" /\ o.state = "REQUEST"
            /\ x.state = "IDLE" /\ x.step = o.step
         \/ /\ ReportTells(o, st) = "nothing" /\ x = o
  BY ReportedIs, Zenon
<1>1. CASE ReportTells(o, st) = "seg_done" /\ o.state = "SEND_SEG" /\ x.state = o.state
           /\ x.step = -1
  <2>1. /\ t.id = s.id /\ t.fw = s.fw /\ t.pos = s.pos /\ t.seg = s.seg
        /\ t.repeat = 0 /\ ~t.waiting
        /\ t.state = IF s.seg.last THEN "SEND_FW_INFO" ELSE s.state
    BY <1>1, ToldIs DEF TellsOne
  <2>2. t.state \in {"SEND_SEG", "SEND_FW_INFO", "ABORT"}
    BY <1>1, <2>1 DEF Current
  <2>3. QED
    BY <1>1, <2>1, <2>2 DEF Current
<1>2. CASE ReportTells(o, st) = "ready" /\ o.state = "REQUEST" /\ x.state = "IDLE"
  <2>1. /\ t.id = s.id /\ t.fw = s.fw /\ t.pos = s.pos /\ t.seg = s.seg
        /\ t.repeat = 0 /\ t.waiting = s.waiting /\ t.state = "SEND_SEG"
    BY <1>2, ToldIs DEF TellsOne
  <2>2. s.pos = 0 /\ ~s.waiting
    BY <1>2 DEF Current
  <2>3. QED
    BY <1>2, <2>1, <2>2 DEF Current, Sending
<1>3. CASE ReportTells(o, st) = "nothing" /\ x = o
  BY <1>3 DEF TellsOne
<1>4. QED
  BY <1>1, <1>2, <1>3

\* A report of the node, without trouble.
LEMMA InStepHeard ==
  ASSUME NEW s \in Sessions, NEW o \in Outputs, NEW d, NEW e, Current(s, o, d, e),
         NEW st \in BootStates, InStep(s, o, d, e, <<st>>),
         NEW t, TellsOne(s, ReportTells(o, st), t)
  PROVE  InStep(t, Reported(o, st), d, e, <<>>)
<1> PICK x \in Outputs :
      /\ x = Reported(o, st)
      /\ \/ /\ ReportTells(o, st) = "seg_done" /\ st = "LOADING_SERVER"
            /\ o.state = "SEND_SEG" /\ o.step >= 2 /\ x.state = o.state /\ x.step = -1
         \/ /\ ReportTells(o, st) = "ready" /\ o.state = "REQUEST"
            /\ x.state = "IDLE" /\ x.step = o.step
         \/ /\ ReportTells(o, st) = "nothing" /\ x = o
  BY ReportedIs, Zenon
<1>1. NearlyInStep(s, o, d, e, <<st>>) /\ o.step \in Int /\ s.repeat \in Nat /\ s.pos \in Int
  BY DEF InStep, Outputs, Sessions
<1>2. <<>> # <<"READY">> /\ <<>> # <<"LOADING_SERVER">>
  OBVIOUS
<1>3. CASE ReportTells(o, st) = "seg_done" /\ st = "LOADING_SERVER" /\ o.state = "SEND_SEG"
           /\ o.step >= 2 /\ x.state = o.state /\ x.step = -1
  <2>1. /\ t.fw = s.fw /\ t.pos = s.pos /\ t.repeat = 0 /\ ~t.waiting
        /\ t.state = IF s.seg.last THEN "SEND_FW_INFO" ELSE s.state
        /\ s.seg.last => t.expired
    BY <1>3, ToldIs DEF TellsOne
  <2>2. /\ d.phase # "sent"
        /\ e.mode = "load" => e.flash[s.pos] = s.fw
    BY <1>1, <1>3 DEF NearlyInStep
  <2>3. s.state # "SEND_FW_INFO"
    BY <1>1, <1>3 DEF NearlyInStep, Between
  <2>4. s.state \in {"SEND_SEG", "ABORT"}
    BY <1>3, <2>3 DEF Current
  <2>5. e.mode = "load" => \A k \in 1..Done(t) : e.flash[k] = t.fw
    <3>1. SUFFICES ASSUME e.mode = "load", NEW k \in 1..Done(t)
                   PROVE  e.flash[k] = t.fw
      OBVIOUS
    <3>2. Done(t) = s.pos
      BY <2>1 DEF Done
    <3>3. Done(s) \in {s.pos - 1, s.pos} /\ Done(s) \in Int
      BY <1>1 DEF Done
    <3>4. k = s.pos \/ k \in 1..Done(s)
      BY <1>1, <3>1, <3>2, <3>3
    <3>5. CASE k = s.pos
      BY <2>1, <2>2, <3>1, <3>5
    <3>6. CASE k \in 1..Done(s)
      BY <1>1, <2>1, <3>1, <3>6 DEF NearlyInStep
    <3>7. QED
      BY <3>4, <3>5, <3>6
  <2>6. t.state = "SEND_FW_INFO" => t.expired
    BY <2>1, <2>3
  <2>7. QED
    BY <1>2, <1>3, <2>2, <2>5, <2>6 DEF InStep, NearlyInStep
<1>4. CASE ReportTells(o, st) = "ready" /\ o.state = "REQUEST" /\ x.state = "IDLE"
  <2>1. /\ t.pos = s.pos /\ t.repeat = 0 /\ t.waiting = s.waiting
    BY <1>4, ToldIs DEF TellsOne
  <2>2. s.pos = 0 /\ ~s.waiting
    BY <1>4 DEF Current
  <2>3. st = "READY"
    BY <1>1, <1>4 DEF NearlyInStep, BootStates
  <2>4. e.mode = "load" /\ ~(d.phase = "sent" /\ d.d.item = "seg_crc")
    BY <1>1, <1>4, <2>3 DEF NearlyInStep
  <2>5. \A k \in 1..Done(t) : FALSE
    BY <2>1, <2>2 DEF Done
  <2>6. QED
    BY <1>2, <1>4, <2>4, <2>5 DEF InStep, NearlyInStep
<1>5. CASE ReportTells(o, st) = "nothing" /\ x = o
  <2>1. t = s
    BY <1>5 DEF TellsOne
  <2>2. QED
    BY <1>1, <1>2, <1>5, <2>1 DEF InStep, NearlyInStep
<1>6. QED
  BY <1>3, <1>4, <1>5

\* A queue of one report.
LEMMA OneReport ==
  ASSUME NEW q \in Seq(BootStates), Len(q) <= 1, q # <<>>
  PROVE  q = <<Head(q)>> /\ Head(q) \in BootStates /\ Tail(q) = <<>>
<1> PICK n \in Nat : n = Len(q)
  BY LenProperties
<1>1. n # 0
  BY EmptySeq
<1>2. Len(q) = 1
  BY <1>1
<1>3. Head(q) = q[1] /\ q[1] \in BootStates /\ DOMAIN q = 1..1
  BY <1>2, LenProperties, ElementOfSeq
<1>4. q = <<Head(q)>>
  <2>1. <<Head(q)>> \in Seq(BootStates)
    BY <1>3
  <2>2. QED
    BY <1>2, <1>3, <2>1, SeqEqual
<1>5. Tail(q) = <<>>
  BY <1>4
<1>6. QED
  BY <1>3, <1>4, <1>5

\* sm_boot_canopen_response_state_handle.
LEMMA ReportHears ==
  ASSUME BaseInv, AloneInv, ReportInv, NEW n \in Nodes, HearsReport(n)
  PROVE  ReportInv'
<1> PICK st : st = Head(reports[n])
  OBVIOUS
<1>1. /\ reports[n] # <<>>
      /\ out' = Reported(out, st) /\ Tells(ReportTells(out, st))
      /\ reports' = [reports EXCEPT ![n] = Tail(reports[n])]
      /\ sdo' = sdo /\ dev' = dev /\ troubles' = troubles /\ alone' = alone
      /\ UNCHANGED tableVars
  BY DEF HearsReport
<1>2. OkIsInstalled'
  BY <1>1 DEF ReportInv, OkIsInstalled
<1>3. ASSUME alone', Filled' # {}
      PROVE  \E t : /\ t = heap'[out'.owner]
                    /\ \A k \in Nodes : k # t.id => reports'[k] = <<>>
                    /\ Current(t, out', sdo', dev'[t.id])
                    /\ troubles' = 0 => InStep(t, out', sdo', dev'[t.id], reports'[t.id])
  <2>1. ReportTells(out, st) \in News \cup {"nothing"}
    BY WhatIsTold
  <2>2. alone /\ Filled # {}
    BY <1>1, <1>3, <2>1, TellsIs
  <2> PICK s : s = heap[out.owner]
    OBVIOUS
  <2> PICK t : t = heap'[out.owner]
    OBVIOUS
  <2>3. TellsOne(s, ReportTells(out, st), t)
    BY <1>1, <2>1, <2>2, AloneTells
  <2>4. /\ s \in Sessions /\ s.id \in Nodes /\ out \in Outputs
        /\ \A k \in Nodes : k # s.id => reports[k] = <<>>
        /\ Current(s, out, sdo, dev[s.id])
        /\ troubles = 0 => InStep(s, out, sdo, dev[s.id], reports[s.id])
    BY <2>2, AloneParts, ReportParts
  <2>5. out'.owner = out.owner
    BY <1>1, <2>4, ReportedIs
  <2>6. t.id = s.id
    BY <2>1, <2>3, <2>4, ToldIs DEF TellsOne, News
  <2>7. n = s.id
    BY <1>1, <2>4
  <2>8. reports[n] = <<st>> /\ st \in BootStates /\ Tail(reports[n]) = <<>>
    <3>1. reports[n] \in Seq(BootStates) /\ Len(reports[n]) <= 1
      BY BaseParts DEF Types
    <3>2. QED
      BY <1>1, <3>1, OneReport
  <2>9. /\ reports'[s.id] = <<>>
        /\ \A k \in Nodes : k # s.id => reports'[k] = <<>>
    <3>1. reports \in [Nodes -> Seq(BootStates)]
      BY BaseParts DEF Types
    <3>2. QED
      BY <1>1, <2>4, <2>7, <2>8, <3>1
  <2>10. Current(t, out', sdo', dev[s.id])
    BY <1>1, <2>3, <2>4, CurrentHeard
  <2>11. troubles' = 0 => InStep(t, out', sdo', dev[s.id], reports'[s.id])
    BY <1>1, <2>3, <2>4, <2>7, <2>8, <2>9, InStepHeard
  <2>12. QED
    BY <1>1, <2>5, <2>6, <2>9, <2>10, <2>11
<1>4. QED
  BY <1>2, <1>3, ReportAgain

\* What the node with the loader e, whose reports on their way are q, makes of
\* a download d: it ends in the phase p, the node says rep.
Serves(e, d, p, new, rep, q) ==
  \/ /\ rep = ""
     /\ \/ Refused(e, new, rep) \/ SameFlash(e, new)
        \/ d.item = "version" /\ Installs(e, d, new, rep)
  \/ d.item = "request" /\ q = <<>> /\ Started(e, new, rep)
  \/ d.item = "seg_crc" /\ q = <<>> /\ p = "ok" /\ Wrote(e, d, new, rep)

Sends(q, rep) == IF rep = "" THEN q ELSE <<rep>>

\* A node serves a download: what it writes is the segment the output is at,
\* and it installs only what it has whole.
LEMMA InStepServed ==
  ASSUME NEW s \in Sessions, NEW o \in Outputs,
         NEW d, NEW d2, NEW e \in Loaders, NEW new \in Loaders, NEW q, NEW q2, NEW rep,
         d.phase = "sent", d2.phase \in {"ok", "abort"},
         One(s, o, d), Current(s, o, d, e), InStep(s, o, d, e, q),
         Serves(e, d.d, d2.phase, new, rep, q), q2 = Sends(q, rep)
  PROVE  InStep(s, o, d2, new, q2)
<1> PICK pos, num, done : pos = s.pos /\ num = NumSeg /\ done = Done(s)
  OBVIOUS
<1>0. pos \in Int /\ num \in Int /\ pos <= num /\ done \in Int /\ done <= pos
  <2>1. s.pos \in 0..NumSeg
    BY DEF Sessions
  <2>2. Done(s) \in Int /\ Done(s) <= s.pos
    BY DoneIs
  <2>3. QED
    BY <2>1, <2>2, MasterAssumption
<1>1. NearlyInStep(s, o, d, e, q) /\ d2.phase \notin {"none", "sent"}
  BY DEF InStep
<1>2. q # <<"LOADING_SERVER">>
  BY <1>1 DEF NearlyInStep
<1>3. /\ o.state = "SEND_SEG" /\ Between(s) => o.step <= 0 /\ o.step # 0
      /\ o.state = "SEND_SEG" /\ s.state = "SEND_FW_INFO" => s.expired
  BY <1>1 DEF InStep, NearlyInStep
<1>4. ~(s.state \in {"IDLE", "REQUEST"} /\ o.state = "IDLE")
  BY DEF One
<1>5. SUFFICES /\ q2 = <<"LOADING_SERVER">> =>
                    /\ o.state = "SEND_SEG" /\ d2.phase = "ok" /\ o.step = 2
                    /\ new.mode = "load" => new.flash[s.pos] = s.fw
               /\ o.state = "REQUEST" /\ q2 = <<"READY">> => new.mode = "load"
               /\ new.mode = "load" => \A k \in 1..Done(s) : new.flash[k] = s.fw
  BY <1>1, <1>3, <1>4 DEF InStep, NearlyInStep
<1>6. e.mode = "load" => \A k \in 1..Done(s) : e.flash[k] = s.fw
  BY <1>1 DEF NearlyInStep
<1>7. CASE rep = "" /\ (Refused(e, new, rep) \/ SameFlash(e, new))
  <2>1. q2 = q /\ new.mode = e.mode /\ new.flash = e.flash
    BY <1>7 DEF Refused, SameFlash, Sends
  <2>2. o.state = "REQUEST" /\ q = <<"READY">> => e.mode = "load"
    BY <1>1 DEF NearlyInStep
  <2>3. QED
    BY <1>2, <1>6, <2>1, <2>2
<1>8. CASE rep = "" /\ d.d.item = "version" /\ Installs(e, d.d, new, rep)
  <2>1. q2 = q /\ new.mode = "wait"
    BY <1>8 DEF Installs, Sends
  <2>2. o.state # "REQUEST"
    BY <1>8 DEF Current
  <2>3. QED
    BY <1>2, <2>1, <2>2
<1>9. CASE d.d.item = "request" /\ q = <<>> /\ Started(e, new, rep)
  <2>1. q2 = <<"READY">> /\ new.mode = "load"
    BY <1>9 DEF Started, Sends
  <2>2. q2 # <<"LOADING_SERVER">>
    <3>1. <<"READY">> # <<"LOADING_SERVER">>
      OBVIOUS
    <3>2. QED
      BY <2>1, <3>1
  <2>3. ASSUME NEW k \in 1..Done(s)
        PROVE  new.flash[k] = s.fw
    <3>1. CASE e.mode = "load" /\ new = e
      BY <1>6, <2>3, <3>1
    <3>2. CASE e.mode = "wait"
      <4>1. o.state = "REQUEST"
        BY <1>1, <1>9, <3>2 DEF NearlyInStep
      <4>2. s.pos = 0
        BY <4>1 DEF Current
      <4>3. k \in 1..done /\ done <= 0
        BY <1>0, <2>3, <4>2
      <4>4. QED
        BY <1>0, <4>3
    <3>3. QED
      BY <1>9, <3>1, <3>2 DEF Started
  <2>4. QED
    BY <2>1, <2>2, <2>3
<1>10. CASE d.d.item = "seg_crc" /\ q = <<>> /\ d2.phase = "ok" /\ Wrote(e, d.d, new, rep)
  <2>1. q2 = <<"LOADING_SERVER">> /\ q2 # <<"READY">> /\ e.mode = "load"
    BY <1>10 DEF Wrote, Sends
  <2>2. o.state = "SEND_SEG" /\ o.step = 2
    BY <1>1, <1>10 DEF NearlyInStep
  <2>3. d.d = Download(o)
    <3>1. d.phase # "none" /\ o.step >= 0 /\ o.state \in Sending
      BY <2>2 DEF Sending
    <3>2. QED
      BY <3>1 DEF Current
  <2>4. d.d.seg = s.seg /\ s.seg.no = s.pos /\ s.seg.fw = s.fw /\ pos > 0
    <3>1. d.d.seg = o.seg
      BY <2>3 DEF Download
    <3>2. o.seg = s.seg /\ s.pos > 0
      BY <2>2 DEF Current
    <3>3. s.seg.no = s.pos /\ s.seg.fw = s.fw
      BY <3>2 DEF Current
    <3>4. QED
      BY <3>1, <3>2, <3>3
  <2>5. new.flash = [e.flash EXCEPT ![s.pos] = s.fw]
    BY <1>10, <2>4 DEF Wrote
  <2>6. e.flash \in [Segs -> Firmwares \cup {NoFw}] /\ Segs = 1..NumSeg
    BY DEF Loaders, Segs
  <2>7. s.pos \in 1..NumSeg
    <3>1. pos \in 1..num
      BY <1>0, <2>4
    <3>2. QED
      BY <3>1
  <2>8. new.flash[s.pos] = s.fw
    BY <2>5, <2>6, <2>7
  <2>9. ASSUME NEW k \in 1..Done(s)
        PROVE  new.flash[k] = s.fw
    <3>1. k \in 1..done
      BY <2>9
    <3>2. k \in 1..num
      BY <1>0, <3>1
    <3>3. e.flash[k] = s.fw
      BY <1>6, <2>1, <2>9
    <3>4. QED
      BY <2>5, <2>6, <2>7, <3>2, <3>3
  <2>10. QED
    BY <1>10, <2>1, <2>2, <2>8, <2>9
<1>11. QED
  BY <1>7, <1>8, <1>9, <1>10 DEF Serves

\* A node serves a download.
LEMMA ReportServes ==
  ASSUME BaseInv, AloneInv, ReportInv, NodeServes
  PROVE  ReportInv'
<1> PICK n, new, rep, ok :
      /\ n = sdo.d.node /\ n \in Nodes /\ sdo.phase = "sent" /\ dev[n] \in Loaders
      /\ sdo.d.item \in {"request", "seg_crc"} => reports[n] = <<>>
      /\ Answered(n, sdo.d, new, rep, ok)
  BY ServeIs
<1>1. /\ heap' = heap /\ out' = out /\ m_slaves' = m_slaves
      /\ troubles' = troubles /\ alone' = alone
  BY DEF NodeServes, tableVars, history
<1>2. /\ new \in Loaders /\ rep \in BootStates \cup {""}
      /\ sdo'.d = sdo.d /\ sdo'.phase \in {"ok", "abort"} /\ (ok => sdo'.phase = "ok")
      /\ sdo'.phase = "ok" => ok
      /\ dev' = [dev EXCEPT ![n] = new] /\ dev \in [Nodes -> Loaders]
      /\ reports \in [Nodes -> Seq(BootStates)]
  BY BaseParts DEF Answered, Types
<1>3. dev'[n] = new
  BY <1>2
<1>4. OkIsInstalled'
  <2>1. SUFFICES ASSUME sdo'.phase = "ok", sdo'.d.item = "version"
                 PROVE  dev'[sdo'.d.node].installed = sdo'.d.fw
    BY DEF OkIsInstalled
  <2>2. Installs(dev[n], sdo.d, new, rep)
    BY <1>2, <2>1 DEF Answered
  <2>3. QED
    BY <1>2, <1>3, <2>2 DEF Installs
<1>5. ASSUME alone', Filled' # {}
      PROVE  \E t : /\ t = heap'[out'.owner]
                    /\ \A k \in Nodes : k # t.id => reports'[k] = <<>>
                    /\ Current(t, out', sdo', dev'[t.id])
                    /\ troubles' = 0 => InStep(t, out', sdo', dev'[t.id], reports'[t.id])
  <2>1. alone /\ Filled # {}
    BY <1>1, <1>5 DEF Filled
  <2> PICK s : s = heap[out.owner]
    OBVIOUS
  <2>2. /\ s \in Sessions /\ s.id \in Nodes /\ out \in Outputs /\ One(s, out, sdo)
        /\ \A k \in Nodes : k # s.id => reports[k] = <<>>
        /\ Current(s, out, sdo, dev[s.id])
        /\ troubles = 0 => InStep(s, out, sdo, dev[s.id], reports[s.id])
    BY <2>1, AloneParts, ReportParts
  <2>3. n = s.id
    BY <2>2 DEF Current
  <2> PICK q, q2, e : q = reports[n] /\ q2 = reports'[n] /\ e = dev[n]
    OBVIOUS
  <2>4. \A k \in Nodes : k # s.id => reports'[k] = <<>>
    <3>1. \A k \in Nodes : k # n => reports'[k] = reports[k]
      BY <1>2 DEF Answered
    <3>2. QED
      BY <2>2, <2>3, <3>1
  <2>5. Current(s, out, sdo', new)
    <3>1. s.state # "FINISH" /\ sdo.phase # "none"
      BY <2>2 DEF Current
    <3>2. QED
      BY <1>2, <2>2, <3>1 DEF Current
  <2>6. ASSUME troubles = 0
        PROVE  InStep(s, out, sdo', new, q2)
    <3>1. \/ /\ rep = ""
             /\ Refused(e, new, rep) \/ SameFlash(e, new)
                \/ (sdo.d.item = "version" /\ Installs(e, sdo.d, new, rep))
          \/ sdo.d.item = "request" /\ q = <<>> /\ Started(e, new, rep)
          \/ sdo.d.item = "seg_crc" /\ q = <<>> /\ ok /\ Wrote(e, sdo.d, new, rep)
      BY DEF Answered, Refused, Installs
    <3>2. rep # "" => q = <<>>
      <4>1. "READY" # "" /\ "LOADING_SERVER" # ""
        OBVIOUS
      <4>2. QED
        BY <3>1, <4>1 
    <3>3. q2 = IF rep = "" THEN q ELSE <<rep>>
      <4>1. CASE rep = ""
        BY <4>1 DEF Answered
      <4>2. CASE rep # ""
        <5>1. reports' = [reports EXCEPT ![n] = Append(q, rep)]
          BY <4>2 DEF Answered
        <5>2. q2 = Append(<<>>, rep)
          BY <1>2, <3>2, <4>2, <5>1
        <5>3. Append(<<>>, rep) = <<rep>>
          OBVIOUS
        <5>4. QED
          BY <4>2, <5>2, <5>3
      <4>3. QED
        BY <4>1, <4>2
    <3>4. InStep(s, out, sdo, e, q) /\ Current(s, out, sdo, e)
      BY <2>2, <2>3, <2>6
    <3>5. Serves(e, sdo.d, sdo'.phase, new, rep, q) /\ q2 = Sends(q, rep)
      BY <1>2, <3>1, <3>3 DEF Serves, Sends
    <3>6. QED
      BY <1>2, <2>2, <3>3, <3>4, <3>5, InStepServed
  <2>7. QED
    BY <1>1, <1>3, <2>3, <2>4, <2>5, <2>6
<1>6. QED
  BY <1>4, <1>5, ReportAgain

\* Time passes for a session.
LEMMA ReportTimer ==
  ASSUME BaseInv, AloneInv, ReportInv, NEW h \in DOMAIN heap, SlaveTimer(h)
  PROVE  ReportInv'
<1> PICK t \in Sessions :
      /\ \A k \in DOMAIN heap : heap'[k] = IF k = h THEN t ELSE heap[k]
      /\ DOMAIN heap' = DOMAIN heap /\ Filled' = Filled
      /\ t.id = heap[h].id /\ t.fw = heap[h].fw
      /\ t.pos = heap[h].pos /\ t.seg = heap[h].seg /\ t.state = heap[h].state
      /\ t.repeat = heap[h].repeat /\ t.waiting = heap[h].waiting /\ t.expired
  BY BaseTimer
<1>1. /\ out' = out /\ sdo' = sdo /\ dev' = dev /\ reports' = reports /\ alone' = alone
      /\ troubles' = 0 => troubles = 0
  BY BaseTimer DEF SlaveTimer, busVars
<1>2. OkIsInstalled'
  BY <1>1 DEF ReportInv, OkIsInstalled
<1>3. ASSUME alone, Filled # {}
      PROVE  \E u : /\ u = heap'[out.owner]
                    /\ \A k \in Nodes : k # u.id => reports[k] = <<>>
                    /\ Current(u, out, sdo, dev[u.id])
                    /\ troubles' = 0 => InStep(u, out, sdo, dev[u.id], reports[u.id])
  <2> PICK s : s = heap[out.owner]
    OBVIOUS
  <2>1. /\ out.owner \in DOMAIN heap
        /\ \A k \in Nodes : k # s.id => reports[k] = <<>>
        /\ Current(s, out, sdo, dev[s.id])
        /\ troubles = 0 => InStep(s, out, sdo, dev[s.id], reports[s.id])
    BY <1>3, AloneParts, ReportParts
  <2>2. CASE h # out.owner
    <3>1. heap'[out.owner] = s
      BY <2>1, <2>2
    <3>2. QED
      BY <1>1, <2>1, <3>1
  <2>3. CASE h = out.owner
    <3>1. heap'[out.owner] = t /\ t.id = s.id
      BY <2>1, <2>3
    <3>2. Current(t, out, sdo, dev[s.id])
      BY <2>1, <2>3 DEF Current
    <3>3. Done(t) = Done(s) /\ (Between(t) <=> Between(s))
      BY <2>3 DEF Done, Between
    <3>4. troubles' = 0 => InStep(t, out, sdo, dev[s.id], reports[s.id])
      BY <1>1, <2>1, <2>3, <3>3 DEF InStep, NearlyInStep
    <3>5. QED
      BY <2>1, <3>1, <3>2, <3>4
  <2>4. QED
    BY <2>2, <2>3
<1>4. QED
  BY <1>1, <1>2, <1>3, ReportAgain

\* Trouble with the download or the node.
LEMMA ReportTrouble ==
  ASSUME BaseInv, AloneInv, ReportInv,
         UNCHANGED <<tableVars, heap, out, reports, alone>>, troubles' # 0,
         sdo' = sdo \/ (Busy /\ sdo'.phase = "abort" /\ sdo'.d = sdo.d),
         \A k \in Nodes : dev'[k].installed = dev[k].installed
  PROVE  ReportInv'
<1>1. Busy <=> sdo.phase # "none"
  BY BaseParts
<1>2. OkIsInstalled'
  <2>1. SUFFICES ASSUME sdo'.phase = "ok", sdo'.d.item = "version"
                 PROVE  dev'[sdo'.d.node].installed = sdo'.d.fw
    BY DEF OkIsInstalled
  <2>2. sdo' = sdo
    BY <2>1
  <2>3. sdo.d.node \in Nodes
    BY <2>1, <2>2, BaseParts DEF Agree
  <2>4. QED
    BY <2>1, <2>2, <2>3 DEF ReportInv, OkIsInstalled
<1>3. ASSUME alone, Filled # {}
      PROVE  \E t : /\ t = heap[out.owner]
                    /\ \A k \in Nodes : k # t.id => reports[k] = <<>>
                    /\ Current(t, out, sdo', dev'[t.id])
  <2> PICK s : s = heap[out.owner]
    OBVIOUS
  <2>1. /\ s.id \in Nodes /\ \A k \in Nodes : k # s.id => reports[k] = <<>>
        /\ Current(s, out, sdo, dev[s.id])
    BY <1>3, ReportParts
  <2>2. Current(s, out, sdo', dev'[s.id])
    <3>1. dev'[s.id].installed = dev[s.id].installed
      BY <2>1
    <3>2. CASE sdo' = sdo
      BY <2>1, <3>1, <3>2 DEF Current
    <3>3. CASE Busy /\ sdo'.phase = "abort" /\ sdo'.d = sdo.d
      BY <1>1, <2>1, <3>1, <3>3 DEF Current
    <3>4. QED
      BY <3>2, <3>3
  <2>3. QED
    BY <2>1, <2>2
<1>4. Filled' = Filled
  BY DEF Filled, tableVars
<1>5. QED
  BY <1>2, <1>3, <1>4, ReportAgain

\* Every step keeps it.
LEMMA ReportStep ==
  ASSUME BaseInv, AloneInv, ReportInv, [Next]_vars
  PROVE  ReportInv'
<1>1. CASE AddSlave
  BY <1>1, ReportAdd
<1>2. CASE RemoveSlave
  BY <1>2, ReportRemove
<1>3. ASSUME NEW i \in Slots, ProcessSlave(i)
      PROVE  ReportInv'
  BY <1>3, ReportProcess
<1>4. ASSUME NEW h \in DOMAIN heap, SlaveTimer(h)
      PROVE  ReportInv'
  BY <1>4, ReportTimer
<1>5. CASE SdoEnds
  BY <1>5, ReportSdoEnds
<1>6. ASSUME NEW n \in Nodes, HearsReport(n)
      PROVE  ReportInv'
  BY <1>6, ReportHears
<1>7. CASE NodeServes
  BY <1>7, ReportServes
<1>8. CASE SdoLost
  <2>1. /\ UNCHANGED <<tableVars, heap, out, reports, alone>> /\ dev' = dev
        /\ Busy /\ sdo'.phase = "abort" /\ sdo'.d = sdo.d /\ troubles' # 0
    BY <1>8, BaseLost DEF SdoLost
  <2>2. QED
    BY <2>1, ReportTrouble
<1>9. ASSUME NEW n \in Nodes, NodeRestarts(n)
      PROVE  ReportInv'
  <2>1. /\ UNCHANGED <<tableVars, heap, out, reports, alone>> /\ sdo' = sdo
        /\ troubles' # 0 /\ \A k \in Nodes : dev'[k].installed = dev[k].installed
    BY <1>9, BaseRestarts DEF NodeRestarts
  <2>2. QED
    BY <2>1, ReportTrouble
<1>10. CASE UNCHANGED vars
  BY <1>10 DEF vars, tableVars, busVars, history, ReportInv, OkIsInstalled, Filled
<1>11. QED
  BY <1>1, <1>2, <1>3, <1>4, <1>5, <1>6, <1>7, <1>8, <1>9, <1>10 DEF Next

\* The master begins with it.
LEMMA ReportInit ==
  ASSUME MasterInit
  PROVE  ReportInv
<1>1. Filled = {}
  BY BaseInit
<1>2. sdo.phase = "none"
  BY DEF MasterInit, NoSdo
<1>3. QED
  BY <1>1, <1>2 DEF ReportInv, OkIsInstalled

\* What the runs check of the reports follows.
LEMMA TrueReports ==
  ASSUME BaseInv, AloneInv, ReportInv
  PROVE  ReportsAreTrue
<1>1. ASSUME NEW h \in DOMAIN heap, InTable(h), alone
      PROVE  h = out.owner /\ Filled # {}
  <2>1. PICK i \in Slots : m_slaves[i] = h
    BY <1>1 DEF InTable
  <2>2. h # 0
    BY BaseParts
  <2>3. i \in Filled
    BY <2>1, <2>2 DEF Filled
  <2>4. QED
    BY <1>1, <2>1, <2>3 DEF AloneInv
<1>2. CountedSegmentIsWritten
  <2>1. SUFFICES ASSUME alone, NEW h \in DOMAIN heap, InTable(h),
                        dev[heap[h].id].mode = "load", troubles = 0
                 PROVE  \A k \in 1..Done(heap[h]) : dev[heap[h].id].flash[k] = heap[h].fw
    BY DEF CountedSegmentIsWritten
  <2>2. h = out.owner /\ Filled # {}
    BY <1>1, <2>1
  <2> PICK s : s = heap[out.owner]
    OBVIOUS
  <2>3. InStep(s, out, sdo, dev[s.id], reports[s.id])
    BY <2>1, <2>2, ReportParts
  <2>4. QED
    BY <2>1, <2>2, <2>3 DEF InStep, NearlyInStep
<1>3. SuccessIsInstalled
  <2>1. SUFFICES ASSUME NEW h \in DOMAIN heap, alone, Succeeds(h)
                 PROVE  Installed(h)
    BY DEF SuccessIsInstalled
  <2>2. h = out.owner /\ Filled # {}
    BY <1>1, <2>1 DEF Succeeds
  <2> PICK s : s = heap[out.owner]
    OBVIOUS
  <2>3. Current(s, out, sdo, dev[s.id]) /\ s.state = "FINISH"
    BY <2>1, <2>2, ReportParts DEF Succeeds
  <2>4. QED
    BY <2>2, <2>3 DEF Current, Installed
<1>4. QED
  BY <1>2, <1>3 DEF ReportsAreTrue

\* A session no other one met counts a segment as done only when its node has
\* written it, as long as no answer is lost (sm_boot_slave.c,
\* sm_canopen_boot_output.c), and, whatever is lost and whenever the node
\* restarts, it reports a success only when the node has installed the firmware
\* of the session's input.
THEOREM ReportsHold == Spec => []ReportsAreTrue
<1>1. MasterInit => ReportInv
  BY ReportInit
<1>2. BaseInv /\ AloneInv /\ ReportInv /\ [Next]_vars => ReportInv'
  BY ReportStep
<1>3. BaseInv /\ AloneInv /\ ReportInv => ReportsAreTrue
  BY TrueReports
<1>4. QED
  BY <1>1, <1>2, <1>3, Invariance, PTL DEF Spec

===============================================================================
