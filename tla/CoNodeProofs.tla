---------------------------- MODULE CoNodeProofs ----------------------------
(***************************************************************************)
(* The cycle of SYNC in a node that starts from its flash: proved for all    *)
(* parameters, PDOs and dictionaries, any number of calls and of cuts.        *)
(***************************************************************************)
EXTENDS CoNode, CoOdStorageProofs

-----------------------------------------------------------------------------
(* The inductive invariant.                                                  *)

\* What PDOs may have: the masks and mappings of the parameters, and the frames
\* that CO_PDO_mapping makes of these.
PdoMasks == Masks \cup {comm.tpdo[t].mask : comm \in Values["comm"], t \in Tpdos}
PdoMaps == {comm.tpdo[t].map : comm \in Values["comm"], t \in Tpdos}
PdoFrames == {Mapping(list, past, map) : list \in Dictionaries, past \in Pasts, map \in PdoMaps}

Pdo == [valid : BOOLEAN, type : 0..Width - 1, mask : PdoMasks, map : PdoMaps,
        data : PdoFrames, request : BOOLEAN]

Sync == [valid : BOOLEAN, gen : BOOLEAN, period : Nat, window : Nat,
         maxCounter : 1..Width - 2, maxAux : 0..RegBits - 1,
         timer : 0..Width - 1, index : 0..Width - 1,
         counter : 0..Width - 1, aux : 0..RegBits - 1, reg : SUBSET (0..RegBits - 1),
         inside : BOOLEAN]

CycleShapes ==
  /\ od \in [list : Dictionaries, past : Pasts]
  /\ cyc \in Sync /\ cyc.reg \subseteq {cyc.aux}
  /\ tpdo \in [Tpdos -> Pdo] /\ count \in [Tpdos -> 0..2]
  /\ at \in {"idle", "aux", "clear", "hung"}
  /\ box \in [new : BOOLEAN, data : (0..Width - 1) \X (0..RegBits - 1)]
  /\ steady \in BOOLEAN /\ raced \in BOOLEAN /\ nth \in Nat

\* A SYNC is being taken by a consumer that is up, and waits in the box.
Taking == at \in {"aux", "clear"} => phase = "up" /\ Consumes /\ box.new

\* A PDO that has had no turn in this cycle has not been sent in it.
TurnsCounted ==
  cyc.valid /\ steady =>
    \A t \in Tpdos : count[t] <= 1 /\ (cyc.index = 0 => count[t] = 0)

\* The numbers of a cycle are the PDO's own.
Due(t) == cyc.counter = tpdo[t].type /\ cyc.aux \in tpdo[t].mask

\* From the PDOs' turn on, and not only from the SDOs', what was due is sent.
DueIsSent ==
  at = "idle" /\ cyc.valid /\ steady /\ cyc.index # 0 /\ cyc.reg # {} =>
    \A t \in Tpdos : tpdo[t].valid /\ tpdo[t].type \in 1..Width - 2 =>
      count[t] = IF Due(t) THEN 1 ELSE 0

\* The producer's counters are the digits of the number of its last SYNC.
Digits ==
  cyc.gen =>
    IF nth = 0 THEN cyc.counter = 0 /\ cyc.aux = 0
    ELSE /\ cyc.counter \in 1..cyc.maxCounter /\ cyc.aux \in 0..cyc.maxAux
         /\ nth = cyc.aux * cyc.maxCounter + cyc.counter

\* How much of the SYNC in the box a consumer has taken, unless it was replaced.
TakenSoFar ==
  ~cyc.gen /\ ~raced =>
    /\ at = "idle" /\ ~box.new => Frame(cyc) = box.data
    /\ at = "aux" => cyc.counter = box.data[1]
    /\ at = "clear" => Frame(cyc) = box.data

CycleInv == CycleShapes /\ Taking /\ TurnsCounted /\ DueIsSent /\ Digits /\ TakenSoFar

\* What StorageTypeOK says beyond WholeInv.
StorageRest ==
  /\ \A s \in Section : /\ op[s] \in Values[s] \cup {Torn, None}
                        /\ promised[s] \in Values[s] \cup {None}
  /\ calls \in 0..MaxCalls /\ troubles \in 0..MaxTrouble

NodeInv == WholeInv /\ StorageRest /\ CycleInv

-----------------------------------------------------------------------------
(* The storage of a node: every step is one of StorageNext, or leaves all of *)
(* it but the two bounds alone.                                              *)

Kept == <<flash, sign, temp, op, phase, main, valid, outdated, failed, writing,
          storing, promised>>

LEMMA StepOfStorage == ASSUME [NodeNext]_vars
                       PROVE  StorageNext \/ UNCHANGED Kept
  <1>1. CASE NodeStorage
    BY <1>1 DEF NodeStorage, Starts, Stores, Falls, StorageNext
  <1>2. CASE CallsProcess
    BY <1>2 DEF CallsProcess, Process, TakeCounter, TakeAux, Taken, storage, Kept
  <1>3. CASE SyncArrives \/ Called
    BY <1>3 DEF SyncArrives, Called, RequestSend, SetType, SetMask, DisableSync, RecoverSync, Sets,
                storage, Kept
  <1>4. CASE UNCHANGED vars
    BY <1>4 DEF vars, storage, Kept
  <1> QED
    BY <1>1, <1>2, <1>3, <1>4 DEF NodeNext

LEMMA WholeNode == ASSUME WholeInv, [NodeNext]_vars PROVE WholeInv'
  <1>1. CASE UNCHANGED Kept
    BY <1>1 DEF Kept, WholeInv, Shapes, Stages, Crcs, Wholes, Believed
  <1> QED
    BY <1>1, StepOfStorage, WholeNext

LEMMA StartNode == ASSUME WholeInv, StartInv, [NodeNext]_vars PROVE StartInv'
  <1>1. CASE UNCHANGED Kept
    BY <1>1 DEF Kept, StartInv, Progress, Heals, Settles, Saves, Takes, Agreed, Vouches, Settled,
                Starting, Ahead, Behind
  <1> QED
    BY <1>1, StepOfStorage, StartNext

LEMMA RestInit == StorageInit => StorageRest
  <1> SUFFICES ASSUME StorageInit PROVE StorageRest
    OBVIOUS
  <1>1. flash \in [comm : Content, app : Content, sign : Signature]
        /\ \A s \in Section : flash[s] \in Values[s] \cup {Torn}
    BY WholeInit DEF WholeInv, Shapes, Crcs
  <1>2. \A s \in Section : promised[s] \in Values[s] \cup {None}
    <2>1. CASE Vouches(flash)
      <3>1. \A s \in Section : flash[s] # Torn
        BY <2>1, StorageAssumption, SignShapes DEF StorageInit, Vouches, Section
      <3> QED
        BY <1>1, <2>1, <3>1 DEF StorageInit
    <2>2. CASE ~Vouches(flash)
      BY <2>2 DEF StorageInit, NoPromise
    <2> QED
      BY <2>1, <2>2
  <1>3. calls \in 0..MaxCalls /\ troubles \in 0..MaxTrouble
    BY StorageAssumption DEF StorageInit
  <1> QED
    BY <1>2, <1>3 DEF StorageInit, StorageRest, NoPromise

LEMMA RestStart == ASSUME WholeInv, StorageRest, Start \/ Write PROVE StorageRest'
  <1>1. calls' = calls /\ troubles' = troubles
    BY DEF Start, PowerOn, LoadSection, SkipSection, RestoreSection, SignStage, Write, SectionWritten,
           SignWritten, StoreSign
  <1>2. op' \in {op, NoPromise, temp}
    BY DEF Start, PowerOn, LoadSection, SkipSection, RestoreSection, SignStage, Copy, Write,
           SectionWritten, SignWritten, StoreSign
  <1>3. \A s \in Section : promised'[s] \in {promised[s], None, temp[s], Default[s]}
    <2>1. CASE SignWritten
      <3>1. promised' = Promises(flash')
        BY <2>1 DEF SignWritten
      <3>2. promised' \in {NoPromise, temp, promised,
              [promised EXCEPT ![storing] = Owed(storing)]}
        BY <3>1 DEF Promises, WholeInv, Shapes
      <3>3. \A s \in Section : Owed(s) \in {temp[s], Default[s], None}
        BY DEF Owed
      <3> QED
        BY <3>2, <3>3 DEF NoPromise, WholeInv, Shapes
    <2>2. CASE ~SignWritten
      BY <2>2 DEF Start, PowerOn, LoadSection, SkipSection, RestoreSection, SignStage, Write,
                  SectionWritten, StoreSign
    <2> QED
      BY <2>1, <2>2
  <1> QED
    BY <1>1, <1>2, <1>3, StorageAssumption DEF StorageRest, WholeInv, Wholes, NoPromise

LEMMA RestOther ==
  ASSUME WholeInv, StorageRest, Application \/ WriteFails \/ PowerCut \/ Reset
  PROVE  StorageRest'
  <1> USE StorageAssumption
  <1>1. CASE Application
    <2>1. PICK x \in Section : SetPara(x) \/ Store(x) \/ \E c \in Command : Order(x, c)
      BY <1>1 DEF Application
    <2>2. calls' \in 0..MaxCalls /\ troubles' = troubles
      BY <2>1 DEF SetPara, Store, Order, StorageRest
    <2>3. \A s \in Section : op'[s] \in Values[s] \cup {op[s]}
      BY <2>1 DEF SetPara, Store, Order, WholeInv, Shapes
    <2>4. \A s \in Section : promised'[s] \in {promised[s], Default[s], None}
      BY <2>1 DEF SetPara, Store, Order, WholeInv, Shapes
    <2> QED
      BY <2>2, <2>3, <2>4 DEF StorageRest
  <1>2. CASE WriteFails
    BY <1>2 DEF WriteFails, StorageRest, NoPromise
  <1>3. CASE PowerCut \/ Reset
    BY <1>3 DEF PowerCut, Reset, Down, StorageRest, NoPromise
  <1> QED
    BY <1>1, <1>2, <1>3

LEMMA RestNode == ASSUME WholeInv, StorageRest, [NodeNext]_vars PROVE StorageRest'
  <1>1. CASE StorageNext
    BY <1>1, RestStart, RestOther DEF StorageNext
  <1>2. CASE CallsProcess
    BY <1>2 DEF CallsProcess, Process, TakeCounter, TakeAux, Taken, storage, StorageRest
  <1>3. CASE SyncArrives
    BY <1>3, StorageAssumption DEF SyncArrives, StorageRest
  <1>4. CASE Called
    <2>1. CASE Sets
      BY <2>1, StorageAssumption DEF Sets, StorageRest
    <2>2. CASE UNCHANGED storage
      BY <2>2 DEF storage, StorageRest
    <2> QED
      BY <1>4, <2>1, <2>2 DEF Called, RequestSend, SetType, SetMask, DisableSync, RecoverSync
  <1>5. CASE UNCHANGED vars
    BY <1>5 DEF vars, storage, StorageRest
  <1> QED
    BY <1>1, <1>2, <1>3, <1>4, <1>5 DEF NodeNext, NodeStorage, Starts, Stores, Falls, StorageNext

-----------------------------------------------------------------------------
(* What CO_SYNC_process does to the record of SYNC.                          *)

\* A number that is not the greatest there is goes up by one.
LEMMA Advancing ==
  ASSUME NEW x \in 0..Width - 1, NEW d \in Nat
  PROVE  /\ Advance(x, d) \in 0..Width - 1
         /\ x = 0 => Advance(x, 1) = 1
         /\ x # 0 => Advance(x, 1) >= 2
  <1> USE NodeAssumption, CycleAssumption
  <1>1. Width \in Nat /\ Width > 2
    OBVIOUS
  <1>2. (x + d) % Width \in 0..Width - 1
    BY <1>1
  <1>3. x + 1 < Width => (x + 1) % Width = x + 1
    BY <1>1
  <1>4. ~(x + 1 < Width) => x = Width - 1 /\ (x + 1) % Width = 0
    BY <1>1
  <1> QED
    BY <1>1, <1>2, <1>3, <1>4 DEF Advance

\* What no step of a cycle touches; the number of the cycle; one turn further.
SameSetting(p, s) == /\ p.valid = s.valid /\ p.gen = s.gen
                     /\ p.maxCounter = s.maxCounter /\ p.maxAux = s.maxAux
SameNumber(p, s) == p.counter = s.counter /\ p.aux = s.aux /\ p.reg = s.reg
OneTurnOn(p, s) == /\ p.index # 0
                   /\ s.index = 0 => p.index = 1
                   /\ s.index # 0 => p.index >= 2

LEMMA InWindow ==
  ASSUME NEW s \in Sync
  PROVE  /\ Windowed(s) \in Sync /\ SameSetting(Windowed(s), s) /\ SameNumber(Windowed(s), s)
         /\ Windowed(s).index = s.index
  <1> DEFINE w == s.timer <= s.window
  <1>1. w \in BOOLEAN /\ Windowed(s) = [s EXCEPT !.inside = w]
    BY DEF Windowed
  <1> HIDE DEF w
  <1> QED
    BY <1>1 DEF SameSetting, SameNumber, Sync

LEMMA Ticking ==
  ASSUME NEW s \in Sync, NEW d \in Nat
  PROVE  /\ Ticked(s, d) \in Sync
         /\ SameSetting(Ticked(s, d), s) /\ SameNumber(Ticked(s, d), s)
         /\ OneTurnOn(Ticked(s, d), s)
  <1>1. /\ Advance(s.timer, d) \in 0..Width - 1 /\ Advance(s.index, 1) \in 0..Width - 1
        /\ s.index = 0 => Advance(s.index, 1) = 1
        /\ s.index # 0 => Advance(s.index, 1) >= 2
    BY Advancing DEF Sync
  <1>2. Ticked(s, d) = [s EXCEPT !.timer = Advance(s.timer, d), !.index = Advance(s.index, 1)]
    BY DEF Ticked, Sync
  <1>3. Ticked(s, d) \in Sync /\ Ticked(s, d).index = Advance(s.index, 1)
    BY <1>1, <1>2 DEF Sync
  <1>4. SameSetting(Ticked(s, d), s) /\ SameNumber(Ticked(s, d), s)
    BY <1>2 DEF SameSetting, SameNumber, Sync
  <1>5. s.index \in Nat /\ Advance(s.index, 1) \in Nat
    BY <1>1, CycleAssumption DEF Sync
  <1> QED
    BY <1>1, <1>3, <1>4, <1>5 DEF OneTurnOn

LEMMA Restarting ==
  ASSUME NEW s \in Sync
  PROVE  /\ Restarted(s) \in Sync /\ SameSetting(Restarted(s), s) /\ SameNumber(Restarted(s), s)
         /\ Restarted(s).index = 0
  <1>1. 0 \in 0..Width - 1
    BY CycleAssumption
  <1> QED
    BY <1>1 DEF Restarted, SameSetting, SameNumber, Sync

\* The number of the next SYNC: the counter counts to its limit, then the
\* auxiliary counter moves.
NextNumber(p, s) ==
  IF s.counter < s.maxCounter
  THEN p.counter = s.counter + 1 /\ p.aux = s.aux /\ p.reg = s.reg
  ELSE /\ p.counter = 1 /\ p.reg = {p.aux}
       /\ p.aux = IF s.aux < s.maxAux THEN s.aux + 1 ELSE 0

LEMMA Numbering ==
  ASSUME NEW s \in Sync, s.counter \in 0..s.maxCounter, s.aux \in 0..s.maxAux
  PROVE  Numbered(s) \in Sync /\ SameSetting(Numbered(s), s) /\ NextNumber(Numbered(s), s)
  <1> DEFINE c == (s.counter + 1) % Width
             a == (s.aux + 1) % Byte
             b == IF a > s.maxAux THEN 0 ELSE a
  <1>1. /\ s.counter \in Nat /\ s.maxCounter \in 1..Width - 2 /\ Width \in Nat
        /\ s.aux \in 0..31 /\ s.maxAux \in 0..31 /\ s.aux <= s.maxAux
    BY CycleAssumption DEF Sync, Byte, RegBits
  <1>2. c = s.counter + 1
    BY <1>1
  <1>3. b = IF s.aux < s.maxAux THEN s.aux + 1 ELSE 0
    <2>1. a = s.aux + 1
      BY <1>1 DEF Byte
    <2> QED
      BY <1>1, <2>1
  <1>4. Numbered(s) = IF c <= s.maxCounter THEN [s EXCEPT !.counter = c]
                      ELSE [s EXCEPT !.counter = 1, !.aux = b, !.reg = {b}]
    BY DEF Numbered
  <1> HIDE DEF b, c
  <1>5. b \in 0..RegBits - 1 /\ 1 \in 0..Width - 1 /\ s.counter + 1 \in 0..Width - 1
    BY <1>1, <1>3 DEF Byte, RegBits
  <1>6. CASE s.counter < s.maxCounter
    <2>1. Numbered(s) = [s EXCEPT !.counter = s.counter + 1]
      BY <1>1, <1>2, <1>4, <1>6
    <2> QED
      BY <1>5, <1>6, <2>1 DEF SameSetting, NextNumber, Sync
  <1>7. CASE ~(s.counter < s.maxCounter)
    <2>1. Numbered(s) = [s EXCEPT !.counter = 1, !.aux = b, !.reg = {b}]
      BY <1>1, <1>2, <1>4, <1>7
    <2>2. Numbered(s) \in Sync /\ SameSetting(Numbered(s), s)
      <3>1. {b} \in SUBSET (0..RegBits - 1)
        BY <1>5
      <3> QED
        BY <1>5, <2>1, <3>1 DEF SameSetting, Sync
    <2>3. NextNumber(Numbered(s), s)
      BY <1>3, <1>7, <2>1 DEF NextNumber, Sync
    <2> QED
      BY <2>2, <2>3
  <1> QED
    BY <1>6, <1>7

\* A producer sends a SYNC, with the next number, or goes one turn on.
LEMMA Producing ==
  ASSUME NEW s \in Sync, s.counter \in 0..s.maxCounter, s.aux \in 0..s.maxAux, NEW d \in Nat
  PROVE  LET p == Windowed(Produced(s, d))
         IN /\ p \in Sync /\ SameSetting(p, s)
            /\ \/ p.index = 0 /\ NextNumber(p, s)
               \/ OneTurnOn(p, s) /\ SameNumber(p, s)
  <1> DEFINE t == Ticked(s, d)
             p == Windowed(Produced(s, d))
  <1>1. t \in Sync /\ SameSetting(t, s) /\ SameNumber(t, s)
    BY Ticking
  <1>2. Produced(s, d) = IF t.timer >= t.period THEN Restarted(Numbered(t)) ELSE t
    BY DEF Produced
  <1>3. CASE t.timer >= t.period
    <2>1. t.counter \in 0..t.maxCounter /\ t.aux \in 0..t.maxAux
      BY <1>1 DEF SameSetting, SameNumber
    <2>2. Numbered(t) \in Sync /\ SameSetting(Numbered(t), t) /\ NextNumber(Numbered(t), t)
      BY <1>1, <2>1, Numbering
    <2> DEFINE r == Restarted(Numbered(t))
    <2>3. /\ r \in Sync /\ SameSetting(r, Numbered(t)) /\ SameNumber(r, Numbered(t))
          /\ r.index = 0
      BY <2>2, Restarting
    <2>4. p = Windowed(r)
      BY <1>2, <1>3
    <2> HIDE DEF p, t, r
    <2>5. p \in Sync /\ SameSetting(p, r) /\ SameNumber(p, r) /\ p.index = r.index
      BY <2>3, <2>4, InWindow
    <2>6. SameSetting(p, s)
      BY <1>1, <2>2, <2>3, <2>5 DEF SameSetting
    <2>7. NextNumber(p, s)
      BY <1>1, <2>2, <2>3, <2>5 DEF SameNumber, SameSetting, NextNumber
    <2> QED
      BY <2>3, <2>5, <2>6, <2>7 DEF p
  <1>4. CASE ~(t.timer >= t.period)
    <2>1. p = Windowed(t)
      BY <1>2, <1>4
    <2>2. OneTurnOn(t, s)
      BY Ticking
    <2> HIDE DEF p, t
    <2>3. p \in Sync /\ SameSetting(p, t) /\ SameNumber(p, t) /\ p.index = t.index
      BY <1>1, <2>1, InWindow
    <2> QED
      BY <1>1, <2>2, <2>3 DEF SameSetting, SameNumber, OneTurnOn, p
  <1> QED
    BY <1>3, <1>4

-----------------------------------------------------------------------------
(* The start of a cycle and of the node.                                     *)

LEMMA Parameters ==
  ASSUME NEW comm \in Values["comm"], od \in [list : Dictionaries, past : Pasts]
  PROVE  /\ SyncInit(comm.sync) \in Sync
         /\ [t \in Tpdos |-> TpdoInit(od.list, od.past, comm.tpdo[t])] \in [Tpdos -> Pdo]
         /\ NoFrames \in [Tpdos -> 0..2]
         /\ <<0, 0>> \in (0..Width - 1) \X (0..RegBits - 1)
  <1>1. 0 \in 0..Width - 1 /\ 0 \in 0..RegBits - 1 /\ 0 \in 0..2 /\ {} \in SUBSET (0..RegBits - 1)
    BY CycleAssumption DEF Byte, RegBits
  <1>2. SyncInit(comm.sync) \in Sync
    BY <1>1, NodeAssumption DEF SyncInit, Sync
  <1>3. ASSUME NEW t \in Tpdos
        PROVE  TpdoInit(od.list, od.past, comm.tpdo[t]) \in Pdo
    <2>1. comm.tpdo[t].mask \in PdoMasks /\ comm.tpdo[t].map \in PdoMaps
      BY DEF PdoMasks, PdoMaps
    <2>2. od.list \in Dictionaries /\ od.past \in Pasts
      OBVIOUS
    <2>3. Mapping(od.list, od.past, comm.tpdo[t].map) \in PdoFrames
      BY <2>1, <2>2 DEF PdoFrames
    <2> QED
      BY <2>1, <2>3, NodeAssumption DEF TpdoInit, Pdo
  <1> QED
    BY <1>1, <1>2, <1>3 DEF NoFrames

LEMMA CycleInit == NodeInit => CycleInv
  <1> SUFFICES ASSUME NodeInit PROVE CycleInv
    OBVIOUS
  <1> DEFINE comm == Default["comm"]
  <1>1. comm \in Values["comm"]
    BY StorageAssumption DEF Section
  <1> HIDE DEF comm
  <1>2. /\ cyc = SyncInit(comm.sync)
        /\ tpdo = [t \in Tpdos |-> TpdoInit(od.list, od.past, comm.tpdo[t])]
        /\ od \in [list : Dictionaries, past : Pasts] /\ at = "idle" /\ count = NoFrames
        /\ box = [new |-> FALSE, data |-> <<0, 0>>] /\ steady = TRUE /\ raced = FALSE /\ nth = 0
    BY DEF NodeInit, comm
  <1>3. cyc.counter = 0 /\ cyc.aux = 0 /\ cyc.index = 0 /\ cyc.reg = {}
    BY <1>2 DEF SyncInit
  <1>4. CycleShapes
    BY <1>1, <1>2, <1>3, Parameters DEF CycleShapes
  <1>5. Taking /\ TurnsCounted /\ DueIsSent
    BY <1>2, <1>3 DEF Taking, TurnsCounted, DueIsSent, NoFrames
  <1>6. Digits /\ TakenSoFar
    BY <1>2, <1>3 DEF Digits, TakenSoFar, Frame
  <1> QED
    BY <1>4, <1>5, <1>6 DEF CycleInv

LEMMA CycleConfigured ==
  ASSUME CycleInv, NEW comm \in Values["comm"], Configured(comm), UNCHANGED od
  PROVE  CycleInv'
  <1>1. /\ cyc' = SyncInit(comm.sync)
        /\ tpdo' = [t \in Tpdos |-> TpdoInit(od.list, od.past, comm.tpdo[t])]
        /\ od \in [list : Dictionaries, past : Pasts] /\ at' \in {"idle", "hung"}
        /\ count' = NoFrames
        /\ box' = [new |-> FALSE, data |-> <<0, 0>>] /\ steady' = TRUE /\ raced' = FALSE /\ nth' = 0
    BY DEF Configured, CycleInv, CycleShapes
  <1>2. cyc'.counter = 0 /\ cyc'.aux = 0 /\ cyc'.index = 0 /\ cyc'.reg = {}
    BY <1>1 DEF SyncInit
  <1>3. CycleShapes'
    BY <1>1, <1>2, Parameters DEF CycleShapes
  <1>4. Taking' /\ TurnsCounted' /\ DueIsSent'
    BY <1>1, <1>2 DEF Taking, TurnsCounted, DueIsSent, NoFrames
  <1>5. Digits' /\ TakenSoFar'
    BY <1>1, <1>2 DEF Digits, TakenSoFar, Frame
  <1> QED
    BY <1>3, <1>4, <1>5 DEF CycleInv

LEMMA CycleSame == ASSUME CycleInv, UNCHANGED cycle, UNCHANGED od,
                          at \in {"aux", "clear"} => UNCHANGED phase
                   PROVE  CycleInv'
  BY DEF cycle, CycleInv, CycleShapes, Taking, Consumes, TurnsCounted, DueIsSent, Due, Digits,
         TakenSoFar

\* A node is set up anew when it comes up, with the section that the start has
\* in RAM, and when it goes down.
LEMMA CycleStorage == ASSUME WholeInv, CycleInv, NodeStorage PROVE CycleInv'
  <1>1. CASE Starts
    <2>1. UNCHANGED od /\ StorageNext
      BY <1>1 DEF NodeStorage, Starts, StorageNext
    <2>2. CASE ComesUp
      <3>1. temp'["comm"] \in Values["comm"]
        BY <2>1, WholeNext DEF WholeInv, Wholes, Section
      <3> QED
        BY <1>1, <2>1, <2>2, <3>1, CycleConfigured DEF Starts
    <2>3. CASE ~ComesUp
      <3>1. phase = "up" => phase' = "up"
        BY <1>1 DEF Starts, Start, PowerOn, LoadSection, SkipSection, RestoreSection, SignStage, Write,
                    SectionWritten, SignWritten, StoreSign, Section
      <3> QED
        BY <1>1, <2>1, <2>3, <3>1, CycleSame DEF Starts, CycleInv, Taking
    <2> QED
      BY <2>2, <2>3
  <1>2. CASE Stores
    <2>1. phase = "up" => phase' = "up"
      <3>1. CASE WriteFails
        BY <3>1 DEF WriteFails, Section
      <3>2. CASE Application
        BY <3>2 DEF Application, SetPara, Store, Order
      <3> QED
        BY <1>2, <3>1, <3>2 DEF Stores
    <2> QED
      BY <1>2, <2>1, CycleSame DEF Stores, NodeStorage, CycleInv, Taking
  <1>3. CASE Falls
    <2>1. Default["comm"] \in Values["comm"]
      BY StorageAssumption DEF Section
    <2> QED
      BY <1>3, <2>1, CycleConfigured DEF Falls, NodeStorage
  <1> QED
    BY <1>1, <1>2, <1>3 DEF NodeStorage

-----------------------------------------------------------------------------
(* CO_process and what comes between its calls.                              *)

\* Taking a PDO's turn changes its request alone.
LEMMA Handling ==
  ASSUME NEW p \in Pdo, NEW s
  PROVE  /\ Processed(p, s) \in Pdo
         /\ Processed(p, s).valid = p.valid /\ Processed(p, s).type = p.type
         /\ Processed(p, s).mask = p.mask
  BY DEF Processed, Pdo

\* A PDO with a cyclic type is sent in its turn exactly if it is due.
LEMMA SendsDue ==
  ASSUME NEW p \in Pdo, NEW s \in Sync, s.reg = {s.aux}, p.valid, p.type \in 1..Width - 2
  PROVE  Sends(p, s) <=> s.counter = p.type /\ s.aux \in p.mask
  <1>1. p.type # EVENT_LO /\ p.type # SYNC_ACYCLIC
    BY CycleAssumption DEF EVENT_LO, SYNC_ACYCLIC
  <1> QED
    BY <1>1 DEF Sends

\* A cycle goes on: whose turn it is comes from the index.
LEMMA CycleGoesOn ==
  ASSUME CycleInv, Running, NEW s \in Sync, SameSetting(s, cyc), SameNumber(s, cyc),
         OneTurnOn(s, cyc), cyc' = s,
         tpdo' = [t \in Tpdos |-> IF Dispatch(s) = "tpdo" THEN Processed(tpdo[t], s) ELSE tpdo[t]],
         count' = [t \in Tpdos |->
                     IF Dispatch(s) = "tpdo" /\ Sends(tpdo[t], s) /\ count[t] < 2
                     THEN count[t] + 1 ELSE count[t]],
         ~(Consumes /\ box.new),
         UNCHANGED <<phase, od, at, box, steady, raced, nth>>
  PROVE  CycleInv'
  <1>1. /\ cyc \in Sync /\ cyc.reg \subseteq {cyc.aux} /\ tpdo \in [Tpdos -> Pdo]
        /\ count \in [Tpdos -> 0..2] /\ at = "idle"
    BY DEF CycleInv, CycleShapes, Running
  <1>2. Dispatch(s) = "tpdo" <=> cyc.index = 0
    BY <1>1, CycleAssumption DEF OneTurnOn, Dispatch, Sync
  <1>3. /\ tpdo' \in [Tpdos -> Pdo]
        /\ \A t \in Tpdos : /\ tpdo'[t].valid = tpdo[t].valid /\ tpdo'[t].type = tpdo[t].type
                            /\ tpdo'[t].mask = tpdo[t].mask
    BY <1>1, Handling
  <1>4. /\ count' \in [Tpdos -> 0..2]
        /\ cyc.index # 0 => count' = count
        /\ cyc.index = 0 => \A t \in Tpdos : count'[t] = IF Sends(tpdo[t], s) /\ count[t] < 2
                                                        THEN count[t] + 1 ELSE count[t]
    BY <1>1, <1>2
  <1>5. CycleShapes'
    BY <1>1, <1>3, <1>4 DEF CycleInv, CycleShapes, SameNumber
  <1>6. Taking' /\ Digits' /\ TakenSoFar'
    BY <1>1 DEF CycleInv, Taking, Digits, TakenSoFar, Consumes, Frame, SameSetting, SameNumber
  <1>7. TurnsCounted'
    BY <1>1, <1>4 DEF CycleInv, TurnsCounted, SameSetting, OneTurnOn
  <1>8. DueIsSent'
    <2>1. SUFFICES ASSUME s.valid, steady, s.reg # {}, NEW t \in Tpdos, tpdo[t].valid,
                          tpdo[t].type \in 1..Width - 2
                   PROVE  count'[t] = IF s.counter = tpdo[t].type /\ s.aux \in tpdo[t].mask
                                      THEN 1 ELSE 0
      BY <1>3 DEF DueIsSent, Due
    <2>2. s.counter = cyc.counter /\ s.aux = cyc.aux /\ s.reg = cyc.reg /\ cyc.valid
      BY <2>1 DEF SameNumber, SameSetting
    <2>3. CASE cyc.index = 0
      <3>1. count[t] = 0
        BY <2>1, <2>2, <2>3 DEF CycleInv, TurnsCounted
      <3>2. s.reg = {s.aux}
        BY <1>1, <2>1, <2>2
      <3>3. Sends(tpdo[t], s) <=> s.counter = tpdo[t].type /\ s.aux \in tpdo[t].mask
        BY <1>1, <2>1, <3>2, SendsDue
      <3> QED
        BY <1>4, <2>3, <3>1, <3>3
    <2>4. CASE cyc.index # 0
      <3>1. count[t] = IF Due(t) THEN 1 ELSE 0
        BY <1>1, <2>1, <2>2, <2>4 DEF CycleInv, DueIsSent
      <3> QED
        BY <1>4, <2>2, <2>4, <3>1 DEF Due
    <2> QED
      BY <2>3, <2>4
  <1> QED
    BY <1>5, <1>6, <1>7, <1>8 DEF CycleInv

\* The number after n = a * m + c, with the digits a and c of it: the digits of
\* NextNth.
LEMMA NextDigits ==
  ASSUME NEW m \in Nat \ {0}, NEW max \in Nat, NEW a \in 0..max, NEW c \in 1..m,
         NEW n \in Nat, n = a * m + c
  PROVE  /\ c < m => n # m * (max + 1) /\ n + 1 = a * m + (c + 1)
         /\ c = m /\ a < max => n # m * (max + 1) /\ n + 1 = (a + 1) * m + 1
         /\ c = m /\ a = max => n = m * (max + 1)
  <1>1. (a + 1) * m = a * m + m /\ m * (max + 1) = max * m + m /\ (max + 1) * m = max * m + m
    OBVIOUS
  <1>2. a < max => (a + 1) * m <= max * m
    OBVIOUS
  <1>3. a * m <= max * m /\ a * m \in Nat /\ max * m \in Nat
    OBVIOUS
  <1>4. c < m => n # m * (max + 1) /\ n + 1 = a * m + (c + 1)
    BY <1>1, <1>3
  <1>5. c = m /\ a < max => n # m * (max + 1) /\ n + 1 = (a + 1) * m + 1
    BY <1>1, <1>2, <1>3
  <1>6. c = m /\ a = max => n = m * (max + 1)
    BY <1>1
  <1> QED
    BY <1>4, <1>5, <1>6

LEMMA DigitsOfNext ==
  ASSUME CycleInv, cyc.gen, NEW s \in Sync, SameSetting(s, cyc), NextNumber(s, cyc),
         cyc' = s, nth' = NextNth(nth, s)
  PROVE  nth' \in Nat /\ Digits'
  <1> DEFINE m == cyc.maxCounter
             max == cyc.maxAux
             a == cyc.aux
             c == cyc.counter
  <1>1. /\ m \in Nat \ {0} /\ max \in Nat /\ nth \in Nat
        /\ s.maxCounter = m /\ s.maxAux = max /\ s.gen
    BY CycleAssumption DEF CycleInv, CycleShapes, SameSetting, Sync
  <1>2. nth' = IF nth = m * (max + 1) THEN 1 ELSE nth + 1
    BY <1>1 DEF NextNth
  <1>3. SUFFICES /\ nth' \in Nat \ {0} /\ s.counter \in 1..m /\ s.aux \in 0..max
                 /\ nth' = s.aux * m + s.counter
    BY <1>1 DEF Digits
  <1>4. CASE nth = 0
    <2>1. c = 0 /\ a = 0
      BY <1>4 DEF CycleInv, Digits
    <2>2. s.counter = 1 /\ s.aux = 0
      BY <1>1, <2>1 DEF NextNumber
    <2>3. m * (max + 1) # 0
      BY <1>1
    <2>4. nth' = 1
      BY <1>2, <1>4, <2>3
    <2>5. 0 * m = 0
      BY <1>1
    <2> QED
      BY <1>1, <2>2, <2>4, <2>5
  <1>5. CASE nth # 0
    <2>1. c \in 1..m /\ a \in 0..max /\ nth = a * m + c
      BY <1>5 DEF CycleInv, Digits
    <2>2. /\ c < m => s.counter = c + 1 /\ s.aux = a
          /\ ~(c < m) => s.counter = 1 /\ s.aux = IF a < max THEN a + 1 ELSE 0
      BY DEF NextNumber
    <2> HIDE DEF m, max, a, c
    <2>3. /\ c < m => nth # m * (max + 1) /\ nth + 1 = a * m + (c + 1)
          /\ c = m /\ a < max => nth # m * (max + 1) /\ nth + 1 = (a + 1) * m + 1
          /\ c = m /\ a = max => nth = m * (max + 1)
      BY <1>1, <2>1, NextDigits
    <2>4. CASE c < m
      BY <1>1, <1>2, <2>1, <2>2, <2>3, <2>4
    <2>5. CASE ~(c < m) /\ a < max
      <3>1. nth' = (a + 1) * m + 1 /\ s.counter = 1 /\ s.aux = a + 1
        BY <1>1, <1>2, <2>1, <2>2, <2>3, <2>5
      <3> QED
        BY <1>1, <2>1, <2>5, <3>1
    <2>6. CASE ~(c < m) /\ ~(a < max)
      <3>1. nth' = 1 /\ s.counter = 1 /\ s.aux = 0
        BY <1>1, <1>2, <2>1, <2>2, <2>3, <2>6
      <3>2. 0 * m = 0
        BY <1>1
      <3> QED
        BY <1>1, <2>1, <3>1, <3>2
    <2> QED
      BY <2>4, <2>5, <2>6
  <1> QED
    BY <1>4, <1>5

\* A producer begins a cycle: nothing of it is sent yet.
LEMMA CycleBegins ==
  ASSUME CycleInv, Running, cyc.gen, NEW s \in Sync, SameSetting(s, cyc), s.index = 0,
         NextNumber(s, cyc), cyc' = s, tpdo' = tpdo, count' = NoFrames, steady' = TRUE,
         nth' = NextNth(nth, s), UNCHANGED <<phase, od, at, box, raced>>
  PROVE  CycleInv'
  <1>1. at = "idle" /\ s.gen /\ cyc.reg \subseteq {cyc.aux}
    BY DEF Running, SameSetting, CycleInv, CycleShapes
  <1>2. s.reg \subseteq {s.aux}
    BY <1>1 DEF NextNumber
  <1>3. nth' \in Nat /\ Digits'
    BY DigitsOfNext
  <1>4. NoFrames \in [Tpdos -> 0..2]
    BY DEF NoFrames
  <1>5. CycleShapes'
    BY <1>2, <1>3, <1>4 DEF CycleInv, CycleShapes
  <1>6. Taking' /\ TurnsCounted' /\ DueIsSent' /\ TakenSoFar'
    BY <1>1 DEF Taking, TurnsCounted, DueIsSent, TakenSoFar, NoFrames
  <1> QED
    BY <1>3, <1>5, <1>6 DEF CycleInv

LEMMA CycleProcess == ASSUME CycleInv, NEW d \in Diffs, Process(d) PROVE CycleInv'
  <1>1. d \in Nat
    BY NodeAssumption
  <1>2. /\ cyc \in Sync /\ tpdo \in [Tpdos -> Pdo] /\ count \in [Tpdos -> 0..2]
        /\ Running /\ ~(Consumes /\ box.new) /\ UNCHANGED <<phase, od, at, box, raced>>
    BY DEF CycleInv, CycleShapes, Process, storage
  <1> DEFINE S == CASE ~cyc.valid           -> cyc
                    [] cyc.valid /\ cyc.gen -> Windowed(Produced(cyc, d))
                    [] Consumes             -> Windowed(Ticked(cyc, d))
             restart == cyc.valid /\ cyc.gen /\ S.index = 0
  <1>6. /\ cyc' = S
        /\ tpdo' = [t \in Tpdos |-> IF Dispatch(S) = "tpdo" THEN Processed(tpdo[t], S) ELSE tpdo[t]]
        /\ count' = [t \in Tpdos |->
             CASE restart -> 0
               [] ~restart /\ Dispatch(S) = "tpdo" /\ Sends(tpdo[t], S) /\ count[t] < 2 -> count[t] + 1
               [] OTHER   -> count[t]]
        /\ steady' = (steady \/ restart)
        /\ nth' = IF restart THEN NextNth(nth, S) ELSE nth
    BY DEF Process
  <1>7. steady \in BOOLEAN /\ cyc.valid \in BOOLEAN /\ cyc.gen \in BOOLEAN
    BY <1>2 DEF CycleInv, CycleShapes, Sync
  <1>8. /\ ~cyc.valid => S = cyc
        /\ cyc.valid /\ cyc.gen => S = Windowed(Produced(cyc, d))
        /\ cyc.valid /\ ~cyc.gen => S = Windowed(Ticked(cyc, d))
    BY <1>7 DEF Consumes
  <1> HIDE DEF S
  <1>9. ~restart => /\ UNCHANGED <<steady, nth>>
                    /\ count' = [t \in Tpdos |->
                         IF Dispatch(S) = "tpdo" /\ Sends(tpdo[t], S) /\ count[t] < 2
                         THEN count[t] + 1 ELSE count[t]]
    BY <1>6, <1>7
  <1>3. CASE ~cyc.valid
    <2>1. cyc' = cyc /\ UNCHANGED <<steady, nth>>
      BY <1>3, <1>6, <1>8, <1>9
    <2>2. tpdo' \in [Tpdos -> Pdo] /\ count' \in [Tpdos -> 0..2]
      BY <1>2, <1>3, <1>6, <1>9, Handling
    <2>3. CycleShapes'
      BY <1>2, <2>1, <2>2 DEF CycleInv, CycleShapes
    <2> QED
      BY <1>2, <1>3, <2>1, <2>3 DEF CycleInv, Taking, Consumes, TurnsCounted, DueIsSent, Digits,
                                    TakenSoFar, Running
  <1>4. CASE cyc.valid /\ cyc.gen
    <2> DEFINE s == Windowed(Produced(cyc, d))
    <2>1. cyc.counter \in 0..cyc.maxCounter /\ cyc.aux \in 0..cyc.maxAux
      BY <1>2, <1>4, CycleAssumption DEF CycleInv, Digits, Sync
    <2>2. /\ s \in Sync /\ SameSetting(s, cyc)
          /\ \/ s.index = 0 /\ NextNumber(s, cyc)
             \/ OneTurnOn(s, cyc) /\ SameNumber(s, cyc)
      BY <1>1, <1>2, <2>1, Producing
    <2>3. s = S
      BY <1>4, <1>8
    <2> HIDE DEF s
    <2>4. CASE s.index = 0
      <3>1. Dispatch(s) # "tpdo"
        BY <2>4 DEF Dispatch
      <3>2. tpdo' = tpdo /\ count' = NoFrames /\ steady' = TRUE /\ nth' = NextNth(nth, s)
        BY <1>2, <1>4, <1>6, <2>3, <2>4, <3>1 DEF NoFrames
      <3>3. NextNumber(s, cyc)
        BY <2>2, <2>4 DEF OneTurnOn
      <3> QED
        BY <1>2, <1>4, <1>6, <2>2, <2>3, <2>4, <3>2, <3>3, CycleBegins
    <2>5. CASE s.index # 0
      <3>1. ~restart
        BY <2>3, <2>5
      <3>2. OneTurnOn(s, cyc) /\ SameNumber(s, cyc)
        BY <2>2, <2>5
      <3> QED
        BY <1>2, <1>6, <1>9, <2>2, <2>3, <3>1, <3>2, CycleGoesOn
    <2> QED
      BY <2>4, <2>5
  <1>5. CASE cyc.valid /\ ~cyc.gen
    <2> DEFINE s == Windowed(Ticked(cyc, d))
    <2>1. s \in Sync /\ SameSetting(s, cyc) /\ SameNumber(s, cyc) /\ OneTurnOn(s, cyc)
      <3>1. /\ Ticked(cyc, d) \in Sync
            /\ SameSetting(Ticked(cyc, d), cyc) /\ SameNumber(Ticked(cyc, d), cyc)
            /\ OneTurnOn(Ticked(cyc, d), cyc)
        BY <1>1, <1>2, Ticking
      <3> DEFINE t == Ticked(cyc, d)
      <3> HIDE DEF t
      <3>2. s = Windowed(t)
        BY DEF t
      <3> HIDE DEF s
      <3>3. s \in Sync /\ SameSetting(s, t) /\ SameNumber(s, t) /\ s.index = t.index
        BY <3>1, <3>2, InWindow DEF t
      <3> QED
        BY <3>1, <3>3 DEF SameSetting, SameNumber, OneTurnOn, t
    <2>2. s = S /\ ~restart
      BY <1>5, <1>8
    <2> HIDE DEF s
    <2> QED
      BY <1>2, <1>6, <1>9, <2>1, <2>2, CycleGoesOn
  <1> QED
    BY <1>3, <1>4, <1>5

\* A consumer takes a SYNC in three steps; the box may change between them.
LEMMA CycleTakes ==
  ASSUME CycleInv, (\E d \in Diffs : TakeCounter(d)) \/ TakeAux \/ Taken
  PROVE  CycleInv'
  <1>1. /\ cyc \in Sync /\ cyc.reg \subseteq {cyc.aux}
        /\ box \in [new : BOOLEAN, data : (0..Width - 1) \X (0..RegBits - 1)]
        /\ box.data = <<box.data[1], box.data[2]>>
        /\ box.data[1] \in 0..Width - 1 /\ box.data[2] \in 0..RegBits - 1
    BY DEF CycleInv, CycleShapes
  <1>2. ASSUME NEW d \in Diffs, TakeCounter(d) PROVE CycleInv'
    <2> DEFINE t == Ticked(cyc, d)
    <2>1. t \in Sync /\ SameSetting(t, cyc) /\ SameNumber(t, cyc)
      BY <1>1, NodeAssumption, Ticking
    <2>2. /\ cyc' = [t EXCEPT !.counter = box.data[1]] /\ at' = "aux" /\ cyc.valid /\ ~cyc.gen
          /\ box.new /\ phase = "up"
          /\ UNCHANGED <<phase, od, tpdo, box, count, steady, raced, nth>>
      BY <1>2 DEF TakeCounter, storage, Consumes, Running, Quiet
    <2> HIDE DEF t
    <2>3. /\ cyc' \in Sync /\ cyc'.reg \subseteq {cyc'.aux} /\ cyc'.valid /\ ~cyc'.gen
          /\ cyc'.counter = box.data[1] /\ cyc'.index = t.index
      BY <1>1, <2>1, <2>2 DEF Sync, SameSetting, SameNumber
    <2>4. TurnsCounted'
      <3>1. OneTurnOn(t, cyc)
        BY <1>1, NodeAssumption, Ticking DEF t
      <3> QED
        BY <2>2, <2>3, <3>1 DEF CycleInv, TurnsCounted, OneTurnOn
    <2> QED
      BY <2>2, <2>3, <2>4 DEF CycleInv, CycleShapes, Taking, Consumes, DueIsSent, Digits, TakenSoFar
  <1>3. CASE TakeAux
    <2>1. /\ cyc' = [cyc EXCEPT !.aux = box.data[2], !.reg = {box.data[2]}]
          /\ at = "aux" /\ at' = "clear"
          /\ UNCHANGED <<phase, od, tpdo, box, count, steady, raced, nth>>
      BY <1>3 DEF TakeAux, storage
    <2>2. {box.data[2]} \in SUBSET (0..RegBits - 1)
      BY <1>1
    <2>3. /\ cyc' \in Sync /\ cyc'.reg = {cyc'.aux} /\ cyc'.valid = cyc.valid /\ cyc'.gen = cyc.gen
          /\ cyc'.counter = cyc.counter /\ cyc'.aux = box.data[2] /\ cyc'.index = cyc.index
      BY <1>1, <2>1, <2>2 DEF Sync
    <2>4. phase = "up" /\ cyc.valid /\ ~cyc.gen /\ box.new
      BY <2>1 DEF CycleInv, Taking, Consumes
    <2>5. ~raced => Frame(cyc') = box.data
      BY <1>1, <2>1, <2>3, <2>4 DEF CycleInv, TakenSoFar, Frame
    <2> QED
      BY <2>1, <2>3, <2>4, <2>5 DEF CycleInv, CycleShapes, Taking, Consumes, TurnsCounted, DueIsSent,
                                    Digits, TakenSoFar, Frame
  <1>4. CASE Taken
    <2> DEFINE r == Restarted(cyc)
    <2>1. r \in Sync /\ SameSetting(r, cyc) /\ SameNumber(r, cyc) /\ r.index = 0
      BY <1>1, Restarting
    <2>2. /\ cyc' = Windowed(r) /\ box' = [box EXCEPT !.new = FALSE]
          /\ at = "clear" /\ at' = "idle" /\ count' = NoFrames /\ steady' = TRUE
          /\ UNCHANGED <<phase, od, tpdo, raced, nth>>
      BY <1>4 DEF Taken, storage
    <2> HIDE DEF r
    <2>3. /\ cyc' \in Sync /\ SameSetting(cyc', r) /\ SameNumber(cyc', r) /\ cyc'.index = r.index
      BY <2>1, <2>2, InWindow
    <2>4. /\ cyc'.reg \subseteq {cyc'.aux} /\ cyc'.index = 0 /\ cyc'.gen = cyc.gen
          /\ cyc'.counter = cyc.counter /\ cyc'.aux = cyc.aux
      BY <1>1, <2>1, <2>3 DEF SameSetting, SameNumber
    <2>5. ~cyc.gen
      BY <2>2 DEF CycleInv, Taking, Consumes
    <2>6. NoFrames \in [Tpdos -> 0..2] /\ box'.data = box.data
          /\ box' \in [new : BOOLEAN, data : (0..Width - 1) \X (0..RegBits - 1)]
      <3>1. NoFrames \in [Tpdos -> 0..2]
        BY DEF NoFrames
      <3> DEFINE D == (0..Width - 1) \X (0..RegBits - 1)
      <3>2. box \in [new : BOOLEAN, data : D]
        BY <1>1
      <3> HIDE DEF D
      <3>3. box'.data = box.data /\ box' \in [new : BOOLEAN, data : D]
        BY <2>2, <3>2
      <3> QED
        BY <3>1, <3>3 DEF D
    <2>7. CycleShapes'
      BY <2>2, <2>3, <2>4, <2>6 DEF CycleInv, CycleShapes
    <2>8. Taking' /\ TurnsCounted' /\ DueIsSent' /\ Digits'
      BY <2>2, <2>4, <2>5 DEF Taking, TurnsCounted, DueIsSent, Digits, NoFrames
    <2>9. TakenSoFar'
      BY <2>2, <2>4, <2>5, <2>6 DEF CycleInv, TakenSoFar, Frame
    <2> QED
      BY <2>7, <2>8, <2>9 DEF CycleInv
  <1> QED
    BY <1>2, <1>3, <1>4

LEMMA CycleArrives == ASSUME CycleInv, SyncArrives PROVE CycleInv'
  <1>1. PICK f \in SyncFrames : box' = [new |-> TRUE, data |-> f]
    BY DEF SyncArrives, Received
  <1>2. f \in (0..Width - 1) \X (0..RegBits - 1)
    BY NodeAssumption
  <1>3. CycleShapes'
    BY <1>1, <1>2 DEF SyncArrives, CycleInv, CycleShapes
  <1>4. raced' = (at # "idle") /\ UNCHANGED <<phase, od, cyc, tpdo, at, count, steady, nth>>
    BY DEF SyncArrives
  <1>5. Taking' /\ TurnsCounted' /\ DueIsSent' /\ Digits' /\ TakenSoFar'
    BY <1>1, <1>4 DEF CycleInv, Taking, Consumes, TurnsCounted, DueIsSent, Due, Digits, TakenSoFar
  <1> QED
    BY <1>3, <1>5 DEF CycleInv

\* A call of the application leaves the numbers alone; what it sets, it sets
\* for a cycle that is not counted on any more.
LEMMA CycleCalled == ASSUME WholeInv, CycleInv, Called PROVE CycleInv'
  <1>1. /\ cyc \in Sync /\ cyc.reg \subseteq {cyc.aux} /\ tpdo \in [Tpdos -> Pdo]
    BY DEF CycleInv, CycleShapes
  <1>2. ASSUME NEW t \in Tpdos, RequestSend(t) PROVE CycleInv'
    <2>1. /\ tpdo' = [tpdo EXCEPT ![t].request = TRUE]
          /\ UNCHANGED <<phase, od, cyc, at, box, count, steady, raced, nth>>
      BY <1>2 DEF RequestSend, storage
    <2>2. /\ tpdo' \in [Tpdos -> Pdo]
          /\ \A x \in Tpdos : /\ tpdo'[x].valid = tpdo[x].valid /\ tpdo'[x].type = tpdo[x].type
                              /\ tpdo'[x].mask = tpdo[x].mask
      BY <1>1, <2>1 DEF Pdo
    <2> QED
      BY <2>1, <2>2 DEF CycleInv, CycleShapes, Taking, Consumes, TurnsCounted, DueIsSent, Due, Digits,
                        TakenSoFar
  <1>3. ASSUME Sets, tpdo' \in [Tpdos -> Pdo],
               cyc' \in Sync, cyc'.gen = cyc.gen, SameNumber(cyc', cyc),
               cyc'.maxCounter = cyc.maxCounter, cyc'.maxAux = cyc.maxAux
        PROVE  CycleInv'
    <2>1. at = "idle" /\ steady' = FALSE /\ UNCHANGED <<phase, od, at, box, count, raced, nth>>
      BY <1>3 DEF Sets, Running
    <2> QED
      BY <1>3, <2>1 DEF CycleInv, CycleShapes, Taking, Consumes, TurnsCounted, DueIsSent, Digits,
                        TakenSoFar, Frame, SameNumber
  <1>4. ASSUME NEW t \in Tpdos, NEW type \in Types, SetType(t, type) PROVE CycleInv'
    <2>1. tpdo' \in [Tpdos -> Pdo]
      BY <1>1, <1>4, NodeAssumption DEF SetType, Pdo
    <2> QED
      BY <1>1, <1>3, <1>4, <2>1 DEF SetType, SameNumber
  <1>5. ASSUME NEW t \in Tpdos, NEW mask \in Masks, SetMask(t, mask) PROVE CycleInv'
    <2>1. tpdo' \in [Tpdos -> Pdo]
      BY <1>1, <1>5 DEF SetMask, Pdo, PdoMasks
    <2> QED
      BY <1>1, <1>3, <1>5, <2>1 DEF SetMask, SameNumber
  <1>6. CASE DisableSync
    <2>1. EVENT_LO \in 0..Width - 1
      BY CycleAssumption DEF EVENT_LO
    <2>2. tpdo' \in [Tpdos -> Pdo]
      BY <1>1, <1>6, <2>1 DEF DisableSync, Pdo
    <2> QED
      BY <1>1, <1>3, <1>6, <2>2 DEF DisableSync, SameNumber, Sync
  <1>7. CASE RecoverSync
    <2>1. /\ temp["comm"].sync.valid \in BOOLEAN
          /\ \A t \in Tpdos : /\ temp["comm"].tpdo[t].valid \in BOOLEAN
                              /\ temp["comm"].tpdo[t].type \in 0..Width - 1
      BY NodeAssumption DEF WholeInv, Wholes, Section
    <2>2. tpdo' \in [Tpdos -> Pdo]
      BY <1>1, <1>7, <2>1 DEF RecoverSync, Pdo
    <2> QED
      BY <1>1, <1>3, <1>7, <2>1, <2>2 DEF RecoverSync, SameNumber, Sync
  <1> QED
    BY <1>2, <1>4, <1>5, <1>6, <1>7 DEF Called

LEMMA NodeInvInit == NodeInit => NodeInv
  BY WholeInit, RestInit, CycleInit DEF NodeInit, NodeInv

LEMMA NodeInvNext == NodeInv /\ [NodeNext]_vars => NodeInv'
  <1> SUFFICES ASSUME NodeInv, [NodeNext]_vars PROVE NodeInv'
    OBVIOUS
  <1>1. WholeInv' /\ StorageRest'
    BY WholeNode, RestNode DEF NodeInv
  <1>2. CASE NodeStorage
    BY <1>1, <1>2, CycleStorage DEF NodeInv
  <1>3. CASE CallsProcess
    BY <1>1, <1>3, CycleProcess, CycleTakes DEF NodeInv, CallsProcess
  <1>4. CASE SyncArrives
    BY <1>1, <1>4, CycleArrives DEF NodeInv
  <1>5. CASE Called
    BY <1>1, <1>5, CycleCalled DEF NodeInv
  <1>6. CASE UNCHANGED vars
    BY <1>1, <1>6, CycleSame DEF vars, storage, NodeInv
  <1> QED
    BY <1>2, <1>3, <1>4, <1>5, <1>6 DEF NodeNext

-----------------------------------------------------------------------------
(* What follows from the invariant.                                          *)

LEMMA TypesHold == NodeInv => NodeTypeOK
  <1> SUFFICES ASSUME NodeInv PROVE NodeTypeOK
    OBVIOUS
  <1>1. /\ flash.comm \in Values["comm"] \cup {Torn} /\ flash.app \in Values["app"] \cup {Torn}
        /\ \A g \in {sign, flash.sign} :
             /\ g.func \in [Section -> Command]
             /\ \A s \in Section : g.crc[s] \in Values[s] \cup {NoCrc}
    BY DEF NodeInv, WholeInv, Shapes, Crcs, Signature, Section
  <1>2. /\ \A s \in Section : /\ temp[s] \in Values[s] \cup {Torn}
                              /\ op[s] \in Values[s] \cup {Torn, None}
                              /\ promised[s] \in Values[s] \cup {None}
        /\ calls \in 0..MaxCalls /\ troubles \in 0..MaxTrouble
    BY DEF NodeInv, WholeInv, Wholes, StorageRest
  <1>3. /\ phase \in {"off", "comm", "app", "sign", "up", "stuck"}
        /\ {main, valid, outdated, failed} \subseteq BOOLEAN
        /\ writing \in Section \cup {"none", "crc", "sign"}
        /\ storing \in Section \cup {None}
    BY DEF NodeInv, WholeInv, Shapes, Stages, Section
  <1>4. StorageTypeOK
    BY <1>1, <1>2, <1>3 DEF StorageTypeOK
  <1>5. \A list, past, map : DOMAIN Mapping(list, past, map) = 1..FrameLen
    BY DEF Mapping, MapFail
  <1>6. \A t \in Tpdos : /\ DOMAIN tpdo[t].data = 1..FrameLen
                         /\ tpdo[t].request \in BOOLEAN /\ count[t] \in 0..2
    <2> SUFFICES ASSUME NEW t \in Tpdos
                 PROVE  /\ DOMAIN tpdo[t].data = 1..FrameLen
                        /\ tpdo[t].request \in BOOLEAN /\ count[t] \in 0..2
      OBVIOUS
    <2>1. tpdo[t] \in Pdo /\ count[t] \in 0..2
      BY DEF NodeInv, CycleInv, CycleShapes
    <2>2. tpdo[t].data \in PdoFrames /\ tpdo[t].request \in BOOLEAN
      BY <2>1 DEF Pdo
    <2>3. PICK list \in Dictionaries, past \in Pasts, map \in PdoMaps :
            tpdo[t].data = Mapping(list, past, map)
      BY <2>2 DEF PdoFrames
    <2> QED
      BY <1>5, <2>1, <2>2, <2>3
  <1> QED
    BY <1>4, <1>6 DEF NodeTypeOK, NodeInv, CycleInv, CycleShapes, Sync

\* The digits of a number are its remainder and its quotient.
LEMMA DigitsAre ==
  ASSUME NEW m \in Nat \ {0}, NEW max \in Nat, NEW a \in 0..max, NEW c \in 1..m
  PROVE  /\ ((a * m + c - 1) % m) + 1 = c
         /\ ((a * m + c - 1) \div m) % (max + 1) = a
  <1>1. c - 1 \in Nat /\ c - 1 < m /\ a \in Nat /\ a < max + 1 /\ a * m \in Nat
    OBVIOUS
  <1>2. (a * m + (c - 1)) % m = c - 1 /\ (a * m + (c - 1)) \div m = a
    BY <1>1
  <1>3. a % (max + 1) = a
    BY <1>1
  <1>4. a * m + c - 1 = a * m + (c - 1)
    BY <1>1
  <1> QED
    BY <1>2, <1>3, <1>4

LEMMA NumbersHold == NodeInv => CyclesAreNumbered
  <1> SUFFICES ASSUME NodeInv, cyc.gen, nth # 0
               PROVE  /\ cyc.counter = ((nth - 1) % cyc.maxCounter) + 1
                      /\ cyc.aux = ((nth - 1) \div cyc.maxCounter) % (cyc.maxAux + 1)
    BY DEF NodeInv, CycleInv, Digits, CyclesAreNumbered, Frame
  <1>1. /\ cyc.maxCounter \in Nat \ {0} /\ cyc.maxAux \in Nat
        /\ cyc.counter \in 1..cyc.maxCounter /\ cyc.aux \in 0..cyc.maxAux
        /\ nth = cyc.aux * cyc.maxCounter + cyc.counter
    BY CycleAssumption DEF NodeInv, CycleInv, CycleShapes, Sync, Digits
  <1> DEFINE m == cyc.maxCounter
             max == cyc.maxAux
             a == cyc.aux
             c == cyc.counter
  <1>2. m \in Nat \ {0} /\ max \in Nat /\ a \in 0..max /\ c \in 1..m /\ nth = a * m + c
    BY <1>1
  <1> HIDE DEF m, max, a, c
  <1>3. ((nth - 1) % m) + 1 = c /\ ((nth - 1) \div m) % (max + 1) = a
    BY <1>2, DigitsAre
  <1> QED
    BY <1>3 DEF m, max, a, c

LEMMA CycleHolds == NodeInv => CycleIsSound
  <1> SUFFICES ASSUME NodeInv PROVE CycleIsSound
    OBVIOUS
  <1>1. OncePerCycle
    BY DEF NodeInv, CycleInv, TurnsCounted, OncePerCycle
  <1>2. CyclicFrames
    <2>1. Turn = "sdo" => cyc.index # 0
      <3>1. cyc.index \in Nat
        BY CycleAssumption DEF NodeInv, CycleInv, CycleShapes, Sync
      <3> QED
        BY <3>1 DEF Turn, Dispatch
    <2>2. DueIsSent
      BY DEF NodeInv, CycleInv
    <2> QED
      BY <2>1, <2>2 DEF DueIsSent, Due, CyclicFrames
  <1>3. NoSyncForgotten
    BY DEF NodeInv, CycleInv, TakenSoFar, NoSyncForgotten, Consumes
  <1> QED
    BY <1>1, <1>2, <1>3, TypesHold, NumbersHold DEF CycleIsSound

\* Whatever its parameters, its PDOs and the calls of its application, a node
\* sends a PDO once a cycle and in the cycles that are its own, numbers the
\* cycles it produces one after another over both wrap-rounds, and forgets no
\* SYNC it consumes (CO_process, CO_SYNC_process, CO_TPDO_process).
THEOREM NodeCycleIsSound == NodeSpec => []CycleIsSound
  BY NodeInvInit, NodeInvNext, CycleHolds, PTL DEF NodeSpec

\* A node that also runs its cycle, and is called by its application, runs on
\* whole parameters (CO_OD_STORAGE_init).
THEOREM NodeRunsOnWhole == NodeSpec => []RunsOnWhole
  <1>1. NodeInv => RunsOnWhole
    BY DEF NodeInv, WholeInv, Wholes, RunsOnWhole
  <1> QED
    BY <1>1, NodeInvInit, NodeInvNext, PTL DEF NodeSpec

\* Its starts come up with what was stored or was to be restored, and put
\* unusable parameters right (co_process_when_reset).
THEOREM NodeStartIsSound == NodeSpec => StartIsSound
  <1>1. NodeInit => WholeInv /\ StartInv
    BY WholeInit, StartInit DEF NodeInit
  <1>2. WholeInv /\ StartInv /\ [NodeNext]_vars => (WholeInv /\ StartInv)'
    BY WholeNode, StartNode
  <1>3. UNCHANGED Kept => ~ComesUp /\ flash' = flash
    BY DEF Kept, ComesUp
  <1>4. WholeInv /\ StartInv /\ [NodeNext]_vars =>
          [ ComesUp =>
              \A s \in Section : promised[s] # None /\ (main \/ sign'.func[s] = NO_ACTION)
                                    => op'[s] = promised[s] ]_storage
    BY <1>3, StepOfStorage, StartKeeps
  <1>5. WholeInv /\ StartInv /\ [NodeNext]_vars =>
          [ /\ ComesUp /\ ~valid /\ main =>
                 op' = Default /\ Vouches(flash') /\ flash'.sign.func = NoCommand
            /\ phase # "up" /\ ~main => flash' = flash ]_storage
    BY <1>3, StepOfStorage, StartWrites, LoaderWritesNothing
  <1>6. NodeSpec => StartKeepsPromises
    BY <1>1, <1>2, <1>4, PTL DEF NodeSpec, StartKeepsPromises
  <1>7. NodeSpec => StartHeals
    BY <1>1, <1>2, <1>5, PTL DEF NodeSpec, StartHeals
  <1> QED
    BY <1>6, <1>7 DEF StartIsSound
=============================================================================
