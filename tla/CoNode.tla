------------------------------- MODULE CoNode -------------------------------
(***************************************************************************)
(* A CANopen node: it starts with the parameters its flash has               *)
(* (CoOdStorage), then runs CO_process (CO.c) again and again.  By its         *)
(* parameters it is the producer of SYNC, or a consumer of another node's; these *)
(* come in an interrupt (CO_can_receive_basic_handle, CO.h), between any two   *)
(* steps of CO_process.                                                        *)
(* The calls that are not in the repository (the main loop, the order in which *)
(* the parts are initialised, what the application asks for) are external.      *)
(***************************************************************************)
EXTENDS CoOdStorage, CoCycle

CONSTANTS Tpdos,        \* the node's transmit PDOs
          Diffs,        \* time between two calls of CO_process
          Dictionaries, \* object dictionaries
          Pasts,        \* the index that may follow a dictionary in memory
          SyncFrames,   \* what another producer of SYNC sends
          Types, Masks  \* what the application sets

\* The counters' limits, and what another producer sends, are what the header
\* allows (CO_SYNC.h: [1-30000] and [0-31]): a counter not the greatest number
\* there is, after which it would wrap to 0, an auxiliary counter no greater than
\* the last bit of the register that CO_SYNC_update_aux_sync_reg shifts to.  The
\* code checks neither.
ASSUME NodeAssumption ==
  /\ Width > 2 /\ Diffs \subseteq Nat
  /\ SyncFrames \subseteq (0..Width - 1) \X (0..RegBits - 1)
  /\ Types \subseteq 0..Width - 1
  /\ \A comm \in Values["comm"] :
       /\ comm.sync.valid \in BOOLEAN /\ comm.sync.gen \in BOOLEAN
       /\ comm.sync.period \in Nat /\ comm.sync.window \in Nat
       /\ comm.sync.maxCounter \in 1..Width - 2 /\ comm.sync.maxAux \in 0..RegBits - 1
       /\ \A t \in Tpdos : /\ comm.tpdo[t].valid \in BOOLEAN
                           /\ comm.tpdo[t].type \in 0..Width - 1

VARIABLES od,        \* the dictionary and what follows it: fixed at the start
          cyc,       \* p_co->sync
          tpdo,      \* p_co->tpdos
          at,        \* where CO_SYNC_process is in taking a SYNC, or hung
          box,       \* sync.msg: is_new and the data
          count,     \* history: frames of each PDO in this cycle
          steady,    \* history: nothing was set in this cycle
          raced,     \* history: a SYNC came while one was being taken
          nth        \* history: number of the producer's last SYNC

cycle == <<cyc, tpdo, at, box, count, steady, raced, nth>>
vars == <<storage, od, cycle>>

NoFrames == [t \in Tpdos |-> 0]

\* CO_init_basic, CO_SYNC_init and CO_TPDO_init with the parameters in RAM.
Configured(comm) ==
  /\ cyc' = SyncInit(comm.sync)
  /\ tpdo' = [t \in Tpdos |-> TpdoInit(od.list, od.past, comm.tpdo[t])]
  /\ at' = IF \E t \in Tpdos : MappingRefused(comm.tpdo[t].map) THEN "hung" ELSE "idle"
  /\ box' = [new |-> FALSE, data |-> <<0, 0>>]
  /\ count' = NoFrames /\ steady' = TRUE /\ raced' = FALSE /\ nth' = 0

NodeInit ==
  /\ StorageInit
  /\ od \in [list : Dictionaries, past : Pasts]
  /\ cyc = SyncInit(Default["comm"].sync)
  /\ tpdo = [t \in Tpdos |-> TpdoInit(od.list, od.past, Default["comm"].tpdo[t])]
  /\ at = "idle" /\ box = [new |-> FALSE, data |-> <<0, 0>>]
  /\ count = NoFrames /\ steady = TRUE /\ raced = FALSE /\ nth = 0

-----------------------------------------------------------------------------
\* Starting, storing and losing power.  The application works between two calls
\* of CO_process, and while it writes to flash CO_process is not called.

Starts == (Start \/ Write) /\ IF ComesUp THEN Configured(temp'["comm"]) ELSE UNCHANGED cycle

Stores == (WriteFails \/ (at = "idle" /\ Application)) /\ UNCHANGED cycle

Falls == (PowerCut \/ (Reset /\ at \in {"idle", "hung"})) /\ Configured(Default["comm"])

-----------------------------------------------------------------------------
\* CO_process.

Running == Quiet /\ at = "idle"
Consumes == cyc.valid /\ ~cyc.gen

\* CO_process: the index in the cycle says whose turn it is.
Dispatch(s) ==
  CASE s.index >= 2 -> "sdo" [] s.index = 1 -> "tpdo" [] OTHER -> "sync"

\* The turn of the last call.
Turn == Dispatch(cyc)

NextNth(n, s) == IF n = s.maxCounter * (s.maxAux + 1) THEN 1 ELSE n + 1

\* A call that takes no SYNC out of the box; CO_process_tpdo handles every PDO.
Process(d) ==
  LET s == CASE ~cyc.valid           -> cyc
             [] cyc.valid /\ cyc.gen -> Windowed(Produced(cyc, d))
             [] Consumes             -> Windowed(Ticked(cyc, d))
      turn == Dispatch(s)
      restart == cyc.valid /\ cyc.gen /\ s.index = 0
  IN /\ Running /\ ~(Consumes /\ box.new)
     /\ cyc' = s
     /\ tpdo' = [t \in Tpdos |-> IF turn = "tpdo" THEN Processed(tpdo[t], s) ELSE tpdo[t]]
     /\ count' = [t \in Tpdos |->
          CASE restart -> 0
            [] ~restart /\ turn = "tpdo" /\ Sends(tpdo[t], s) /\ count[t] < 2 -> count[t] + 1
            [] OTHER   -> count[t]]
     /\ steady' = (steady \/ restart)
     /\ nth' = IF restart THEN NextNth(nth, s) ELSE nth
     /\ UNCHANGED <<storage, od, at, box, raced>>

\* A consumer takes the SYNC in three steps that the interrupt can come
\* between: the counter, the auxiliary counter, and is_new = false.
TakeCounter(d) ==
  /\ Running /\ Consumes /\ box.new
  /\ cyc' = [Ticked(cyc, d) EXCEPT !.counter = box.data[1]]
  /\ at' = "aux"
  /\ UNCHANGED <<storage, od, tpdo, box, count, steady, raced, nth>>

\* Mutation: the auxiliary counter is taken at the start of a round only.
MutTakeAux ==
  /\ Quiet /\ at = "aux"
  /\ cyc' = IF cyc.counter # 1 THEN cyc
            ELSE [cyc EXCEPT !.aux = box.data[2], !.reg = {box.data[2]}]
  /\ at' = "clear"
  /\ UNCHANGED <<storage, od, tpdo, box, count, steady, raced, nth>>

TakeAux ==
  /\ Quiet /\ at = "aux"
  /\ cyc' = [cyc EXCEPT !.aux = box.data[2], !.reg = {box.data[2]}]
  /\ at' = "clear"
  /\ UNCHANGED <<storage, od, tpdo, box, count, steady, raced, nth>>

\* The rest of CO_SYNC_process; the index is 0 and nobody has the turn.
Taken ==
  /\ Quiet /\ at = "clear"
  /\ cyc' = Windowed(Restarted(cyc))
  /\ box' = [box EXCEPT !.new = FALSE]
  /\ at' = "idle" /\ count' = NoFrames /\ steady' = TRUE
  /\ UNCHANGED <<storage, od, tpdo, raced, nth>>

-----------------------------------------------------------------------------
\* The bus.  The producer's cycle is longer than the node needs to reach its
\* SDOs; a SYNC that is early is trouble, and any number may be missing.

\* CO_can_receive_basic_handle of a consumer.
Received(b, f) == [new |-> TRUE, data |-> f]

SyncArrives ==
  /\ phase = "up" /\ at # "hung" /\ ~cyc.gen
  /\ IF cyc.index >= 2 /\ ~box.new THEN UNCHANGED troubles
     ELSE troubles < MaxTrouble /\ troubles' = troubles + 1
  /\ \E f \in SyncFrames : box' = Received(box, f)
  /\ raced' = (at # "idle")
  /\ UNCHANGED <<flash, sign, temp, op, phase, main, valid, outdated, failed, writing,
                 storing, promised, calls, od, cyc, tpdo, at, count, steady, nth>>

-----------------------------------------------------------------------------
\* The application's calls, between two calls of CO_process.

Sets == Running /\ calls < MaxCalls /\ calls' = calls + 1 /\ steady' = FALSE
        /\ UNCHANGED <<flash, sign, temp, op, phase, main, valid, outdated, failed,
                       writing, storing, promised, troubles, od, at, box,
                       count, raced, nth>>

\* CO_TPDO_send_request.
RequestSend(t) ==
  /\ Running /\ ~tpdo[t].request
  /\ tpdo' = [tpdo EXCEPT ![t].request = TRUE]
  /\ UNCHANGED <<storage, od, cyc, at, box, count, steady, raced, nth>>

\* CO_TPDO_set_transmission_type.
SetType(t, type) == Sets /\ tpdo' = [tpdo EXCEPT ![t].type = type] /\ UNCHANGED cyc

\* CO_TPDO_set_sync_mask_reg.
SetMask(t, mask) == Sets /\ tpdo' = [tpdo EXCEPT ![t].mask = mask] /\ UNCHANGED cyc

\* CO_disable_sync_mode: the index stays where it is from now on, and with it
\* the turn.
DisableSync ==
  /\ Sets
  /\ cyc' = [cyc EXCEPT !.valid = FALSE]
  /\ tpdo' = [t \in Tpdos |-> [tpdo[t] EXCEPT !.type = EVENT_LO]]

\* CO_recover_sync_mode, with the parameters in RAM.
RecoverSync ==
  /\ Sets
  /\ cyc' = [cyc EXCEPT !.valid = temp["comm"].sync.valid]
  /\ tpdo' = [t \in Tpdos |-> [tpdo[t] EXCEPT !.type  = temp["comm"].tpdo[t].type,
                                              !.valid = temp["comm"].tpdo[t].valid]]

Called == \/ \E t \in Tpdos : \/ RequestSend(t)
                              \/ \E type \in Types : SetType(t, type)
                              \/ \E mask \in Masks : SetMask(t, mask)
          \/ DisableSync \/ RecoverSync

CallsProcess == (\E d \in Diffs : Process(d) \/ TakeCounter(d)) \/ TakeAux \/ Taken

NodeStorage == (Starts \/ Stores \/ Falls) /\ UNCHANGED od

NodeNext == NodeStorage \/ CallsProcess \/ SyncArrives \/ Called

NodeSpec == NodeInit /\ [][NodeNext]_vars

\* The main loop runs, flash writes end, and SYNC goes on coming.
NodeFairness == /\ WF_vars(~Quiet /\ phase = "up" /\ Starts /\ UNCHANGED od)
                /\ WF_vars(CallsProcess)
                /\ WF_vars(SyncArrives)

FairNodeSpec == NodeSpec /\ NodeFairness

-----------------------------------------------------------------------------
\* Types of the state, storage and cycle.
NodeTypeOK ==
  /\ StorageTypeOK
  /\ cyc.timer \in 0..Width - 1 /\ cyc.index \in 0..Width - 1
  /\ cyc.counter \in 0..Width - 1 /\ cyc.aux \in 0..RegBits - 1 /\ cyc.reg \subseteq {cyc.aux}
  /\ \A t \in Tpdos : /\ DOMAIN tpdo[t].data = 1..FrameLen
                      /\ tpdo[t].request \in BOOLEAN /\ count[t] \in 0..2
  /\ at \in {"idle", "aux", "clear", "hung"}

\* A PDO goes out at most once in a cycle of SYNC, however long the cycle is
\* and however often CO_process is called in it (the index of CO_process
\* never comes back to 1 by itself).
OncePerCycle == cyc.valid /\ steady => \A t \in Tpdos : count[t] <= 1

\* The producer's two counters number the cycles one after another, over both
\* wrap-rounds (CO_SYNC_process).
CyclesAreNumbered ==
  phase = "up" /\ cyc.gen =>
    Frame(cyc) = IF nth = 0 THEN <<0, 0>>
                 ELSE <<((nth - 1) % cyc.maxCounter) + 1,
                        ((nth - 1) \div cyc.maxCounter) % (cyc.maxAux + 1)>>

\* When the SDOs have had their turn, a cyclic PDO has gone out in this cycle
\* exactly if the cycle's numbers are its own; a producer's first round, in
\* which its auxiliary register is still empty, is the exception.
CyclicFrames ==
  phase = "up" /\ at = "idle" /\ cyc.valid /\ steady /\ Turn = "sdo" /\ cyc.reg # {} =>
    \A t \in Tpdos : tpdo[t].valid /\ tpdo[t].type \in 1..Width - 2 =>
      count[t] = IF cyc.counter = tpdo[t].type /\ cyc.aux \in tpdo[t].mask THEN 1 ELSE 0

\* A consumer with no SYNC waiting has the numbers of the last one that came,
\* both of the same SYNC; except when the interrupt came while it was taking
\* one.
NoSyncForgotten ==
  phase = "up" /\ Consumes /\ at = "idle" /\ ~box.new /\ ~raced => Frame(cyc) = box.data

\* A frame is the named objects' bytes in the order of the mapping, zeros
\* after an object's end; or all of it says that the mapping failed
\* (CO_PDO_mapping with CO_OD_get_no).
MapsWhatItNames ==
  \A t \in Tpdos :
    LET map == tpdo[t].map
        start(k) == FoldLeft(LAMBDA n, m : n + m[2], 0, SubSeq(map, 1, k - 1))
        object(k) == {no \in 1..Len(od.list) : od.list[no][1] = map[k][1]}
    IN IF (\E k \in 1..Len(map) : object(k) = {}) \/ start(Len(map) + 1) > FrameLen
       THEN tpdo[t].data = MapFail
       ELSE \A k \in 1..Len(map), b \in 1..FrameLen : b <= map[k][2] =>
              tpdo[t].data[start(k) + b] =
                IF \E no \in object(k) : b <= od.list[no][2] THEN <<map[k][1], b>> ELSE Zero

\* What the cycle of SYNC promises its PDOs: each once a cycle, in its own cycle,
\* the cycles numbered one after another, and no SYNC forgotten.
CycleIsSound ==
  NodeTypeOK /\ OncePerCycle /\ CyclesAreNumbered /\ CyclicFrames /\ NoSyncForgotten

\* A request of a PDO that waits for one goes out, while SYNC is in use.
Waits(t) == /\ phase = "up" /\ at # "hung" /\ cyc.valid /\ tpdo[t].valid /\ tpdo[t].request
            /\ tpdo[t].type \in {SYNC_ACYCLIC, EVENT_LO}
RequestGoesOut == \A t \in Tpdos : Waits(t) ~> ~Waits(t)

\* The SDOs get their turn again and again, while SYNC is in use.
SdoGetsTurn == []<>(Turn = "sdo" \/ phase # "up" \/ at = "hung" \/ ~cyc.valid)

\* While SYNC is in use everyone has his turn: the PDO that waits and the SDOs.
TurnsCome == RequestGoesOut /\ SdoGetsTurn
=============================================================================
