------------------------ MODULE ModbusUpgradeProofs ------------------------
(***************************************************************************)
(* For every firmware, every number of repetitions, calls and troubles, and  *)
(* every other user of the client: the server has nothing to refuse that the *)
(* client lets out; the result of a call is its own, as long as every call   *)
(* is answered; and the segments come whole, as long as the line loses       *)
(* nothing or every call is answered.                                        *)
(***************************************************************************)
EXTENDS ModbusUpgrade, SequenceTheorems, TLAPS

-----------------------------------------------------------------------------
(* What is on the line.                                                      *)

InfoOf(n)    == InfoCall([index |-> n])
DataOf(n, k) == DataCall([index |-> n], [frame |-> k])
ForeignCall  == Call((Unit % 255) + 1, 6, 0, 1, 0, <<>>)

FramePlaces  == {fr \in (1..Last) \X Nat : fr[2] < SegChunks[fr[1]]}
UpgradeCalls == {InfoOf(n) : n \in Nat} \cup {DataOf(fr[1], fr[2]) : fr \in FramePlaces}

\* The calls a request may have come from.
Sendable == {c \in AppCalls : ~ClientRefuses(c)} \cup {StatusCall, FwInfoCall, RebootCall, ForeignCall}
              \cup UpgradeCalls

Requests == {Request(c) : c \in Sendable}

\* What registers read as, and what else an answer may carry.
Contents == {f.data : f \in Requests} \cup {<<"status", st>> : st \in Statuses}

Replies == {Exception(f, code) : f \in Requests, code \in {ILLEGAL_FUNCTION, DEVICE_FAILURE}}
             \cup {Answer(f, d) : f \in Requests, d \in Contents}

LineTypes ==
  /\ slv \in [state : SlvStates, repeat : Nat, waiting : BOOLEAN, expired : BOOLEAN, index : Nat]
  /\ out \in [state : MbStates, frame : Nat, expired : BOOLEAN]
  /\ toUnit \in Seq(Requests \cup {Junk}) /\ toClient \in Seq(Replies \cup {Junk})
  /\ pc \in PCs /\ (pc # "run" => call \in Sendable)
  /\ inStep \in BOOLEAN

(* With every call answered, the line has no more than what belongs to the   *)
(* call that waits.                                                          *)

Noise(f) == f = Junk \/ f.unit # Unit

OwnAnswer(c, r) ==
  \/ r = Junk
  \/ \E code \in {ILLEGAL_FUNCTION, DEVICE_FAILURE} : r = Exception(Request(c), code)
  \/ executed = Request(c) /\ \E d \in Contents : r = Answer(Request(c), d)

\* The request of the call that waits comes last, and has no answer yet.
Asked(i) == i = Len(toUnit) /\ pc # "run" /\ toUnit[i] = Request(call) /\ toClient = <<>>

QuietLine ==
  /\ \A i \in 1..Len(toUnit) : Noise(toUnit[i]) \/ Asked(i)
  /\ toClient # <<>> => pc # "run" /\ Len(toClient) = 1 /\ OwnAnswer(call, toClient[1])

LineInv == LineTypes /\ (inStep => QuietLine)

\* The output sends frames of the firmware only.
DataFits ==
  Running /\ out.state = "SEG_DATA" =>
    slv.index \in 1..Last /\ out.frame \in 0..SegChunks[slv.index] - 1

-----------------------------------------------------------------------------
(* The calls.                                                                *)

CallShape(c) ==
  /\ c = Call(c.unit, c.fc, c.addr, c.qty, c.file, c.data)
  /\ c.unit \in 0..255 /\ c.fc \in KnownCodes
  /\ c.addr \in Words /\ c.qty \in Words /\ c.file \in Words
  /\ c.fc = 5 => c.qty \in {0, CoilOn}
  /\ ~ClientRefuses(c)

LEMMA InfoIs ==
  ASSUME NEW n \in Nat
  PROVE  /\ InfoOf(n) = Call(Unit, 16, 31, 8, 0, <<"info", n, SegChunks[n]>>)
         /\ InfoOf(n) \in Sendable
  BY DEF InfoOf, InfoCall, FILE_TYPE, Sendable, UpgradeCalls

\* The frames of a segment: the last one ends it, the others are full.
LEMMA FramesAre ==
  ASSUME NEW n \in 1..Last, NEW k \in 0..SegChunks[n] - 1
  PROVE  /\ n \in Nat /\ k \in Nat /\ BSS_MODBUS_FILE_MAX_LEN \in 1..122
         /\ BufLen(n, k) \in 1..FILE_SEG_FRAME_SIZE
         /\ k # SegChunks[n] - 1 => BufLen(n, k) = FILE_SEG_FRAME_SIZE
         /\ k = SegChunks[n] - 1 => BufLen(n, k) = SegBytes[n] - k * FILE_SEG_FRAME_SIZE
<1>1. Last \in Nat /\ SegChunks[n] \in Nat
  BY SlaveAssumption DEF Last
<1>2. n \in Nat /\ k \in Nat /\ (k >= SegChunks[n] - 1 <=> k = SegChunks[n] - 1)
  BY <1>1
<1>3. /\ BSS_MODBUS_FILE_MAX_LEN \in 1..122
      /\ SegBytes[n] - (SegChunks[n] - 1) * FILE_SEG_FRAME_SIZE \in 1..FILE_SEG_FRAME_SIZE
  BY FrameAssumption
<1>4. FILE_SEG_FRAME_SIZE \in 1..FILE_SEG_FRAME_SIZE
  BY <1>3 DEF FILE_SEG_FRAME_SIZE
<1>5. CASE k = SegChunks[n] - 1
  <2>1. BufLen(n, k) = SegBytes[n] - (SegChunks[n] - 1) * FILE_SEG_FRAME_SIZE
    BY <1>2, <1>5, Zenon DEF BufLen
  <2>2. QED
    BY <1>2, <1>3, <1>5, <2>1, Zenon
<1>6. CASE k # SegChunks[n] - 1
  <2>1. BufLen(n, k) = FILE_SEG_FRAME_SIZE
    BY <1>2, <1>6, Zenon DEF BufLen
  <2>2. QED
    BY <1>2, <1>3, <1>4, <1>6, <2>1, Zenon
<1>7. QED
  BY <1>5, <1>6

\* How many registers a frame takes.
LEMMA QuantityIs ==
  ASSUME NEW n \in 1..Last, NEW k \in 0..SegChunks[n] - 1
  PROVE  1 + BufLen(n, k) \div 2 \in 1..123
<1> DEFINE b == BufLen(n, k)
<1>1. b \in 1..2 * BSS_MODBUS_FILE_MAX_LEN /\ BSS_MODBUS_FILE_MAX_LEN \in 1..122
  BY FramesAre DEF FILE_SEG_FRAME_SIZE
<1> HIDE DEF b
<1>2. b \in 1..244
  BY <1>1
<1>3. 1 + b \div 2 \in 1..123
  BY <1>2
<1>4. QED
  BY <1>3 DEF b

LEMMA DataIs ==
  ASSUME NEW n \in 1..Last, NEW k \in 0..SegChunks[n] - 1
  PROVE  /\ DataOf(n, k) = Call(Unit, 16, 40, 1 + BufLen(n, k) \div 2, 0, <<"data", n, k>>)
         /\ DataOf(n, k) \in Sendable
<1>1. DataOf(n, k) = Call(Unit, 16, 40, 1 + BufLen(n, k) \div 2, 0, <<"data", n, k>>)
  BY DEF DataOf, DataCall, FRAME_INDEX
<1>2. <<n, k>> \in FramePlaces
  BY FramesAre, SlaveAssumption DEF FramePlaces, Last
<1>3. DataOf(n, k) \in {DataOf(fr[1], fr[2]) : fr \in FramePlaces}
  BY <1>2
<1>4. QED
  BY <1>1, <1>3 DEF Sendable, UpgradeCalls

\* What arrives of a frame is all of it, but for the odd byte at the end.
LEMMA ArrivesAll ==
  ASSUME NEW n \in 1..Last, NEW k \in 0..SegChunks[n] - 1
  PROVE  Piece(<<"data", n, k>>, 1 + BufLen(n, k) \div 2) = Arrives(n, k)
<1> DEFINE b == BufLen(n, k)
           m == BSS_MODBUS_FILE_MAX_LEN
           s == SegBytes[n]
<1>1. /\ k \in Nat /\ m \in 1..122 /\ b \in Nat /\ s \in Nat
      /\ k # SegChunks[n] - 1 => b = 2 * m
      /\ k = SegChunks[n] - 1 => b = s - k * (2 * m)
  <2>1. FILE_SEG_FRAME_SIZE \in Nat
    BY FramesAre DEF FILE_SEG_FRAME_SIZE
  <2>2. b \in Nat
    BY <2>1, FramesAre
  <2>3. QED
    BY <2>2, FramesAre, FrameAssumption DEF FILE_SEG_FRAME_SIZE
<1> HIDE DEF b, m, s
<1>2. CASE k # SegChunks[n] - 1
  <2>1. 2 * ((1 + b \div 2) - 1) = 2 * m
    BY <1>1, <1>2
  <2>2. QED
    BY <1>2, <2>1, Zenon DEF Piece, Arrives, b, m, FILE_SEG_FRAME_SIZE
<1>3. CASE k = SegChunks[n] - 1
  <2>1. PICK h \in Nat : h = k * m
    BY <1>1
  <2>2. b = s - 2 * h /\ k * (2 * m) = 2 * h
    BY <1>1, <1>3, <2>1
  <2>3. 2 * ((1 + b \div 2) - 1) = s - (s % 2) - 2 * h
    <3>1. PICK g \in Nat : s = 2 * g + (s % 2) /\ s % 2 \in {0, 1}
      BY <1>1
    <3>2. b = 2 * (g - h) + (s % 2) /\ g - h \in Int
      BY <2>2, <3>1
    <3>3. b \div 2 = g - h
      BY <3>1, <3>2
    <3>4. QED
      BY <2>1, <3>1, <3>2, <3>3
  <2>4. 2 * ((1 + b \div 2) - 1) = s - (s % 2) - k * (2 * m)
    BY <2>2, <2>3, Zenon
  <2>5. QED
    BY <1>3, <2>4, Zenon DEF Piece, Arrives, b, m, s, FILE_SEG_FRAME_SIZE
<1>4. QED
  BY <1>2, <1>3

\* The limits of the functions.
LEMMA Limits ==
  ASSUME NEW fc \in KnownCodes
  PROVE  /\ fc \in ReadBits  => MaxQuantity(fc) = Limit.readBits
         /\ fc \in ReadRegs  => MaxQuantity(fc) = Limit.readRegs
         /\ fc \in WriteBits => MaxQuantity(fc) = Limit.writeBits
         /\ fc \in WriteRegs => MaxQuantity(fc) = Limit.writeRegs
         /\ fc \in ReadFile  => MaxQuantity(fc) = Limit.readFile
         /\ fc \in WriteFile => MaxQuantity(fc) = Limit.writeFile
<1>1. /\ fc \in ReadRegs => fc \notin ReadBits
      /\ fc \in WriteBits => fc \notin ReadBits \cup ReadRegs
      /\ fc \in WriteRegs => fc \notin ReadBits \cup ReadRegs \cup WriteBits
      /\ fc \in ReadFile => fc \notin ReadBits \cup ReadRegs \cup WriteBits \cup WriteRegs
      /\ fc \in WriteFile => fc \notin ReadBits \cup ReadRegs \cup WriteBits \cup WriteRegs \cup ReadFile
  BY DEF ReadBits, ReadRegs, WriteBits, WriteRegs, ReadFile, WriteFile
<1>2. QED
  BY <1>1, Zenon DEF MaxQuantity

\* The byte counts of the functions that have one.
LEMMA Counts ==
  ASSUME NEW fc, NEW q
  PROVE  /\ fc \in WriteBits => Bytes(fc, q) = ((q + 7) \div 8) % 256
         /\ fc \in WriteRegs => Bytes(fc, q) = (2 * q) % 256
         /\ fc \in ReadFile  => Bytes(fc, q) = 7
         /\ fc \in WriteFile => Bytes(fc, q) = (7 + 2 * q) % 256
<1> DEFINE a == ((q + 7) \div 8) % 256
           b == (2 * q) % 256
           d == (7 + 2 * q) % 256
           bits == ReadBits \cup WriteBits
           regs == ReadRegs \cup WriteRegs
<1>1. Bytes(fc, q) = CASE fc \in bits -> a [] fc \in regs -> b [] fc \in ReadFile -> 7
                       [] fc \in WriteFile -> d [] OTHER -> 0
  BY Zenon DEF Bytes
<1>2. /\ fc \in WriteBits => fc \in bits /\ fc \notin regs /\ fc \notin ReadFile /\ fc \notin WriteFile
      /\ fc \in WriteRegs => fc \notin bits /\ fc \in regs /\ fc \notin ReadFile /\ fc \notin WriteFile
      /\ fc \in ReadFile => fc \notin bits /\ fc \notin regs /\ fc \notin WriteFile
      /\ fc \in WriteFile => fc \notin bits /\ fc \notin regs /\ fc \notin ReadFile
  BY DEF ReadBits, ReadRegs, WriteBits, WriteRegs, ReadFile, WriteFile
<1>3. /\ fc \in WriteBits => Bytes(fc, q) = a
      /\ fc \in WriteRegs => Bytes(fc, q) = b
      /\ fc \in ReadFile => Bytes(fc, q) = 7
      /\ fc \in WriteFile => Bytes(fc, q) = d
  <2> HIDE DEF a, b, d, bits, regs
  <2>1. CASE fc \in WriteBits
    BY <1>1, <1>2, <2>1, Zenon
  <2>2. CASE fc \in WriteRegs
    BY <1>1, <1>2, <2>2, Zenon
  <2>3. CASE fc \in ReadFile
    BY <1>1, <1>2, <2>3, Zenon
  <2>4. CASE fc \in WriteFile
    BY <1>1, <1>2, <2>4, Zenon
  <2>5. QED
    BY <1>2, <2>1, <2>2, <2>3, <2>4, Zenon
<1>4. QED
  BY <1>3

\* A write names at least one bit or register, and its count says so.
LEMMA CountIsOne ==
  ASSUME NEW fc \in WriteBits \cup WriteRegs, NEW q \in 1..MaxQuantity(fc)
  PROVE  Bytes(fc, q) # 0
<1>1. fc \in KnownCodes
  BY DEF KnownCodes
<1>2. CASE fc \in WriteBits
  <2>1. q \in 1..1968
    BY <1>1, <1>2, Limits, SMT DEF Limit
  <2>2. ((q + 7) \div 8) % 256 # 0
    BY <2>1, SMT
  <2>3. QED
    BY <1>1, <1>2, <2>2, Counts, SMT
<1>3. CASE fc \in WriteRegs
  <2>1. q \in 1..123
    BY <1>1, <1>3, Limits, SMT DEF Limit
  <2>2. (2 * q) % 256 # 0
    BY <2>1, SMT
  <2>3. QED
    BY <1>1, <1>3, <2>2, Counts, SMT
<1>4. QED
  BY <1>2, <1>3

LEMMA CodeIs ==
  /\ 3 \in ReadRegs /\ 6 \in WriteOne /\ 16 \in WriteRegs
  /\ {3, 6, 16} \subseteq KnownCodes
  /\ 3 \in Ranged /\ 16 \in Ranged /\ 6 \notin Ranged
  /\ {3, 6, 16} \cap (ReadFile \cup WriteFile) = {}
  BY DEF KnownCodes, Ranged, ReadBits, ReadRegs, WriteOne, WriteBits, WriteRegs, ReadFile, WriteFile

LEMMA SmallWords == \A a \in 0..200 : a \in Words
  BY SMT DEF Words

LEMMA SmallUnits ==
  \A u \in 1..255 : u \in 0..255 /\ (u % 255) + 1 \in 0..255 /\ (u % 255) + 1 # u
  BY SMT

\* A call with few registers, to an address below the last ones.
LEMMA SmallCall ==
  ASSUME NEW c, c = Call(c.unit, c.fc, c.addr, c.qty, c.file, c.data),
         c.unit \in 0..255, c.fc \in {3, 6, 16}, c.addr \in 0..200, c.qty \in 1..123, c.file = 0
  PROVE  CallShape(c)
<1>2. /\ c.fc \in KnownCodes /\ c.fc \notin ReadFile /\ c.fc \notin WriteFile /\ c.fc # 5
      /\ c.fc \in Ranged => c.fc = 3 \/ c.fc = 16
  BY CodeIs
<1>3. MaxQuantity(3) = 125 /\ MaxQuantity(16) = 123
  <2>1. MaxQuantity(3) = Limit.readRegs /\ MaxQuantity(16) = Limit.writeRegs
    BY CodeIs, Limits
  <2>2. QED
    BY <2>1, SMT DEF Limit
<1>4. c.addr \in Words /\ c.qty \in Words /\ c.file \in Words
  BY SmallWords, SMT
<1>5. c.fc \in Ranged => ~RefusesRange(c)
  <2>1. c.fc \in Ranged => MaxQuantity(c.fc) \in {123, 125}
    BY <1>2, <1>3
  <2> DEFINE end == 65536
             low == 0..200
             few == 1..123
  <2>2. \A a \in low, q \in few, m \in {123, 125} : q \in 1..m /\ ~(a + q > end)
    BY SMT
  <2>3. c.addr \in low /\ c.qty \in few
    OBVIOUS
  <2> HIDE DEF end, low, few
  <2>4. ASSUME NEW m \in {123, 125}, m = MaxQuantity(c.fc)
        PROVE  c.qty \in 1..MaxQuantity(c.fc) /\ ~(c.addr + c.qty > end)
    BY <2>2, <2>3, <2>4
  <2>5. c.fc \in Ranged => c.qty \in 1..MaxQuantity(c.fc) /\ ~(c.addr + c.qty > end)
    BY <2>1, <2>4
  <2>6. QED
    BY <2>5, SMT DEF RefusesRange, end
<1>6. ~ClientRefuses(c)
  BY <1>2, <1>5 DEF ClientRefuses
<1>7. QED
  BY <1>2, <1>4, <1>6, SMT DEF CallShape

LEMMA SendableIs == ASSUME NEW c \in Sendable PROVE CallShape(c)
<1>1. CASE c \in AppCalls /\ ~ClientRefuses(c)
  <2>1. /\ c = Call(c.unit, c.fc, c.addr, c.qty, c.file, c.data)
        /\ c.unit \in 0..255 /\ c.fc \in KnownCodes
        /\ {c.addr, c.qty, c.file} \subseteq Words
        /\ c.fc = 5 => c.qty \in {0, CoilOn}
    BY <1>1, AppAssumption
  <2>2. c.addr \in Words /\ c.qty \in Words /\ c.file \in Words
    BY <2>1
  <2>3. QED
    BY <1>1, <2>1, <2>2 DEF CallShape
<1>2. Unit \in 0..255 /\ (Unit % 255) + 1 \in 0..255
  BY ModbusAssumption, SmallUnits
<1>3. CallShape(StatusCall) /\ CallShape(FwInfoCall) /\ CallShape(RebootCall) /\ CallShape(ForeignCall)
  <2>1. CallShape(StatusCall)
    <3>1. /\ StatusCall = Call(StatusCall.unit, StatusCall.fc, StatusCall.addr, StatusCall.qty, StatusCall.file, StatusCall.data)
          /\ StatusCall.unit \in 0..255 /\ StatusCall.fc \in {3, 6, 16} /\ StatusCall.addr \in 0..200
          /\ StatusCall.qty \in 1..123 /\ StatusCall.file = 0
      BY <1>2, SMT DEF StatusCall, Call, OTA_STATUS
    <3>2. QED
      BY <3>1, SmallCall
  <2>2. CallShape(FwInfoCall)
    <3>1. /\ FwInfoCall = Call(FwInfoCall.unit, FwInfoCall.fc, FwInfoCall.addr, FwInfoCall.qty, FwInfoCall.file, FwInfoCall.data)
          /\ FwInfoCall.unit \in 0..255 /\ FwInfoCall.fc \in {3, 6, 16} /\ FwInfoCall.addr \in 0..200
          /\ FwInfoCall.qty \in 1..123 /\ FwInfoCall.file = 0
      BY <1>2, SMT DEF FwInfoCall, Call, FILE_TYPE
    <3>2. QED
      BY <3>1, SmallCall
  <2>3. CallShape(RebootCall)
    <3>1. /\ RebootCall = Call(RebootCall.unit, RebootCall.fc, RebootCall.addr, RebootCall.qty, RebootCall.file, RebootCall.data)
          /\ RebootCall.unit \in 0..255 /\ RebootCall.fc \in {3, 6, 16} /\ RebootCall.addr \in 0..200
          /\ RebootCall.qty \in 1..123 /\ RebootCall.file = 0
      BY <1>2, SMT DEF RebootCall, Call, BP_REBOOT
    <3>2. QED
      BY <3>1, SmallCall
  <2>4. CallShape(ForeignCall)
    <3>1. /\ ForeignCall = Call(ForeignCall.unit, ForeignCall.fc, ForeignCall.addr, ForeignCall.qty, ForeignCall.file, ForeignCall.data)
          /\ ForeignCall.unit \in 0..255 /\ ForeignCall.fc \in {3, 6, 16} /\ ForeignCall.addr \in 0..200
          /\ ForeignCall.qty \in 1..123 /\ ForeignCall.file = 0
      BY <1>2, SMT DEF ForeignCall, Call
    <3>2. QED
      BY <3>1, SmallCall
  <2>5. QED
    BY <2>1, <2>2, <2>3, <2>4
<1>4. CASE c \in UpgradeCalls
  <2>1. /\ c = Call(c.unit, c.fc, c.addr, c.qty, c.file, c.data)
        /\ c.unit = Unit /\ c.fc = 16 /\ c.addr \in {31, 40} /\ c.qty \in 1..123 /\ c.file = 0
    <3>1. CASE \E n \in Nat : c = InfoOf(n)
      BY <3>1, InfoIs, SMT DEF Call
    <3>2. CASE \E fr \in FramePlaces : c = DataOf(fr[1], fr[2])
      <4>1. PICK n \in 1..Last : \E k \in 0..SegChunks[n] - 1 : c = DataOf(n, k)
        BY <3>2, SlaveAssumption DEF FramePlaces, Last
      <4>2. PICK k \in 0..SegChunks[n] - 1 : c = DataOf(n, k)
        BY <4>1
      <4>3. PICK q : q = 1 + BufLen(n, k) \div 2
        OBVIOUS
      <4>4. q \in 1..123 /\ c = Call(Unit, 16, 40, q, 0, <<"data", n, k>>)
        BY <4>2, <4>3, DataIs, QuantityIs
      <4>5. QED
        BY <4>4, SMT DEF Call
    <3>3. QED
      BY <1>4, <3>1, <3>2 DEF UpgradeCalls
  <2>2. QED
    BY <1>2, <2>1, SmallCall, SMT
<1>5. QED
  BY <1>1, <1>3, <1>4 DEF Sendable

LEMMA RequestIs ==
  ASSUME NEW c
  PROVE  /\ Request(c) # Junk /\ Request(c).kind = "request"
         /\ Request(c).unit = c.unit /\ Request(c).fc = c.fc
         /\ Request(c).addr = c.addr /\ Request(c).qty = c.qty /\ Request(c).file = c.file
         /\ Request(c).data = c.data /\ Request(c).bytes = Bytes(c.fc, c.qty)
<1>1. Request(c).kind = "request" /\ Junk.kind = "junk"
  BY DEF Request, Junk
<1>2. QED
  BY <1>1 DEF Request

LEMMA WordsBelow == \A q \in Words : ~(q > 122) => q \in 0..122
<1>1. Words \subseteq Nat
  BY SMT DEF Words
<1>2. \A q \in Nat : ~(q > 122) => q \in 0..122
  BY SMT
<1>3. QED
  BY <1>1, <1>2, Zenon

\* What a handler that finds nothing wrong does: it asks the application.
Asks(served) == IF served THEN 0 ELSE ILLEGAL_FUNCTION

LEMMA RangeIsFine ==
  ASSUME NEW f, NEW served \in BOOLEAN, f.qty \in 1..MaxQuantity(f.fc), ~OutOfRange(f),
         f.fc \in WriteBits \cup WriteRegs => f.bytes = Bytes(f.fc, f.qty) /\ f.bytes # 0
  PROVE  RefusalRange(f, served) = Asks(served)
<1>1. ~(f.fc \in WriteBits \cup WriteRegs /\ f.bytes \notin {Bytes(f.fc, f.qty)} \ {0})
  OBVIOUS
<1>2. QED
  BY <1>1, Zenon DEF RefusalRange, Asks

LEMMA OneIsFine ==
  ASSUME NEW f, NEW served \in BOOLEAN, f.fc = 5 => f.qty \in {0, CoilOn}
  PROVE  RefusalWriteOne(f, served) = Asks(served)
<1>1. ~(f.fc = 5 /\ f.qty \notin {0, CoilOn})
  OBVIOUS
<1>2. QED
  BY <1>1, Zenon DEF RefusalWriteOne, Asks

LEMMA FileReadIsFine ==
  ASSUME NEW f, NEW served \in BOOLEAN, ~NoSuchRecord(f), f.bytes = 7
  PROVE  RefusalReadFile(f, served) = Asks(served)
<1>1. ~(f.bytes % 7 # 0 \/ f.bytes \notin 7..245)
  BY SMT
<1>2. QED
  BY <1>1, Zenon DEF RefusalReadFile, Asks

LEMMA FileWriteIsFine ==
  ASSUME NEW f, NEW served \in BOOLEAN, ~NoSuchRecord(f), f.qty \in 0..122, f.bytes = 7 + 2 * f.qty
  PROVE  RefusalWriteFile(f, served) = Asks(served)
<1>1. ~(f.bytes \notin 7..251) /\ ~(f.bytes # 7 + 2 * f.qty)
  BY SMT
<1>2. QED
  BY <1>1, Zenon DEF RefusalWriteFile, Asks

\* Which handler serves a function.
LEMMA HandlerIs ==
  ASSUME NEW f, NEW served
  PROVE  /\ f.fc \in ReadBits \cup ReadRegs \cup WriteBits \cup WriteRegs =>
              Refusal(f, served) = RefusalRange(f, served)
         /\ f.fc \in WriteOne  => Refusal(f, served) = RefusalWriteOne(f, served)
         /\ f.fc \in ReadFile  => Refusal(f, served) = RefusalReadFile(f, served)
         /\ f.fc \in WriteFile => Refusal(f, served) = RefusalWriteFile(f, served)
<1>1. /\ f.fc \in ReadRegs => f.fc \notin ReadBits
      /\ f.fc \in WriteOne => f.fc \notin ReadBits /\ f.fc \notin ReadRegs
      /\ f.fc \in WriteBits => f.fc \notin ReadBits /\ f.fc \notin ReadRegs /\ f.fc \notin WriteOne
      /\ f.fc \in WriteRegs => /\ f.fc \notin ReadBits /\ f.fc \notin ReadRegs /\ f.fc \notin WriteOne
                               /\ f.fc \notin WriteBits
      /\ f.fc \in ReadFile => /\ f.fc \notin ReadBits /\ f.fc \notin ReadRegs /\ f.fc \notin WriteOne
                              /\ f.fc \notin WriteBits /\ f.fc \notin WriteRegs
      /\ f.fc \in WriteFile => /\ f.fc \notin ReadBits /\ f.fc \notin ReadRegs /\ f.fc \notin WriteOne
                               /\ f.fc \notin WriteBits /\ f.fc \notin WriteRegs /\ f.fc \notin ReadFile
  BY DEF ReadBits, ReadRegs, WriteOne, WriteBits, WriteRegs, ReadFile, WriteFile
<1>2. CASE f.fc \in ReadBits
  BY <1>1, <1>2, Zenon DEF Refusal, RefusalReadBits
<1>3. CASE f.fc \in ReadRegs
  BY <1>1, <1>3, Zenon DEF Refusal, RefusalReadRegs
<1>4. CASE f.fc \in WriteOne
  BY <1>1, <1>4, Zenon DEF Refusal
<1>5. CASE f.fc \in WriteBits
  BY <1>1, <1>5, Zenon DEF Refusal, RefusalWriteBits
<1>6. CASE f.fc \in WriteRegs
  BY <1>1, <1>6, Zenon DEF Refusal, RefusalWriteRegs
<1>7. CASE f.fc \in ReadFile
  BY <1>1, <1>7, Zenon DEF Refusal
<1>8. CASE f.fc \in WriteFile
  BY <1>1, <1>8, Zenon DEF Refusal
<1>9. QED
  BY <1>2, <1>3, <1>4, <1>5, <1>6, <1>7, <1>8

\* What the client lets out, no handler has anything against: it has a
\* callback, or it has none.
LEMMA NothingToRefuse ==
  ASSUME NEW c \in Sendable, NEW served \in BOOLEAN
  PROVE  Refusal(Request(c), served) = Asks(served)
<1> DEFINE f == Request(c)
<1>1. CallShape(c)
  BY SendableIs
<1>2. /\ f.fc = c.fc /\ f.addr = c.addr /\ f.qty = c.qty /\ f.file = c.file
      /\ f.bytes = Bytes(c.fc, c.qty)
  BY RequestIs
<1> HIDE DEF f
<1>3. c.fc \in KnownCodes /\ (c.fc = 5 => c.qty \in {0, CoilOn}) /\ ~ClientRefuses(c) /\ c.qty \in Words
  BY <1>1 DEF CallShape
<1>4. CASE c.fc \in Ranged
  <2>1. ~RefusesRange(c)
    BY <1>3, <1>4 DEF ClientRefuses
  <2>2. c.qty \in 1..MaxQuantity(c.fc) /\ ~OutOfRange(f)
    BY <1>2, <2>1, SMT DEF RefusesRange, OutOfRange
  <2>3. c.fc \in WriteBits \cup WriteRegs => f.bytes # 0
    BY <1>2, <2>2, CountIsOne
  <2>4. RefusalRange(f, served) = Asks(served)
    BY <1>2, <2>2, <2>3, RangeIsFine
  <2>5. Refusal(f, served) = RefusalRange(f, served)
    BY <1>2, <1>4, HandlerIs DEF Ranged
  <2>6. QED
    BY <2>4, <2>5 DEF f
<1>5. CASE c.fc \in WriteOne
  <2>1. RefusalWriteOne(f, served) = Asks(served)
    BY <1>2, <1>3, OneIsFine
  <2>2. QED
    BY <1>2, <1>5, <2>1, HandlerIs DEF f
<1>6. CASE c.fc \in ReadFile \cup WriteFile
  <2>1. ~RefusesFile(c)
    BY <1>3, <1>6 DEF ClientRefuses
  <2>2. ~NoSuchRecord(f) /\ ~(c.qty > MaxQuantity(c.fc))
    BY <1>2, <2>1, SMT DEF RefusesFile, NoSuchRecord
  <2>3. CASE c.fc \in ReadFile
    <3>1. f.bytes = 7
      BY <1>2, <2>3, Counts
    <3>2. RefusalReadFile(f, served) = Asks(served)
      BY <2>2, <3>1, FileReadIsFine
    <3>3. QED
      BY <1>2, <2>3, <3>2, HandlerIs DEF f
  <2>4. CASE c.fc \in WriteFile
    <3>1. MaxQuantity(c.fc) = 122
      BY <1>3, <2>4, Limits, SMT DEF Limit
    <3>2. c.qty \in 0..122
      <4>1. \A q \in Words : ~(q > 122) => q \in 0..122
        BY WordsBelow
      <4>2. ~(c.qty > 122)
        BY <2>2, <3>1
      <4>3. QED
        BY <1>3, <4>1, <4>2
    <3>3. f.bytes = (7 + 2 * c.qty) % 256
      BY <1>2, <2>4, Counts, SMT
    <3>4. f.bytes = 7 + 2 * f.qty
      BY <1>2, <3>2, <3>3, SMT
    <3>5. RefusalWriteFile(f, served) = Asks(served)
      BY <1>2, <2>2, <3>2, <3>4, FileWriteIsFine, SMT
    <3>6. QED
      BY <1>2, <2>4, <3>5, HandlerIs DEF f
  <2>5. QED
    BY <1>6, <2>3, <2>4
<1>7. QED
  BY <1>3, <1>4, <1>5, <1>6 DEF KnownCodes, Ranged

-----------------------------------------------------------------------------
(* The line.                                                                 *)

LEMMA EmptyIs ==
  ASSUME NEW X, NEW s \in Seq(X)
  PROVE  Len(s) \in Nat /\ (Len(s) = 0 <=> s = <<>>)
  OBVIOUS

LEMMA TailIs ==
  ASSUME NEW X, NEW s \in Seq(X), s # <<>>
  PROVE  /\ Len(s) \in Nat \ {0} /\ Head(s) = s[1] /\ s[1] \in X
         /\ Tail(s) \in Seq(X) /\ Len(Tail(s)) = Len(s) - 1
         /\ \A i \in 1..Len(s) - 1 : Tail(s)[i] = s[i + 1]
  OBVIOUS

LEMMA AheadIs ==
  ASSUME NEW X, NEW s \in Seq(X), NEW x \in X
  PROVE  /\ <<x>> \o s \in Seq(X) /\ Len(<<x>> \o s) = Len(s) + 1
         /\ (<<x>> \o s)[1] = x
         /\ \A i \in 2..Len(s) + 1 : (<<x>> \o s)[i] = s[i - 1]
  OBVIOUS

LEMMA AppendedIs ==
  ASSUME NEW X, NEW s \in Seq(X), NEW x \in X
  PROVE  /\ Append(s, x) \in Seq(X) /\ Len(Append(s, x)) = Len(s) + 1
         /\ Append(s, x)[Len(s) + 1] = x
         /\ \A i \in 1..Len(s) : Append(s, x)[i] = s[i]
  OBVIOUS

\* The line t has nothing but what is left of s: a rest, or an item, and what
\* comes last was last.
Thinner(X, s, t) ==
  /\ t \in Seq(X) /\ Len(t) <= Len(s)
  /\ \A j \in 1..Len(t) :
       t[j] = Junk \/ \E i \in 1..Len(s) : t[j] = s[i] /\ (i = Len(s) => j = Len(t))

LEMMA TailThinner ==
  ASSUME NEW X, NEW s \in Seq(X), s # <<>>
  PROVE  Thinner(X, s, Tail(s))
<1>1. \A j \in 1..Len(Tail(s)) : j + 1 \in 1..Len(s) /\ Tail(s)[j] = s[j + 1]
                                  /\ (j + 1 = Len(s) => j = Len(Tail(s)))
  BY TailIs
<1>2. QED
  BY <1>1, TailIs DEF Thinner

LEMMA RestThinner ==
  ASSUME NEW X, NEW s \in Seq(X), s # <<>>, Junk \in X
  PROVE  Thinner(X, s, <<Junk>> \o Tail(s))
<1> DEFINE t == <<Junk>> \o Tail(s)
<1>1. t \in Seq(X) /\ Len(t) = Len(s) /\ t[1] = Junk /\ Len(s) \in Nat
  BY TailIs, AheadIs
<1>2. \A j \in 2..Len(t) : t[j] = Tail(s)[j - 1] /\ Tail(s)[j - 1] = s[j]
  BY <1>1, TailIs, AheadIs
<1>3. \A j \in 1..Len(t) : t[j] = Junk \/ \E i \in 1..Len(s) : t[j] = s[i] /\ (i = Len(s) => j = Len(t))
  <2>1. TAKE j \in 1..Len(t)
  <2>2. CASE j = 1
    BY <1>1, <2>2
  <2>3. CASE j # 1
    <3>1. j \in 2..Len(t) /\ j \in 1..Len(s)
      BY <1>1, <2>3
    <3>2. t[j] = s[j]
      BY <1>2, <3>1
    <3> HIDE DEF t
    <3>3. QED
      BY <1>1, <3>1, <3>2
  <2>4. QED
    BY <2>2, <2>3
<1> HIDE DEF t
<1>4. Thinner(X, s, t)
  BY <1>1, <1>3 DEF Thinner
<1>5. QED
  BY <1>4 DEF t

LEMMA SuffixIs ==
  ASSUME NEW X, NEW s \in Seq(X), NEW n \in 1..Len(s) + 1
  PROVE  LET t == SubSeq(s, n, Len(s)) IN
           /\ t \in Seq(X) /\ Len(t) = Len(s) + 1 - n
           /\ \A j \in 1..Len(t) : t[j] = s[n + j - 1]
<1>1. Len(s) \in Nat
  OBVIOUS
<1>2. \A i \in n..Len(s) : s[i] \in X
  OBVIOUS
<1>3. QED
  BY <1>1, <1>2, SubSeqProperties

LEMMA GarbledThinner ==
  ASSUME NEW X, NEW s \in Seq(X), s # <<>>, Junk \in X, NEW t \in Garbled(s)
  PROVE  Thinner(X, s, t)
<1> DEFINE u(n) == SubSeq(s, n, Len(s))
<1>1. Len(s) \in Nat \ {0}
  BY TailIs
<1>2. CASE \E n \in 2..Len(s) + 1 : t = u(n)
  <2>1. PICK n \in 2..Len(s) + 1 : t = u(n)
    BY <1>2
  <2>2. t \in Seq(X) /\ Len(t) = Len(s) + 1 - n /\ \A j \in 1..Len(t) : t[j] = s[n + j - 1]
    BY <1>1, <2>1, SuffixIs
  <2> HIDE DEF u
  <2>3. \A j \in 1..Len(t) : \E i \in 1..Len(s) : t[j] = s[i] /\ (i = Len(s) => j = Len(t))
    <3>1. TAKE j \in 1..Len(t)
    <3>2. n + j - 1 \in 1..Len(s) /\ (n + j - 1 = Len(s) => j = Len(t))
      BY <1>1, <2>2
    <3>3. t[j] = s[n + j - 1]
      BY <2>2
    <3>4. QED
      BY <3>2, <3>3
  <2>4. Len(t) <= Len(s)
    BY <1>1, <2>2
  <2>5. QED
    BY <2>2, <2>3, <2>4 DEF Thinner
<1>3. CASE \E n \in 3..Len(s) + 1 : t = <<Junk>> \o u(n)
  <2>1. PICK n \in 3..Len(s) + 1 : t = <<Junk>> \o u(n)
    BY <1>3
  <2>2. u(n) \in Seq(X) /\ Len(u(n)) = Len(s) + 1 - n /\ \A j \in 1..Len(u(n)) : u(n)[j] = s[n + j - 1]
    BY <1>1, SuffixIs
  <2> HIDE DEF u
  <2>3. /\ t \in Seq(X) /\ Len(t) = Len(u(n)) + 1 /\ t[1] = Junk
        /\ \A j \in 2..Len(u(n)) + 1 : t[j] = u(n)[j - 1]
    <3> DEFINE v == u(n)
    <3>1. v \in Seq(X) /\ t = <<Junk>> \o v
      BY <2>1, <2>2
    <3> HIDE DEF v
    <3>2. /\ t \in Seq(X) /\ Len(t) = Len(v) + 1 /\ t[1] = Junk
          /\ \A j \in 2..Len(v) + 1 : t[j] = v[j - 1]
      BY <3>1, AheadIs
    <3>3. QED
      BY <3>2 DEF v
  <2>4. \A j \in 1..Len(t) : t[j] = Junk \/ \E i \in 1..Len(s) : t[j] = s[i] /\ (i = Len(s) => j = Len(t))
    <3>1. TAKE j \in 1..Len(t)
    <3>2. CASE j = 1
      BY <2>3, <3>2
    <3>3. CASE j # 1
      <4>1. j \in 2..Len(u(n)) + 1 /\ j - 1 \in 1..Len(u(n))
        BY <1>1, <2>2, <2>3, <3>3
      <4>2. n + j - 2 \in 1..Len(s) /\ (n + j - 2 = Len(s) => j = Len(t))
        BY <1>1, <2>2, <2>3, <4>1
      <4>3. t[j] = u(n)[j - 1]
        BY <2>3, <4>1
      <4>4. u(n)[j - 1] = s[n + (j - 1) - 1]
        BY <2>2, <4>1
      <4>5. n + (j - 1) - 1 = n + j - 2
        BY <1>1
      <4>6. QED
        BY <4>2, <4>3, <4>4, <4>5
    <3>4. QED
      BY <3>2, <3>3
  <2>5. Len(t) <= Len(s)
    BY <1>1, <2>2, <2>3
  <2>6. QED
    BY <2>3, <2>4, <2>5 DEF Thinner
<1>4. QED
  BY <1>2, <1>3 DEF Garbled

LEMMA SpoiltThinner ==
  ASSUME NEW X, NEW s \in Seq(X), NEW i \in 1..Len(s), Junk \in X
  PROVE  Thinner(X, s, [s EXCEPT ![i] = Junk])
<1> DEFINE t == [s EXCEPT ![i] = Junk]
<1>1. t \in Seq(X) /\ Len(t) = Len(s) /\ \A j \in 1..Len(t) : t[j] = Junk \/ t[j] = s[j]
  BY ExceptSeq
<1> HIDE DEF t
<1>2. Thinner(X, s, t)
  BY <1>1 DEF Thinner
<1>3. QED
  BY <1>2 DEF t

LEMMA RemovedThinner ==
  ASSUME NEW X, NEW s \in Seq(X), NEW i \in 1..Len(s)
  PROVE  Thinner(X, s, S!RemoveAt(s, i))
<1> DEFINE a == SubSeq(s, 1, i - 1)
           b == SubSeq(s, i + 1, Len(s))
           t == a \o b
<1>1. Len(s) \in Nat /\ i \in Nat
  OBVIOUS
<1>2. a \in Seq(X) /\ Len(a) = i - 1 /\ \A j \in 1..i - 1 : a[j] = s[j]
  <2>1. \A j \in 1..i - 1 : s[j] \in X
    OBVIOUS
  <2>2. QED
    BY <1>1, <2>1, SubSeqProperties
<1>3. b \in Seq(X) /\ Len(b) = Len(s) - i /\ \A j \in 1..Len(b) : b[j] = s[i + j]
  BY <1>1, SuffixIs
<1> HIDE DEF a, b
<1>4. t \in Seq(X) /\ Len(t) = Len(s) - 1
  <2>1. t \in Seq(X) /\ Len(t) = Len(a) + Len(b)
    BY <1>2, <1>3, ConcatProperties
  <2>2. QED
    BY <1>1, <1>2, <1>3, <2>1
<1>5. \A j \in 1..Len(t) : t[j] = IF j < i THEN s[j] ELSE s[j + 1]
  <2>1. TAKE j \in 1..Len(t)
  <2>2. t[j] = IF j <= Len(a) THEN a[j] ELSE b[j - Len(a)]
    BY <1>1, <1>2, <1>3, <1>4, ConcatProperties
  <2>3. CASE j < i
    BY <1>1, <1>2, <1>4, <2>2, <2>3
  <2>4. CASE ~(j < i)
    <3>1. j - Len(a) \in 1..Len(b) /\ i + (j - Len(a)) = j + 1
      BY <1>1, <1>2, <1>3, <1>4, <2>4
    <3>2. b[j - Len(a)] = s[j + 1]
      BY <1>3, <3>1
    <3>3. QED
      BY <1>1, <1>2, <1>4, <2>2, <2>4, <3>2
  <2>5. QED
    BY <2>3, <2>4
<1> HIDE DEF t
<1>6. \A j \in 1..Len(t) : j \in 1..Len(s) /\ j + 1 \in 1..Len(s) /\ (j < i => j # Len(s))
                            /\ (j + 1 = Len(s) => j = Len(t))
  BY <1>1, <1>4
<1>7. Thinner(X, s, t)
  BY <1>1, <1>4, <1>5, <1>6 DEF Thinner
<1>8. QED
  BY <1>7 DEF t, a, b, S!RemoveAt

-----------------------------------------------------------------------------
(* What the sender does at the end of a call, or without one.                *)

SlvT == [state : SlvStates, repeat : Nat, waiting : BOOLEAN, expired : BOOLEAN, index : Nat]
OutT == [state : MbStates, frame : Nat, expired : BOOLEAN]
Items == Requests \cup {Junk}

\* A step of the sender makes one call, or none.
Grows ==
  /\ slv' \in SlvT /\ out' \in OutT /\ pc' \in PCs
  /\ \/ pc' = "run" /\ toUnit' = toUnit
     \/ pc' # "run" /\ call' \in Sendable /\ toUnit' = Append(toUnit, Request(call'))

LEMMA CallsGrow ==
  ASSUME NEW c \in Sendable, NEW for \in PCs \ {"run"}, Calls(c, for),
         slv' \in SlvT, out' \in OutT
  PROVE  Grows
  BY DEF Calls, Grows

LEMMA NoCallGrows ==
  ASSUME NoCallMade, slv' \in SlvT, out' \in OutT
  PROVE  Grows
  BY DEF NoCallMade, Grows, PCs

LEMMA CallsAre ==
  {StatusCall, FwInfoCall, RebootCall, ForeignCall} \subseteq Sendable
  BY DEF Sendable

LEMMA RepeatedIs ==
  ASSUME NEW s \in SlvT, NEW again \in SlvT
  PROVE  Repeated(s, again) \in SlvT
<1>1. (IF s.repeat + 1 >= RepeatMax THEN "ABORT" ELSE s.state) \in SlvStates /\ s.repeat + 1 \in Nat
  BY DEF SlvT, SlvStates
<1>2. QED
  BY <1>1 DEF Repeated, SlvT

LEMMA SwitchGrows ==
  ASSUME NEW s \in SlvT, NEW o \in OutT, Switch(s, o)
  PROVE  Grows
<1>1. CASE SwitchRequest(s, o)
  <2>1. slv' \in SlvT /\ out' \in OutT /\ Calls(FwInfoCall, "fwinfo")
    BY <1>1 DEF SwitchRequest, SlvT, OutT
  <2>2. FwInfoCall \in Sendable /\ "fwinfo" \in PCs \ {"run"}
    BY CallsAre DEF PCs
  <2>3. QED
    BY <2>1, <2>2, CallsGrow
<1>2. CASE SwitchFwInfo(s, o)
  <2>1. slv' \in SlvT /\ out' \in OutT /\ NoCallMade
    BY <1>2, RepeatedIs DEF SwitchFwInfo, SetFirmware, OutT, MbStates
  <2>2. QED
    BY <2>1, NoCallGrows
<1>3. CASE SwitchSegment(s, o)
  <2>1. slv' \in SlvT /\ out' \in OutT /\ NoCallMade
    <3>1. [s EXCEPT !.waiting = TRUE] \in SlvT
      BY DEF SlvT
    <3>2. QED
      BY <1>3, <3>1, RepeatedIs DEF SwitchSegment, SetSegInfo, OutT, MbStates
  <2>2. QED
    BY <2>1, NoCallGrows
<1>4. CASE SwitchOther(s, o)
  <2>1. slv' \in SlvT /\ out' \in OutT /\ NoCallMade
    BY <1>4 DEF SwitchOther, SlvT, OutT, SlvStates, MbStates
  <2>2. QED
    BY <2>1, NoCallGrows
<1>5. CASE SwitchEnd(s, o)
  <2>1. slv' \in SlvT /\ out' \in OutT /\ NoCallMade
    BY <1>5 DEF SwitchEnd, SlvT, OutT, MbStates
  <2>2. QED
    BY <2>1, NoCallGrows
<1>6. QED
  BY <1>1, <1>2, <1>3, <1>4, <1>5 DEF Switch

\* What follows a read of the status, one line for each branch.
LEMMA StatusSteps ==
  ASSUME NEW status, AfterStatus(status)
  PROVE  \/ pc = "ready?" /\ Switch(ConfirmReady(slv, TRUE), Later)
         \/ pc \in {"ready?", "busy?", "failed?"} /\ Switch(slv, Later)
         \/ pc = "busy?" /\ Calls(InfoCall(slv), "info") /\ UNCHANGED <<slv, out, reported>>
         \/ pc = "finished?" /\ Switch(ConfirmFwInfo(slv, TRUE), out)
         \/ pc = "finished?" /\ Calls(StatusCall, "failed?") /\ UNCHANGED <<slv, out, reported>>
         \/ pc = "failed?" /\ Switch(ConfirmFwInfo(slv, FALSE), out)
         \/ Crash
<1>1. CASE pc = "ready?" /\ status = "IDLE"
  BY <1>1, Zenon DEF AfterStatus
<1>2. CASE pc = "ready?" /\ status \in {"BUSY", "UNKNOWN"}
  BY <1>2, Zenon DEF AfterStatus
<1>3. CASE pc = "busy?" /\ status = "BUSY"
  BY <1>3, Zenon DEF AfterStatus
<1>4. CASE pc = "busy?" /\ status \in {"IDLE", "UNKNOWN"}
  BY <1>4, Zenon DEF AfterStatus
<1>5. CASE pc = "finished?" /\ status = "FINISHED"
  BY <1>5, Zenon DEF AfterStatus
<1>6. CASE pc = "finished?" /\ status # "FINISHED"
  BY <1>6, Zenon DEF AfterStatus
<1>7. CASE pc = "failed?" /\ status = "FAILURE"
  BY <1>7, Zenon DEF AfterStatus
<1>8. CASE pc = "failed?" /\ status # "FAILURE"
  BY <1>8, Zenon DEF AfterStatus
<1>9. CASE /\ ~(pc = "ready?" /\ status = "IDLE") /\ ~(pc = "ready?" /\ status \in {"BUSY", "UNKNOWN"})
           /\ ~(pc = "busy?" /\ status = "BUSY") /\ ~(pc = "busy?" /\ status \in {"IDLE", "UNKNOWN"})
           /\ ~(pc = "finished?" /\ status = "FINISHED") /\ ~(pc = "finished?" /\ status # "FINISHED")
           /\ ~(pc = "failed?" /\ status = "FAILURE") /\ ~(pc = "failed?" /\ status # "FAILURE")
  BY <1>9, Zenon DEF AfterStatus
<1>10. QED
  BY <1>1, <1>2, <1>3, <1>4, <1>5, <1>6, <1>7, <1>8, <1>9

\* What follows a frame: the session is told of the last and of a failure.
NextFrame == [out EXCEPT !.frame = out.frame + 1]

LEMMA DataSteps ==
  ASSUME NEW result, AfterData(result)
  PROVE  \/ result # "NONE" /\ Switch(ConfirmSeg(slv, FALSE), out)
         \/ result = "NONE" /\ Switch(ConfirmSeg(slv, TRUE), NextFrame) /\ NextFrame.frame >= SegChunks[slv.index]
         \/ result = "NONE" /\ Switch(slv, NextFrame) /\ ~(NextFrame.frame >= SegChunks[slv.index])
<1>1. (CASE result # "NONE" -> Switch(ConfirmSeg(slv, FALSE), out)
         [] result = "NONE" /\ NextFrame.frame >= SegChunks[slv.index] -> Switch(ConfirmSeg(slv, TRUE), NextFrame)
         [] OTHER -> Switch(slv, NextFrame))
  BY Zenon DEF AfterData, NextFrame
<1>2. CASE result # "NONE"
  BY <1>1, <1>2, Zenon
<1>3. CASE result = "NONE" /\ NextFrame.frame >= SegChunks[slv.index]
  BY <1>1, <1>3, Zenon
<1>4. CASE result = "NONE" /\ ~(NextFrame.frame >= SegChunks[slv.index])
  BY <1>1, <1>4, Zenon
<1>5. QED
  BY <1>2, <1>3, <1>4

\* The end of a call, one line for each kind of call.
LEMMA EndSteps ==
  ASSUME NEW result, NEW status, Ends(result, status), pc \in PCs, pc # "run"
  PROVE  /\ executed' = Request(NoCall)
         /\ \/ /\ pc \in {"ready?", "busy?", "finished?", "failed?"}
               /\ AfterStatus(IF result = "NONE" THEN status ELSE "UNKNOWN")
            \/ pc = "data" /\ AfterData(result)
            \/ pc = "info" /\ AfterInfo(result)
            \/ pc = "fwinfo" /\ AfterFwInfo(result)
            \/ pc = "reboot" /\ AfterReboot(result)
            \/ pc = "app" /\ NoCallMade /\ UNCHANGED <<slv, out, reported>>
<1> DEFINE status1 == IF result = "NONE" THEN status ELSE "UNKNOWN"
<1>1. /\ executed' = Request(NoCall)
      /\ CASE pc \in {"ready?", "busy?", "finished?", "failed?"} -> AfterStatus(status1)
           [] pc = "data" -> AfterData(result)
           [] pc = "info" -> AfterInfo(result)
           [] pc = "fwinfo" -> AfterFwInfo(result)
           [] pc = "reboot" -> AfterReboot(result)
           [] pc = "app" -> NoCallMade /\ UNCHANGED <<slv, out, reported>>
  BY Zenon DEF Ends
<1> HIDE DEF status1
<1>2. CASE pc \in {"ready?", "busy?", "finished?", "failed?"}
  <2>1. pc # "data" /\ pc # "info" /\ pc # "fwinfo" /\ pc # "reboot" /\ pc # "app"
    BY <1>2
  <2>2. AfterStatus(status1)
    BY <1>1, <1>2, <2>1, Zenon
  <2>3. QED
    BY <1>1, <1>2, <2>2 DEF status1
<1>3. CASE pc = "data"
  BY <1>1, <1>3, Zenon
<1>4. CASE pc = "info"
  BY <1>1, <1>4, Zenon
<1>5. CASE pc = "fwinfo"
  BY <1>1, <1>5, Zenon
<1>6. CASE pc = "reboot"
  BY <1>1, <1>6, Zenon
<1>7. CASE pc = "app"
  BY <1>1, <1>7, Zenon
<1>8. QED
  BY <1>2, <1>3, <1>4, <1>5, <1>6, <1>7 DEF PCs

LEMMA SessionTypes ==
  ASSUME NEW s \in SlvT, NEW b \in BOOLEAN
  PROVE  ConfirmReady(s, b) \in SlvT /\ ConfirmFwInfo(s, b) \in SlvT /\ ConfirmSeg(s, b) \in SlvT
<1>1. ConfirmReady(s, b) \in SlvT /\ ConfirmFwInfo(s, b) \in SlvT
  BY DEF ConfirmReady, ConfirmFwInfo, SlvT, SlvStates
<1>2. ConfirmSeg(s, b) \in SlvT
  <2> DEFINE x == [s EXCEPT !.waiting = FALSE]
             y == [s EXCEPT !.index = s.index + 1, !.state = "SEND_FW_INFO",
                            !.expired = TRUE, !.waiting = FALSE, !.repeat = 0]
             z == [s EXCEPT !.index = s.index + 1, !.repeat = 0, !.expired = FALSE, !.waiting = FALSE]
  <2>1. x \in SlvT /\ y \in SlvT /\ z \in SlvT
    <3>1. s.index + 1 \in Nat /\ "SEND_FW_INFO" \in SlvStates
      BY DEF SlvT, SlvStates
    <3>2. PICK n \in Nat : n = s.index + 1
      BY <3>1
    <3>3. /\ x \in SlvT
          /\ [s EXCEPT !.index = n, !.state = "SEND_FW_INFO",
                       !.expired = TRUE, !.waiting = FALSE, !.repeat = 0] \in SlvT
          /\ [s EXCEPT !.index = n, !.repeat = 0, !.expired = FALSE, !.waiting = FALSE] \in SlvT
      BY <3>1 DEF SlvT
    <3>4. QED
      BY <3>2, <3>3
  <2>2. ConfirmSeg(s, b) = CASE ~b -> x [] b /\ s.index = Last -> y [] OTHER -> z
    BY Zenon DEF ConfirmSeg
  <2> HIDE DEF x, y, z
  <2>3. ConfirmSeg(s, b) \in {x, y, z}
    <3>1. CASE ~b
      BY <2>2, <3>1, Zenon
    <3>2. CASE b /\ s.index = Last
      BY <2>2, <3>2, Zenon
    <3>3. CASE b /\ s.index # Last
      BY <2>2, <3>3, Zenon
    <3>4. QED
      BY <3>1, <3>2, <3>3
  <2>4. QED
    BY <2>1, <2>3
<1>3. QED
  BY <1>1, <1>2

LEMMA OutputTypes ==
  ASSUME out \in OutT
  PROVE  Later \in OutT /\ NextFrame \in OutT
<1>1. out.frame + 1 \in Nat
  BY DEF OutT
<1>2. PICK n \in Nat : n = out.frame + 1
  BY <1>1
<1>3. Later \in OutT /\ [out EXCEPT !.frame = n] \in OutT
  BY DEF Later, OutT
<1>4. QED
  BY <1>2, <1>3 DEF NextFrame

\* The end of a call makes one call at most.
LEMMA EndsGrow ==
  ASSUME LineTypes, pc # "run", NEW result, NEW status, Ends(result, status)
  PROVE  Grows
<1>1. slv \in SlvT /\ out \in OutT /\ pc \in PCs /\ Later \in OutT /\ NextFrame \in OutT
  BY OutputTypes DEF LineTypes, SlvT, OutT
<1>2. UNCHANGED <<slv, out>> => slv' \in SlvT /\ out' \in OutT
  BY <1>1
<1>3. CASE \E st : AfterStatus(st)
  <2>1. PICK st : AfterStatus(st)
    BY <1>3
  <2>2. \/ \E s \in SlvT, o \in OutT : Switch(s, o)
        \/ Calls(InfoCall(slv), "info") /\ UNCHANGED <<slv, out>>
        \/ Calls(StatusCall, "failed?") /\ UNCHANGED <<slv, out>>
        \/ NoCallMade /\ UNCHANGED <<slv, out>>
    <3>1. ConfirmReady(slv, TRUE) \in SlvT /\ ConfirmFwInfo(slv, TRUE) \in SlvT
            /\ ConfirmFwInfo(slv, FALSE) \in SlvT
      BY <1>1, SessionTypes
    <3>2. QED
      BY <1>1, <2>1, <3>1, StatusSteps DEF Crash
  <2>3. InfoCall(slv) \in Sendable
    <3>1. slv.index \in Nat /\ InfoCall(slv) = InfoOf(slv.index)
      BY <1>1 DEF InfoCall, InfoOf, SlvT
    <3>2. QED
      BY <3>1, InfoIs
  <2>4. StatusCall \in Sendable /\ {"info", "failed?"} \subseteq PCs \ {"run"}
    BY CallsAre DEF PCs
  <2>5. QED
    BY <1>2, <2>2, <2>3, <2>4, SwitchGrows, CallsGrow, NoCallGrows
<1>4. CASE AfterData(result)
  <2>1. ConfirmSeg(slv, TRUE) \in SlvT /\ ConfirmSeg(slv, FALSE) \in SlvT
    BY <1>1, SessionTypes
  <2>2. QED
    BY <1>1, <1>4, <2>1, DataSteps, SwitchGrows
<1>5. CASE AfterInfo(result)
  <2>1. [out EXCEPT !.state = "SEG_DATA", !.frame = 0] \in OutT
    BY <1>1 DEF OutT, MbStates
  <2>2. \E o \in OutT : Switch(slv, o)
    BY <1>1, <1>5, <2>1 DEF AfterInfo
  <2>3. QED
    BY <1>1, <2>2, SwitchGrows
<1>6. Requested \in SlvT
  BY <1>1 DEF Requested, SlvT, SlvStates
<1>7. CASE AfterFwInfo(result)
  <2>1. RebootCall \in Sendable /\ "reboot" \in PCs \ {"run"}
    BY CallsAre DEF PCs
  <2>2. \/ Calls(RebootCall, "reboot") /\ UNCHANGED <<slv, out>>
        \/ slv' = Requested /\ out' = out /\ NoCallMade
    BY <1>7 DEF AfterFwInfo
  <2>3. QED
    BY <1>1, <1>2, <1>6, <2>1, <2>2, CallsGrow, NoCallGrows
<1>8. CASE AfterReboot(result)
  <2>1. slv' \in SlvT /\ out' \in OutT /\ NoCallMade
    BY <1>1, <1>6, <1>8 DEF AfterReboot, OutT, MbStates
  <2>2. QED
    BY <2>1, NoCallGrows
<1>9. CASE NoCallMade /\ UNCHANGED <<slv, out, reported>>
  BY <1>2, <1>9, NoCallGrows
<1>10. QED
  BY <1>1, <1>3, <1>4, <1>5, <1>7, <1>8, <1>9, EndSteps

-----------------------------------------------------------------------------
(* The line under each action.                                               *)

LEMMA ReplyIs ==
  ASSUME NEW f, NEW err \in {0, -2}, NEW d
  PROVE  \/ err = 0 /\ Reply(f, err, d) = Answer(f, d)
         \/ err # 0 /\ Reply(f, err, d) = Exception(f, DEVICE_FAILURE)
<1>1. CASE err = 0
  <2>1. ~(err \in 1..4)
    BY <1>1, SMT
  <2>2. QED
    BY <1>1, <2>1, Zenon DEF Reply
<1>2. CASE err = -2
  <2>1. err # 0 /\ ~(err \in 1..4)
    BY <1>2, SMT
  <2>2. QED
    BY <2>1, Zenon DEF Reply
<1>3. QED
  BY <1>1, <1>2

LEMMA CallbackIs ==
  ASSUME NEW f
  PROVE  Callback(f).err \in {0, -2}
<1>1. FileType(f.data).err = 0
  BY DEF FileType
<1>2. FileFrame(f.data, f.qty).err \in {0, -2}
  BY DEF FileFrame
<1>3. QED
  BY <1>1, <1>2 DEF Callback

\* Nothing is answered but with these.
LEMMA AnswersAre ==
  ASSUME NEW f \in Requests
  PROVE  /\ \A code \in {ILLEGAL_FUNCTION, DEVICE_FAILURE} : Exception(f, code) \in Replies
         /\ \A d \in Read(f) : d \in Contents /\ Answer(f, d) \in Replies
  BY DEF Replies, Read, Contents

LEMMA LineTypesKept ==
  ASSUME LineTypes, slv' \in SlvT, out' \in OutT, toUnit' \in Seq(Items),
         toClient' \in Seq(Replies \cup {Junk}), pc' \in PCs, pc' # "run" => call' \in Sendable,
         inStep' \in BOOLEAN
  PROVE  LineTypes'
  BY DEF LineTypes, SlvT, OutT, Items

LEMMA LineTypesAre ==
  ASSUME LineTypes
  PROVE  /\ slv \in SlvT /\ out \in OutT /\ toUnit \in Seq(Items) /\ Len(toUnit) \in Nat
         /\ toClient \in Seq(Replies \cup {Junk}) /\ Len(toClient) \in Nat
         /\ pc \in PCs /\ (pc # "run" => call \in Sendable) /\ inStep \in BOOLEAN
  BY DEF LineTypes, SlvT, OutT, Items

LEMMA ItemsAre ==
  /\ Junk \in Items /\ \A f \in Items : f # Junk => f \in Requests
  /\ \A c \in Sendable : Request(c) \in Items /\ Request(c) \in Requests
  /\ \A f \in Items : f.kind = "request" => f \in Requests
  /\ \A r \in Replies \cup {Junk} : r.kind = "answer" => r \in Replies
<1>1. Junk.kind # "request" /\ Junk.kind # "answer"
  BY DEF Junk
<1>2. QED
  BY <1>1 DEF Items, Requests

\* What leaves only the rest of a line on it, or one item of it, leaves it quiet.
LEMMA StaysQuiet ==
  ASSUME LineTypes, QuietLine, UNCHANGED <<pc, call, executed>>,
         toUnit' = toUnit \/ Thinner(Items, toUnit, toUnit'),
         toClient' = toClient \/ Thinner(Replies \cup {Junk}, toClient, toClient')
  PROVE  QuietLine'
<1>1. toUnit \in Seq(Items) /\ toClient \in Seq(Replies \cup {Junk})
  BY LineTypesAre
<1>2. toClient = <<>> => toClient' = <<>>
  <2>1. SUFFICES ASSUME toClient = <<>>, Thinner(Replies \cup {Junk}, toClient, toClient')
                 PROVE  toClient' = <<>>
    OBVIOUS
  <2>2. toClient' \in Seq(Replies \cup {Junk}) /\ Len(toClient') <= 0
    BY <2>1 DEF Thinner
  <2>3. QED
    BY <2>2
<1>3. ASSUME NEW j \in 1..Len(toUnit') PROVE Noise(toUnit'[j]) \/ Asked(j)'
  <2>1. CASE toUnit' = toUnit
    <3>1. Noise(toUnit[j]) \/ Asked(j)
      BY <2>1 DEF QuietLine
    <3>2. QED
      BY <1>2, <2>1, <3>1 DEF Asked
  <2>2. CASE Thinner(Items, toUnit, toUnit')
    <3>1. CASE toUnit'[j] = Junk
      BY <3>1 DEF Noise
    <3>2. CASE \E i \in 1..Len(toUnit) : toUnit'[j] = toUnit[i] /\ (i = Len(toUnit) => j = Len(toUnit'))
      <4>1. PICK i \in 1..Len(toUnit) : toUnit'[j] = toUnit[i] /\ (i = Len(toUnit) => j = Len(toUnit'))
        BY <3>2
      <4>2. Noise(toUnit[i]) \/ Asked(i)
        BY DEF QuietLine
      <4>3. QED
        BY <1>2, <4>1, <4>2 DEF Asked
    <3>3. QED
      BY <2>2, <3>1, <3>2 DEF Thinner
  <2>3. QED
    BY <2>1, <2>2
<1>4. toClient' # <<>> => pc' # "run" /\ Len(toClient') = 1 /\ OwnAnswer(call, toClient[1])'
  <2>1. SUFFICES ASSUME toClient' # <<>>, toClient # <<>>, Thinner(Replies \cup {Junk}, toClient, toClient')
                 PROVE  pc' # "run" /\ Len(toClient') = 1 /\ OwnAnswer(call, toClient[1])'
    BY <1>2 DEF QuietLine, OwnAnswer
  <2>2. pc # "run" /\ Len(toClient) = 1 /\ OwnAnswer(call, toClient[1])
    BY <2>1 DEF QuietLine
  <2>3. Len(toClient') = 1
    <3>1. toClient' \in Seq(Replies \cup {Junk}) /\ Len(toClient') <= 1
      BY <2>1, <2>2 DEF Thinner
    <3>2. Len(toClient') \in Nat /\ Len(toClient') # 0
      BY <2>1, <3>1, EmptyIs
    <3>3. QED
      BY <3>1, <3>2
  <2>4. toClient'[1] = Junk \/ toClient'[1] = toClient[1]
    BY <2>1, <2>2, <2>3 DEF Thinner
  <2>5. QED
    BY <2>2, <2>3, <2>4 DEF OwnAnswer
<1>5. QED
  BY <1>3, <1>4 DEF QuietLine

\* When nothing is left of earlier calls, one more call is all there is.
LEMMA GrowsQuiet ==
  ASSUME LineTypes, Grows, toClient' = <<>>,
         \A i \in 1..Len(toUnit) : Noise(toUnit[i])
  PROVE  QuietLine'
<1>1. toUnit \in Seq(Items) /\ Len(toUnit) \in Nat
  BY LineTypesAre
<1>2. CASE toUnit' = toUnit
  BY <1>2 DEF QuietLine
<1>3. CASE pc' # "run" /\ call' \in Sendable /\ toUnit' = Append(toUnit, Request(call'))
  <2>1. Request(call') \in Items
    BY <1>3, ItemsAre
  <2>2. /\ Len(toUnit') = Len(toUnit) + 1 /\ toUnit'[Len(toUnit) + 1] = Request(call')
        /\ \A i \in 1..Len(toUnit) : toUnit'[i] = toUnit[i]
    BY <1>1, <1>3, <2>1, AppendedIs
  <2>3. ASSUME NEW i \in 1..Len(toUnit') PROVE Noise(toUnit'[i]) \/ Asked(i)'
    <3>1. CASE i \in 1..Len(toUnit)
      BY <2>2, <3>1
    <3>2. CASE i = Len(toUnit')
      BY <1>3, <2>2, <3>2 DEF Asked
    <3>3. QED
      BY <1>1, <2>2, <3>1, <3>2
  <2>4. QED
    BY <2>3 DEF QuietLine
<1>4. QED
  BY <1>2, <1>3 DEF Grows

LEMMA GrowsTypes ==
  ASSUME LineTypes, Grows
  PROVE  /\ slv' \in SlvT /\ out' \in OutT /\ pc' \in PCs
         /\ pc' # "run" => call' \in Sendable
         /\ toUnit' \in Seq(Items)
<1>1. toUnit \in Seq(Items)
  BY LineTypesAre
<1>2. \A c \in Sendable : Append(toUnit, Request(c)) \in Seq(Items)
  BY <1>1, ItemsAre, AppendedIs
<1>3. QED
  BY <1>1, <1>2 DEF Grows

\* Between two calls nothing but noise is on a quiet line.
LEMMA QuietBetween ==
  ASSUME QuietLine, pc = "run"
  PROVE  toClient = <<>> /\ \A i \in 1..Len(toUnit) : Noise(toUnit[i])
  BY DEF QuietLine, Asked

LEMMA SwitchesLine ==
  ASSUME LineInv, DataFits, OutputSkips \/ OutputCalls
  PROVE  LineInv'
<1>1. LineTypes /\ pc = "run" /\ toClient' = toClient /\ inStep' = inStep
  BY DEF LineInv, OutputSkips, OutputCalls, Running, trouble
<1>2. slv \in SlvT /\ out \in OutT
  BY <1>1, LineTypesAre
<1>3. Grows
  <2>1. CASE Switch(slv, out)
    BY <1>2, <2>1, SwitchGrows
  <2>2. CASE OutputCalls
    <3>1. StatusCall \in Sendable /\ {"ready?", "busy?", "finished?", "data"} \subseteq PCs \ {"run"}
      BY CallsAre DEF PCs
    <3>2. out.state = "SEG_DATA" => DataCall(slv, out) \in Sendable
      <4>1. /\ out.state = "SEG_DATA" => slv.index \in 1..Last /\ out.frame \in 0..SegChunks[slv.index] - 1
            /\ DataCall(slv, out) = DataOf(slv.index, out.frame)
        BY <2>2 DEF DataFits, OutputCalls, DataCall, DataOf
      <4>2. QED
        BY <4>1, DataIs
    <3>3. /\ slv' \in SlvT /\ out' \in OutT
          /\ \E c \in Sendable, for \in PCs \ {"run"} : Calls(c, for)
      BY <1>2, <2>2, <3>1, <3>2 DEF OutputCalls
    <3>4. QED
      BY <3>3, CallsGrow
  <2>3. QED
    BY <2>1, <2>2 DEF OutputSkips
<1>4. LineTypes'
  BY <1>1, <1>3, LineTypesAre, GrowsTypes, LineTypesKept
<1>5. inStep => QuietLine'
  BY <1>1, <1>3, QuietBetween, GrowsQuiet DEF LineInv
<1>6. QED
  BY <1>1, <1>4, <1>5 DEF LineInv

LEMMA TimersLine ==
  ASSUME LineInv, OutputTimer \/ SlaveTimer
  PROVE  LineInv'
<1>1. LineTypes /\ UNCHANGED <<mbVars, inStep>>
  BY DEF LineInv, OutputTimer, SlaveTimer, trouble
<1>2. slv' \in SlvT /\ out' \in OutT
  BY <1>1, LineTypesAre DEF OutputTimer, SlaveTimer, SlvT, OutT
<1>3. LineTypes'
  BY <1>1, <1>2, LineTypesAre, LineTypesKept DEF mbVars
<1>4. QuietLine => QuietLine'
  BY <1>1 DEF mbVars, QuietLine, Asked, OwnAnswer
<1>5. QED
  BY <1>1, <1>3, <1>4 DEF LineInv

LEMMA HearsLine ==
  ASSUME LineInv, Hears
  PROVE  LineInv'
<1>1. LineTypes /\ pc # "run" /\ toClient # <<>>
  BY DEF LineInv, Hears
<1> DEFINE r == Head(toClient)
           early == RefusedEarly(call, r)
<1>2. /\ toClient' = (IF early /\ InFlight <= MaxLine THEN <<Junk>> ELSE <<>>) \o Tail(toClient)
      /\ inStep' = (inStep /\ ~early)
      /\ \E status : Ends(Outcome(call, r), status)
  BY DEF Hears
<1>3. Grows
  BY <1>1, <1>2, EndsGrow
<1>4. /\ toClient \in Seq(Replies \cup {Junk}) /\ Len(toClient) \in Nat \ {0} /\ Junk \in Replies \cup {Junk}
      /\ Tail(toClient) \in Seq(Replies \cup {Junk}) /\ Len(Tail(toClient)) = Len(toClient) - 1
  BY <1>1, LineTypesAre, TailIs
<1> HIDE DEF r, early
<1>5. toClient' \in Seq(Replies \cup {Junk})
  <2>1. toClient' = <<Junk>> \o Tail(toClient) \/ toClient' = <<>> \o Tail(toClient)
    BY <1>2
  <2>2. <<Junk>> \o Tail(toClient) \in Seq(Replies \cup {Junk})
    BY <1>4, AheadIs
  <2>3. <<>> \o Tail(toClient) = Tail(toClient)
    BY <1>4, ConcatEmptySeq
  <2>4. QED
    BY <1>4, <2>1, <2>2, <2>3
<1>6. inStep' \in BOOLEAN
  <2>1. CASE early
    BY <1>2, <2>1
  <2>2. CASE ~early
    BY <1>1, <1>2, <2>2, LineTypesAre
  <2>3. QED
    BY <2>1, <2>2
<1>7. LineTypes'
  BY <1>1, <1>3, <1>5, <1>6, LineTypesAre, GrowsTypes, LineTypesKept
<1>8. ASSUME inStep' PROVE QuietLine'
  <2>1. inStep /\ ~early
    BY <1>2, <1>8
  <2>2. QuietLine /\ Len(toClient) = 1
    BY <1>1, <2>1 DEF LineInv, QuietLine
  <2>3. Tail(toClient) = <<>>
    <3>1. Len(Tail(toClient)) = 0
      BY <1>4, <2>2
    <3>2. QED
      BY <1>4, <3>1, EmptyIs
  <2>4. toClient' = <<>>
    BY <1>2, <2>1, <2>3
  <2>5. \A i \in 1..Len(toUnit) : Noise(toUnit[i])
    BY <1>1, <2>2 DEF QuietLine, Asked
  <2>6. QED
    BY <1>1, <1>3, <2>4, <2>5, GrowsQuiet
<1>9. QED
  BY <1>7, <1>8 DEF LineInv

LEMMA HearsJunkLine ==
  ASSUME LineInv, HearsJunk
  PROVE  LineInv'
<1>1. LineTypes /\ pc # "run" /\ toClient # <<>> /\ toClient' \in Garbled(toClient) /\ inStep' = FALSE
      /\ Ends("INVALID_RESPONSE", "IDLE")
  BY DEF LineInv, HearsJunk
<1>2. Grows
  BY <1>1, EndsGrow
<1>3. toClient' \in Seq(Replies \cup {Junk})
  BY <1>1, LineTypesAre, GarbledThinner DEF Thinner
<1>4. LineTypes'
  BY <1>1, <1>2, <1>3, LineTypesAre, GrowsTypes, LineTypesKept
<1>5. QED
  BY <1>1, <1>4 DEF LineInv

LEMMA TimesOutLine ==
  ASSUME LineInv, TimesOut
  PROVE  LineInv'
<1>1. /\ LineTypes /\ pc # "run" /\ Ends("TIMEOUT", "IDLE") /\ toClient' = toClient
      /\ \/ toClient = <<>> /\ toUnit = <<>> /\ inStep' = inStep
         \/ inStep' = FALSE
  BY DEF LineInv, TimesOut, AnswerMayCome
<1>2. Grows
  BY <1>1, EndsGrow
<1>3. inStep' \in BOOLEAN
  BY <1>1, LineTypesAre
<1>4. LineTypes'
  BY <1>1, <1>2, <1>3, LineTypesAre, GrowsTypes, LineTypesKept
<1>5. ASSUME inStep' PROVE QuietLine'
  <2>1. toClient' = <<>> /\ toUnit = <<>>
    BY <1>1, <1>5
  <2>2. \A i \in 1..Len(toUnit) : Noise(toUnit[i])
    BY <2>1
  <2>3. QED
    BY <1>1, <1>2, <2>1, <2>2, GrowsQuiet
<1>6. QED
  BY <1>4, <1>5 DEF LineInv

\* An item of another user's on the line, to another unit or with a call.
LEMMA NoiseAppended ==
  ASSUME LineTypes, QuietLine, NEW f \in Items, Noise(f), toUnit' = Append(toUnit, f),
         pc = "run", UNCHANGED <<pc, call, toClient, executed>>
  PROVE  QuietLine'
<1>1. toUnit \in Seq(Items) /\ Len(toUnit) \in Nat
  BY LineTypesAre
<1>2. /\ Len(toUnit') = Len(toUnit) + 1 /\ toUnit'[Len(toUnit) + 1] = f
      /\ \A i \in 1..Len(toUnit) : toUnit'[i] = toUnit[i]
  BY <1>1, AppendedIs
<1>3. toClient' = <<>> /\ \A i \in 1..Len(toUnit) : Noise(toUnit[i])
  BY QuietBetween
<1>4. \A i \in 1..Len(toUnit') : Noise(toUnit'[i])
  <2>1. TAKE i \in 1..Len(toUnit')
  <2>2. CASE i \in 1..Len(toUnit)
    BY <1>2, <1>3, <2>2
  <2>3. CASE i = Len(toUnit) + 1
    BY <1>2, <2>3
  <2>4. QED
    BY <1>1, <1>2, <2>2, <2>3
<1>5. QED
  BY <1>3, <1>4 DEF QuietLine

LEMMA AppLine ==
  ASSUME LineInv, AppCall
  PROVE  LineInv'
<1>1. LineTypes /\ pc = "run" /\ UNCHANGED <<slv, out, toClient, executed, inStep>>
  BY DEF LineInv, AppCall, Running
<1>2. slv' \in SlvT /\ out' \in OutT /\ toUnit \in Seq(Items)
  BY <1>1, LineTypesAre
<1>3. PICK c \in AppCalls :
        \/ UNCHANGED <<pc, call, toUnit>>
        \/ ~ClientRefuses(c) /\ Calls(c, "app")
        \/ ~ClientRefuses(c) /\ ~WaitsForAnswer(c)
             /\ toUnit' = Append(toUnit, Request(c)) /\ UNCHANGED <<pc, call>>
  BY DEF AppCall
<1>4. CASE UNCHANGED <<pc, call, toUnit>>
  <2>1. LineTypes'
    BY <1>1, <1>2, <1>4, LineTypesAre, LineTypesKept
  <2>2. QuietLine => QuietLine'
    BY <1>1, <1>4 DEF QuietLine, Asked, OwnAnswer
  <2>3. QED
    BY <1>1, <2>1, <2>2 DEF LineInv
<1>5. CASE ~ClientRefuses(c) /\ Calls(c, "app")
  <2>1. c \in Sendable /\ "app" \in PCs \ {"run"}
    BY <1>5 DEF Sendable, PCs
  <2>2. Grows
    BY <1>2, <1>5, <2>1, CallsGrow
  <2>3. LineTypes'
    BY <1>1, <2>2, LineTypesAre, GrowsTypes, LineTypesKept
  <2>4. inStep => QuietLine'
    BY <1>1, <2>2, QuietBetween, GrowsQuiet DEF LineInv
  <2>5. QED
    BY <1>1, <2>3, <2>4 DEF LineInv
<1>6. CASE /\ ~ClientRefuses(c) /\ ~WaitsForAnswer(c)
           /\ toUnit' = Append(toUnit, Request(c)) /\ UNCHANGED <<pc, call>>
  <2>1. c \in Sendable
    BY <1>6 DEF Sendable
  <2>2. Request(c) \in Items /\ toUnit' \in Seq(Items)
    BY <1>2, <1>6, <2>1, ItemsAre, AppendedIs
  <2>3. Noise(Request(c))
    <3>1. c.unit = 0
      BY <1>6, Zenon DEF WaitsForAnswer
    <3>2. Request(c).unit = 0
      BY <3>1, RequestIs, Zenon
    <3>3. Unit # 0
      BY ModbusAssumption
    <3>4. QED
      BY <3>2, <3>3, Zenon DEF Noise
  <2>4. LineTypes'
    BY <1>1, <1>2, <1>6, <2>2, LineTypesAre, LineTypesKept
  <2>5. inStep => QuietLine'
    BY <1>1, <1>6, <2>2, <2>3, NoiseAppended DEF LineInv
  <2>6. QED
    BY <1>1, <2>4, <2>5 DEF LineInv
<1>7. QED
  BY <1>3, <1>4, <1>5, <1>6

LEMMA ForeignLine ==
  ASSUME LineInv, ForeignFrame
  PROVE  LineInv'
<1>1. /\ LineTypes /\ pc = "run" /\ UNCHANGED <<slv, out, pc, call, toClient, executed, inStep>>
      /\ toUnit' = Append(toUnit, Request(ForeignCall))
  BY DEF LineInv, ForeignFrame, ForeignCall
<1>2. slv' \in SlvT /\ out' \in OutT /\ toUnit \in Seq(Items)
  BY <1>1, LineTypesAre
<1>3. Request(ForeignCall) \in Items /\ toUnit' \in Seq(Items)
  BY <1>1, <1>2, CallsAre, ItemsAre, AppendedIs
<1>4. Noise(Request(ForeignCall))
  <2>1. (Unit % 255) + 1 # Unit
    BY ModbusAssumption, SmallUnits
  <2>2. ForeignCall.unit = (Unit % 255) + 1
    BY DEF ForeignCall, Call
  <2>3. QED
    BY <2>1, <2>2, RequestIs DEF Noise
<1>5. LineTypes'
  BY <1>1, <1>2, <1>3, LineTypesAre, LineTypesKept
<1>6. inStep => QuietLine'
  BY <1>1, <1>3, <1>4, NoiseAppended DEF LineInv
<1>7. QED
  BY <1>1, <1>5, <1>6 DEF LineInv

\* An item taken from the line of a request the server serves.
LEMMA ServesLine ==
  ASSUME LineInv, Serves
  PROVE  LineInv'
<1>1. /\ LineTypes /\ toUnit # <<>> /\ Head(toUnit).kind = "request" /\ ~LeavesRest(Unit, Head(toUnit))
      /\ toUnit' = Tail(toUnit) /\ UNCHANGED <<slv, out, pc, call, inStep>>
  BY DEF LineInv, Serves, Polls, trouble
<1> DEFINE f == Head(toUnit)
           code == Refusal(f, f.fc \in Served)
<1>2. /\ toUnit \in Seq(Items) /\ toClient \in Seq(Replies \cup {Junk})
      /\ Len(toUnit) \in Nat \ {0} /\ f = toUnit[1] /\ f \in Items
      /\ Tail(toUnit) \in Seq(Items) /\ Len(Tail(toUnit)) = Len(toUnit) - 1
  BY <1>1, LineTypesAre, TailIs
<1>3. f \in Requests /\ f.unit = Unit
  BY <1>1, <1>2, ItemsAre DEF LeavesRest
<1>4. code \in {0, ILLEGAL_FUNCTION}
  <2>1. PICK c \in Sendable : f = Request(c)
    BY <1>3 DEF Requests
  <2>2. (f.fc \in Served) \in BOOLEAN
    OBVIOUS
  <2>3. code = Asks(f.fc \in Served)
    BY <2>1, <2>2, NothingToRefuse
  <2>4. QED
    BY <2>3 DEF Asks
<1>5. \/ code # 0 /\ toClient' = Append(toClient, Exception(f, code)) /\ executed' = executed
      \/ \E d \in Read(f) :
           /\ executed' = (IF pc = "run" THEN executed ELSE f)
           /\ toClient' = Append(toClient, Reply(f, Callback(f).err, d))
  BY DEF Serves
<1> HIDE DEF code
<1>6. \E x : /\ toClient' = Append(toClient, x)
             /\ \/ \E code1 \in {ILLEGAL_FUNCTION, DEVICE_FAILURE} : x = Exception(f, code1)
                \/ /\ executed' = (IF pc = "run" THEN executed ELSE f)
                   /\ \E d \in Read(f) : x = Answer(f, d)
  <2>1. CASE code # 0 /\ toClient' = Append(toClient, Exception(f, code))
    BY <1>4, <2>1
  <2>2. CASE \E d \in Read(f) :
               /\ executed' = (IF pc = "run" THEN executed ELSE f)
               /\ toClient' = Append(toClient, Reply(f, Callback(f).err, d))
    <3>1. PICK d \in Read(f) :
               /\ executed' = (IF pc = "run" THEN executed ELSE f)
               /\ toClient' = Append(toClient, Reply(f, Callback(f).err, d))
      BY <2>2
    <3>2. Callback(f).err \in {0, -2}
      BY CallbackIs
    <3>3. \/ Reply(f, Callback(f).err, d) = Answer(f, d)
          \/ Reply(f, Callback(f).err, d) = Exception(f, DEVICE_FAILURE)
      BY <3>2, ReplyIs
    <3>4. QED
      BY <3>1, <3>3
  <2>3. QED
    BY <1>5, <2>1, <2>2
<1>7. PICK x : /\ toClient' = Append(toClient, x)
               /\ \/ \E code1 \in {ILLEGAL_FUNCTION, DEVICE_FAILURE} : x = Exception(f, code1)
                  \/ /\ executed' = (IF pc = "run" THEN executed ELSE f)
                     /\ \E d \in Read(f) : x = Answer(f, d)
  BY <1>6
<1>8. x \in Replies /\ \A d \in Read(f) : d \in Contents
  BY <1>3, <1>7, AnswersAre
<1>9. toClient' \in Seq(Replies \cup {Junk}) /\ Len(toClient') = Len(toClient) + 1
        /\ toClient'[Len(toClient) + 1] = x
  BY <1>2, <1>7, <1>8, AppendedIs
<1>10. LineTypes'
  BY <1>1, <1>2, <1>9, LineTypesAre, LineTypesKept
<1>11. ASSUME inStep PROVE QuietLine'
  <2>1. QuietLine /\ ~Noise(toUnit[1])
    <3>1. Junk.kind # "request"
      BY DEF Junk
    <3>2. QED
      BY <1>1, <1>2, <1>3, <1>11, <3>1 DEF LineInv, Noise
  <2>2. Asked(1)
    BY <1>2, <2>1 DEF QuietLine
  <2>3. Len(toUnit) = 1 /\ pc # "run" /\ f = Request(call) /\ toClient = <<>>
    BY <1>2, <2>2 DEF Asked
  <2>4. toUnit' = <<>>
    BY <1>1, <1>2, <2>3, EmptyIs
  <2>5. Len(toClient') = 1 /\ toClient'[1] = x
    BY <1>9, <2>3
  <2>6. OwnAnswer(call, toClient[1])'
    <3>1. CASE \E code1 \in {ILLEGAL_FUNCTION, DEVICE_FAILURE} : x = Exception(f, code1)
      BY <1>1, <2>3, <2>5, <3>1 DEF OwnAnswer
    <3>2. CASE /\ executed' = (IF pc = "run" THEN executed ELSE f)
               /\ \E d \in Read(f) : x = Answer(f, d)
      <4>1. executed' = Request(call') /\ \E d \in Contents : x = Answer(Request(call'), d)
        BY <1>1, <1>8, <2>3, <3>2
      <4>2. QED
        BY <2>5, <4>1 DEF OwnAnswer
    <3>3. QED
      BY <1>7, <3>1, <3>2
  <2>7. Len(toUnit') = 0
    BY <2>4
  <2>8. \A i \in 1..Len(toUnit') : FALSE
    BY <2>7
  <2>9. QED
    BY <1>1, <2>3, <2>5, <2>6, <2>8 DEF QuietLine
<1>12. QED
  BY <1>1, <1>10, <1>11 DEF LineInv

LEMMA PollsPastLine ==
  ASSUME LineInv, PollsPast
  PROVE  LineInv'
<1>1. /\ LineTypes /\ toUnit # <<>> /\ UNCHANGED <<slv, out, pc, call, toClient, executed, inStep>>
      /\ toUnit' = <<Junk>> \o Tail(toUnit) \/ toUnit' \in Garbled(toUnit)
  BY DEF LineInv, PollsPast, Polls, trouble
<1>2. toUnit \in Seq(Items) /\ Junk \in Items
  BY <1>1, LineTypesAre, ItemsAre
<1>3. Thinner(Items, toUnit, toUnit')
  BY <1>1, <1>2, RestThinner, GarbledThinner
<1>4. LineTypes'
  BY <1>1, <1>3, LineTypesAre, LineTypesKept DEF Thinner
<1>5. inStep => QuietLine'
  BY <1>1, <1>3, StaysQuiet DEF LineInv
<1>6. QED
  BY <1>1, <1>4, <1>5 DEF LineInv

LEMMA SpoiltLines ==
  ASSUME LineTypes, Spoils
  PROVE  /\ toUnit' = toUnit \/ Thinner(Items, toUnit, toUnit')
         /\ toClient' = toClient \/ Thinner(Replies \cup {Junk}, toClient, toClient')
<1>1. /\ toUnit \in Seq(Items) /\ Junk \in Items
      /\ toClient \in Seq(Replies \cup {Junk}) /\ Junk \in Replies \cup {Junk}
  BY LineTypesAre, ItemsAre
<1>2. DOMAIN toUnit = 1..Len(toUnit) /\ DOMAIN toClient = 1..Len(toClient)
  BY <1>1
<1>3. CASE /\ toClient' = toClient
           /\ \E i \in 1..Len(toUnit) : \/ toUnit' = [toUnit EXCEPT ![i] = Junk]
                                        \/ toUnit' = S!RemoveAt(toUnit, i)
  BY <1>1, <1>3, SpoiltThinner, RemovedThinner
<1>4. CASE /\ toUnit' = toUnit
           /\ \E i \in 1..Len(toClient) : \/ toClient' = [toClient EXCEPT ![i] = Junk]
                                          \/ toClient' = S!RemoveAt(toClient, i)
  BY <1>1, <1>4, SpoiltThinner, RemovedThinner
<1>5. QED
  BY <1>2, <1>3, <1>4 DEF Spoils

LEMMA SpoilsLine ==
  ASSUME LineInv, Spoils
  PROVE  LineInv'
<1>1. LineTypes /\ UNCHANGED <<slv, out, pc, call, executed, inStep>>
  BY DEF LineInv, Spoils
<1>2. /\ toUnit' = toUnit \/ Thinner(Items, toUnit, toUnit')
      /\ toClient' = toClient \/ Thinner(Replies \cup {Junk}, toClient, toClient')
  BY <1>1, SpoiltLines
<1>3. toUnit' \in Seq(Items) /\ toClient' \in Seq(Replies \cup {Junk})
  BY <1>1, <1>2, LineTypesAre DEF Thinner
<1>4. LineTypes'
  BY <1>1, <1>3, LineTypesAre, LineTypesKept
<1>5. inStep => QuietLine'
  BY <1>1, <1>2, StaysQuiet DEF LineInv
<1>6. QED
  BY <1>1, <1>4, <1>5 DEF LineInv

LEMMA DeviceLine ==
  ASSUME LineInv, Takes \/ Completes
  PROVE  LineInv'
<1>1. UNCHANGED <<slv, out, mbVars, inStep>>
  BY DEF Takes, Completes, trouble
<1>2. QED
  BY <1>1 DEF mbVars, LineInv, LineTypes, QuietLine, Asked, OwnAnswer

LEMMA LineInit == MbInit => LineInv
<1>1. SUFFICES ASSUME MbInit PROVE LineInv
  OBVIOUS
<1>2. LineTypes
  BY <1>1 DEF MbInit, LineTypes, SlvStates, MbStates, PCs
<1>3. QuietLine
  BY <1>1 DEF MbInit, QuietLine
<1>4. QED
  BY <1>2, <1>3 DEF LineInv

LEMMA LineStep == LineInv /\ DataFits /\ [Next]_vars => LineInv'
<1>1. SUFFICES ASSUME LineInv, DataFits, [Next]_vars PROVE LineInv'
  OBVIOUS
<1>2. CASE UNCHANGED vars
  BY <1>1, <1>2 DEF vars, mbVars, trouble, LineInv, LineTypes, QuietLine, Asked, OwnAnswer
<1>3. CASE Next
  BY <1>1, <1>3, SwitchesLine, TimersLine, HearsLine, HearsJunkLine, TimesOutLine, AppLine, ForeignLine,
     ServesLine, PollsPastLine, SpoilsLine, DeviceLine DEF Next, Master, Device
<1>4. QED
  BY <1>1, <1>2, <1>3

-----------------------------------------------------------------------------
(* What the line shows of the client and the server.                         *)

\* An answer with a function code above 128 is an exception, with one of the
\* two codes the server has left.
LEMMA ExceptionsAre ==
  ASSUME NEW r \in Replies
  PROVE  r.fc > 128 => r.qty \notin {ILLEGAL_DATA_ADDRESS, ILLEGAL_DATA_VALUE}
<1>1. \A f \in Requests : f.fc \in 1..21
  <2>1. TAKE f \in Requests
  <2>2. PICK c \in Sendable : f = Request(c)
    BY DEF Requests
  <2>3. f.fc \in KnownCodes
    BY <2>2, SendableIs, RequestIs DEF CallShape
  <2>4. QED
    BY <2>3 DEF KnownCodes, ReadBits, ReadRegs, WriteOne, WriteBits, WriteRegs, ReadFile, WriteFile
<1>2. CASE \E f \in Requests : \E code \in {ILLEGAL_FUNCTION, DEVICE_FAILURE} : r = Exception(f, code)
  BY <1>2, SMT DEF Exception, ILLEGAL_FUNCTION, DEVICE_FAILURE, ILLEGAL_DATA_ADDRESS, ILLEGAL_DATA_VALUE
<1>3. CASE \E f \in Requests : \E d \in Contents : r = Answer(f, d)
  <2>1. PICK f \in Requests, d \in Contents : r = Answer(f, d)
    BY <1>3
  <2>2. r.fc = f.fc
    BY <2>1 DEF Answer
  <2>3. QED
    BY <1>1, <2>2, SMT
<1>4. QED
  BY <1>2, <1>3 DEF Replies

\* An exception never ends a call well.
LEMMA ExceptionEnds ==
  ASSUME NEW c \in Sendable, NEW code \in {ILLEGAL_FUNCTION, DEVICE_FAILURE}
  PROVE  Outcome(c, Exception(Request(c), code)) # "NONE"
<1> DEFINE r == Exception(Request(c), code)
           high == c.fc + 128
<1>1. r.unit = c.unit /\ r.fc = high /\ r.qty = code
  BY RequestIs DEF Exception
<1>2. code \in 1..4 /\ ExceptionName[code] # "NONE"
  BY DEF ILLEGAL_FUNCTION, DEVICE_FAILURE, ExceptionName
<1>3. Outcome(c, r) = CASE r.unit # c.unit -> "INVALID_UNIT_ID"
                        [] r.fc = high /\ r.qty \in 1..4 -> ExceptionName[r.qty]
                        [] r.fc # c.fc \/ ~MatchesCall(c, r) -> "INVALID_RESPONSE"
                        [] OTHER -> "NONE"
  BY Zenon DEF Outcome
<1> HIDE DEF r, high
<1>4. Outcome(c, r) # "NONE"
  BY <1>1, <1>2, <1>3, Zenon
<1>5. QED
  BY <1>4 DEF r

LEMMA ResultStep == LineInv /\ [Next]_vars =>
  (pc = "app" /\ pc' = "run" /\ inStep' /\ toClient' # toClient
     /\ Outcome(call, Head(toClient)) = "NONE" => executed = Request(call))
<1>1. SUFFICES ASSUME LineInv, [Next]_vars, pc = "app", pc' = "run", inStep', toClient' # toClient,
                      Outcome(call, Head(toClient)) = "NONE"
               PROVE  executed = Request(call)
  OBVIOUS
<1>2. Hears
  <2>1. ~UNCHANGED vars
    BY <1>1 DEF vars, mbVars
  <2>2. ~(Takes \/ Completes \/ OutputTimer \/ SlaveTimer)
    BY <1>1 DEF Takes, Completes, OutputTimer, SlaveTimer, mbVars
  <2>3. ~(OutputSkips \/ OutputCalls \/ AppCall)
    BY <1>1 DEF OutputSkips, OutputCalls, AppCall, Running
  <2>4. ~(Serves \/ PollsPast \/ Spoils \/ ForeignFrame)
    BY <1>1 DEF Serves, PollsPast, Spoils, ForeignFrame
  <2>5. ~(HearsJunk \/ TimesOut)
    BY <1>1 DEF HearsJunk, TimesOut
  <2>6. QED
    BY <1>1, <2>1, <2>2, <2>3, <2>4, <2>5 DEF Next, Master, Device
<1>3. toClient # <<>> /\ Head(toClient).kind = "answer" /\ inStep
  BY <1>1, <1>2 DEF Hears
<1>4. LineTypes /\ QuietLine /\ call \in Sendable
  BY <1>1, <1>3, LineTypesAre DEF LineInv
<1>5. OwnAnswer(call, Head(toClient))
  <2>1. Head(toClient) = toClient[1]
    BY <1>3, <1>4, LineTypesAre, TailIs
  <2>2. QED
    BY <1>3, <1>4, <2>1 DEF QuietLine
<1>6. Head(toClient) # Junk
  BY <1>3 DEF Junk
<1>7. \A code \in {ILLEGAL_FUNCTION, DEVICE_FAILURE} : Head(toClient) # Exception(Request(call), code)
  BY <1>1, <1>4, ExceptionEnds
<1>8. QED
  BY <1>5, <1>6, <1>7 DEF OwnAnswer

-----------------------------------------------------------------------------
(* The sender, between two steps.                                            *)

\* The requests that move a segment.
Upgrading(f) ==
  /\ f.kind = "request"
  /\ f.unit = Unit /\ f.fc = 16
  /\ f.addr = FRAME_INDEX \/ (f.addr = FILE_TYPE /\ f.data[1] = "info")

\* The session s and its output o are at the same stage.
Coupled(s, o) ==
  /\ o.state \in {"IDLE", "REQUEST"} =>
       s.index = 1 /\ ~s.waiting /\ s.state \in {"IDLE", "REQUEST", "ABORT"}
  /\ o.state \in {"SEG_INFO", "SEG_DATA"} =>
       s.index <= Last /\ s.state \in {"SEND_SEG", "ABORT"}
  /\ o.state = "SEG_DATA" => o.frame < SegChunks[s.index]
  /\ o.state = "FW_INFO" => s.index = Last + 1 /\ s.state \in {"SEND_FW_INFO", "ABORT"}

\* The call that waits is one the output makes in this state.
CallFits ==
  /\ pc = "ready?" => out.state = "REQUEST"
  /\ pc \in {"busy?", "info"} => out.state = "SEG_INFO"
  /\ pc = "data" => out.state = "SEG_DATA"
  /\ pc \in {"finished?", "failed?"} => out.state = "FW_INFO"
  /\ pc \in {"fwinfo", "reboot"} => out.state \in {"IDLE", "REQUEST"} /\ slv.state = "REQUEST"
  /\ pc = "info" => call = InfoOf(slv.index)
  /\ pc = "data" => call = DataOf(slv.index, out.frame)
  /\ pc \notin {"run", "info", "data"} => ~Upgrading(Request(call))

SenderInv ==
  /\ slv.index \in 1..Last + 1 /\ slv.repeat \in 0..RepeatMax
  /\ reported \in {"none", "success", "failure", "crash"}
  /\ reported # "none" => pc = "run"
  /\ reported = "success" => slv.index = Last + 1
  /\ reported = "none" =>
       /\ Coupled(slv, out) /\ CallFits
       /\ slv.repeat = RepeatMax => slv.state = "ABORT" \/ pc \in {"fwinfo", "reboot"}

\* What the session's switch finds in s and o.
Ready(s, o) ==
  /\ s.index \in 1..Last + 1 /\ s.repeat \in 0..RepeatMax
  /\ s.state \in {"IDLE", "REQUEST"} => s.index = 1 /\ ~s.waiting /\ o.state \in {"IDLE", "REQUEST"}
  /\ s.state = "SEND_SEG" =>
       /\ s.index <= Last
       /\ s.waiting => /\ o.state \in {"SEG_INFO", "SEG_DATA"}
                       /\ o.state = "SEG_DATA" => o.frame < SegChunks[s.index]
  /\ s.state = "SEND_FW_INFO" => s.index = Last + 1 /\ (~s.expired => o.state = "FW_INFO")
  /\ s.state = "FINISH" => s.index = Last + 1
  /\ s.state \in {"IDLE", "REQUEST", "SEND_SEG", "SEND_FW_INFO"} => s.repeat < RepeatMax

-----------------------------------------------------------------------------
(* Where a segment is: <<n, k>> after k frames of segment n.                 *)

Complete(p) == p[1] = 0 \/ p[2] = SegChunks[p[1]]

\* Segment n may be announced after p.
Announces(p, n) == p[1] = n \/ (p[1] = n - 1 /\ Complete(p))

Follows(p, q) ==
  IF q[2] = 0 THEN Announces(p, q[1]) ELSE q[1] = p[1] /\ q[2] = p[2] + 1

PlaceOf(f) == <<f.data[2], IF f.addr = FILE_TYPE THEN 0 ELSE f.data[3] + 1>>

Here == <<input.no, Len(input.data)>>

\* A request that moves a segment moves one of the firmware's.
IsInfo(f) == \E n \in 1..Last : f = Request(InfoOf(n))
IsData(f) == \E n \in 1..Last : \E k \in 0..SegChunks[n] - 1 : f = Request(DataOf(n, k))
UpFits(f) == Upgrading(f) => IsInfo(f) \/ IsData(f)

\* The place p from which the sender goes on, between two calls of the upgrade.
Rests(p) == IF out.state = "SEG_DATA" THEN p = <<slv.index, out.frame>>
                                      ELSE Announces(p, slv.index)

\* What the sender has put on the line when it left p behind.
After(p) ==
  \/ /\ pc' \notin {"info", "data"} /\ Rests(p)'
     /\ \/ toUnit' = toUnit
        \/ \E f \in Requests : (Lossless' => f.unit = Unit) /\ ~Upgrading(f) /\ toUnit' = Append(toUnit, f)
  \/ /\ pc' = "info" /\ slv'.index \in 1..Last /\ Announces(p, slv'.index)
     /\ toUnit' = Append(toUnit, Request(InfoOf(slv'.index)))
  \/ /\ pc' = "data" /\ slv'.index \in 1..Last /\ out'.frame \in 0..SegChunks[slv'.index] - 1
     /\ p = <<slv'.index, out'.frame>>
     /\ toUnit' = Append(toUnit, Request(DataOf(slv'.index, out'.frame)))

LEMMA Segments ==
  /\ Last \in Nat /\ Last > 0 /\ RepeatMax \in Nat /\ RepeatMax > 0
  /\ \A n \in 1..Last : SegChunks[n] \in Nat /\ SegChunks[n] > 0
  BY SlaveAssumption DEF Last

\* None of these moves a segment.
LEMMA OtherCalls ==
  ASSUME NEW c \in {StatusCall, FwInfoCall, RebootCall}
  PROVE  /\ c \in Sendable /\ Request(c) \in Requests
         /\ Request(c).unit = Unit /\ ~Upgrading(Request(c))
<1>1. c \in Sendable /\ Request(c) \in Requests
  BY CallsAre, ItemsAre
<1>2. /\ c.unit = Unit /\ (c.fc = 16 => c.addr # FRAME_INDEX)
      /\ c.fc = 16 /\ c.addr = FILE_TYPE => c.data[1] = "fw"
  BY DEF StatusCall, FwInfoCall, RebootCall, Call, FRAME_INDEX, FILE_TYPE, BP_REBOOT
<1>3. QED
  BY <1>1, <1>2, RequestIs DEF Upgrading

\* What the switch does to the session and its output.
Turned(s, o) ==
  /\ slv'.index = s.index
  /\ out'.state = "SEG_DATA" => out' = o /\ s.state = "SEND_SEG" /\ s.waiting
  /\ pc' \notin {"info", "data"}
  /\ toUnit' = toUnit \/ toUnit' = Append(toUnit, Request(FwInfoCall))

LEMMA SwitchSender ==
  ASSUME NEW s \in SlvT, NEW o \in OutT, Ready(s, o), Switch(s, o), reported = "none"
  PROVE  SenderInv' /\ Turned(s, o)
<1>1. CASE SwitchRequest(s, o)
  <2>1. /\ s.state = "REQUEST" /\ reported' = "none" /\ pc' = "fwinfo" /\ call' = FwInfoCall
        /\ toUnit' = Append(toUnit, Request(FwInfoCall))
        /\ slv' = [s EXCEPT !.repeat = s.repeat + 1] /\ out' = [o EXCEPT !.frame = 0]
    BY <1>1 DEF SwitchRequest, Calls
  <2>2. /\ slv'.index = s.index /\ slv'.state = "REQUEST" /\ slv'.waiting = s.waiting
        /\ slv'.repeat = s.repeat + 1 /\ out'.state = o.state
    BY <2>1 DEF SlvT, OutT
  <2>3. /\ s.index = 1 /\ ~s.waiting /\ o.state \in {"IDLE", "REQUEST"} /\ s.index \in 1..Last + 1
        /\ slv'.repeat \in 0..RepeatMax
    BY <2>1, <2>2, Segments DEF Ready
  <2>4. Coupled(slv', out')
    BY <2>2, <2>3 DEF Coupled
  <2>5. ~Upgrading(Request(call'))
    BY <2>1, OtherCalls
  <2>6. CallFits'
    BY <2>1, <2>2, <2>3, <2>5 DEF CallFits, Upgrading
  <2>7. SenderInv'
    BY <2>1, <2>2, <2>3, <2>4, <2>6 DEF SenderInv
  <2>8. QED
    BY <2>1, <2>2, <2>3, <2>7 DEF Turned
<1>2. CASE SwitchFwInfo(s, o)
  <2>1. /\ s.state = "SEND_FW_INFO" /\ reported' = "none" /\ pc' = "run" /\ toUnit' = toUnit
        /\ slv' = Repeated(s, s) /\ out' = SetFirmware(o)
    BY <1>2 DEF SwitchFwInfo, NoCallMade
  <2>2. /\ slv'.index = s.index /\ slv'.repeat = s.repeat + 1 /\ out'.state = "FW_INFO"
        /\ slv'.state = IF s.repeat + 1 >= RepeatMax THEN "ABORT" ELSE "SEND_FW_INFO"
    BY <2>1 DEF SlvT, OutT, Repeated, SetFirmware
  <2>3. s.index = Last + 1 /\ s.index \in 1..Last + 1 /\ slv'.repeat \in 0..RepeatMax
    BY <2>1, <2>2, Segments DEF Ready
  <2>4. slv'.repeat = RepeatMax => slv'.state = "ABORT"
    BY <2>2, <2>3, Segments
  <2>5. Coupled(slv', out')
    BY <2>2, <2>3 DEF Coupled
  <2>6. CallFits'
    BY <2>1 DEF CallFits
  <2>7. SenderInv'
    BY <2>1, <2>2, <2>3, <2>4, <2>5, <2>6 DEF SenderInv
  <2>8. QED
    BY <2>1, <2>2, <2>7 DEF Turned
<1>3. CASE SwitchSegment(s, o)
  <2>1. /\ s.state = "SEND_SEG" /\ reported' = "none" /\ pc' = "run" /\ toUnit' = toUnit
        /\ slv' = Repeated(s, [s EXCEPT !.waiting = TRUE]) /\ out' = SetSegInfo(o)
    BY <1>3 DEF SwitchSegment, NoCallMade
  <2>2. /\ slv'.index = s.index /\ slv'.repeat = s.repeat + 1 /\ out'.state = "SEG_INFO"
        /\ slv'.state = IF s.repeat + 1 >= RepeatMax THEN "ABORT" ELSE "SEND_SEG"
    BY <2>1 DEF SlvT, OutT, Repeated, SetSegInfo
  <2>3. s.index <= Last /\ s.index \in 1..Last + 1 /\ slv'.repeat \in 0..RepeatMax
    BY <2>1, <2>2, Segments DEF Ready
  <2>4. slv'.repeat = RepeatMax => slv'.state = "ABORT"
    BY <2>2, <2>3, Segments
  <2>5. Coupled(slv', out')
    BY <2>2, <2>3 DEF Coupled
  <2>6. CallFits'
    BY <2>1 DEF CallFits
  <2>7. SenderInv'
    BY <2>1, <2>2, <2>3, <2>4, <2>5, <2>6 DEF SenderInv
  <2>8. QED
    BY <2>1, <2>2, <2>7 DEF Turned
<1>4. CASE SwitchOther(s, o)
  <2>1. /\ reported' = "none" /\ pc' = "run" /\ toUnit' = toUnit /\ out' = o
        /\ \/ s.state = "IDLE" /\ slv' = [s EXCEPT !.state = "REQUEST"]
           \/ s.state \in {"REQUEST", "SEND_FW_INFO"} /\ ~s.expired /\ slv' = s
           \/ s.state = "SEND_SEG" /\ s.waiting /\ ~s.expired /\ slv' = s
           \/ s.state = "SEND_SEG" /\ s.waiting /\ slv' = [s EXCEPT !.state = "ABORT", !.expired = FALSE]
    BY <1>4 DEF SwitchOther, NoCallMade
  <2>2. /\ slv'.index = s.index /\ slv'.repeat = s.repeat /\ slv'.waiting = s.waiting
        /\ \/ s.state = "IDLE" /\ slv'.state = "REQUEST"
           \/ s.state \in {"REQUEST", "SEND_FW_INFO"} /\ ~s.expired /\ slv'.state = s.state
           \/ s.state = "SEND_SEG" /\ s.waiting /\ slv'.state \in {"SEND_SEG", "ABORT"}
    BY <2>1 DEF SlvT
  <2>3. s.index \in 1..Last + 1 /\ slv'.repeat \in 0..RepeatMax
    BY <2>2 DEF Ready
  <2>4. Coupled(slv', out') /\ (out'.state = "SEG_DATA" => s.state = "SEND_SEG" /\ s.waiting)
    BY <2>1, <2>2, Segments DEF Coupled, Ready
  <2>5. CallFits'
    BY <2>1 DEF CallFits
  <2>6. slv'.repeat = RepeatMax => slv'.state = "ABORT"
    BY <2>2, <2>3, Segments DEF Ready
  <2>7. SenderInv'
    BY <2>1, <2>2, <2>3, <2>4, <2>5, <2>6 DEF SenderInv
  <2>8. QED
    BY <2>1, <2>2, <2>4, <2>7 DEF Turned
<1>5. CASE SwitchEnd(s, o)
  <2>1. /\ s.state \in {"FINISH", "ABORT"} /\ pc' = "run" /\ toUnit' = toUnit /\ slv' = s
        /\ reported' = (IF s.state = "FINISH" THEN "success" ELSE "failure") /\ out'.state = "IDLE"
    BY <1>5 DEF SwitchEnd, NoCallMade, OutT
  <2>2. s.index \in 1..Last + 1 /\ s.repeat \in 0..RepeatMax /\ (s.state = "FINISH" => s.index = Last + 1)
    BY DEF Ready
  <2>3. SenderInv'
    BY <2>1, <2>2 DEF SenderInv
  <2>4. QED
    BY <2>1, <2>3 DEF Turned
<1>6. QED
  BY <1>1, <1>2, <1>3, <1>4, <1>5 DEF Switch

\* What the place of the segment tells the sender, and the end of a call.
Stands(p, ok) ==
  /\ pc = "data" => p = <<slv.index, out.frame + 1>> \/ (~ok /\ p = <<slv.index, out.frame>>)
  /\ pc = "info" => p = <<slv.index, 0>> \/ (~ok /\ Announces(p, slv.index))
  /\ pc \notin {"info", "data"} => Rests(p)

LEMMA TurnedAfter ==
  ASSUME NEW s, NEW o, Turned(s, o), NEW p, Announces(p, s.index),
         s.state = "SEND_SEG" /\ s.waiting /\ o.state = "SEG_DATA" => p = <<s.index, o.frame>>
  PROVE  After(p)
<1>1. Rests(p)'
  BY DEF Turned, Rests
<1>2. Request(FwInfoCall) \in Requests /\ Request(FwInfoCall).unit = Unit /\ ~Upgrading(Request(FwInfoCall))
  BY OtherCalls
<1>3. QED
  BY <1>1, <1>2 DEF Turned, After

LEMMA ReadyIs ==
  ASSUME NEW s \in SlvT, NEW o \in OutT, Coupled(s, o), s.index \in 1..Last + 1, s.repeat \in 0..RepeatMax,
         s.repeat = RepeatMax => s.state = "ABORT"
  PROVE  Ready(s, o)
<1>1. o.state \in {"IDLE", "REQUEST", "SEG_INFO", "SEG_DATA", "FW_INFO"}
  BY DEF OutT, MbStates
<1>2. s.state \in {"IDLE", "REQUEST", "SEND_SEG", "SEND_FW_INFO", "FINISH"} => s.repeat < RepeatMax
  BY Segments
<1>3. QED
  BY <1>1, <1>2 DEF Coupled, Ready

\* The session and its output at the end of a call.
LEMMA SenderIs ==
  ASSUME LineTypes, SenderInv, pc # "run"
  PROVE  /\ slv \in SlvT /\ out \in OutT /\ Later \in OutT /\ NextFrame \in OutT /\ reported = "none"
         /\ slv.index \in 1..Last + 1 /\ slv.repeat \in 0..RepeatMax
         /\ Coupled(slv, out) /\ CallFits
         /\ slv.repeat = RepeatMax => slv.state = "ABORT" \/ pc \in {"fwinfo", "reboot"}
         /\ Later.state = out.state /\ Later.frame = out.frame
         /\ NextFrame.state = out.state /\ NextFrame.frame = out.frame + 1
<1>1. slv \in SlvT /\ out \in OutT
  BY LineTypesAre
<1>2. /\ Later.state = out.state /\ Later.frame = out.frame
      /\ NextFrame.state = out.state /\ NextFrame.frame = out.frame + 1
  BY <1>1 DEF Later, NextFrame, OutT
<1>3. QED
  BY <1>1, <1>2, OutputTypes DEF SenderInv

LEMMA StatusSender ==
  ASSUME LineTypes, SenderInv, NEW status, AfterStatus(status), NEW p, Rests(p),
         pc \in {"ready?", "busy?", "finished?", "failed?"}
  PROVE  SenderInv' /\ After(p)
<1>1. /\ slv \in SlvT /\ out \in OutT /\ Later \in OutT /\ reported = "none"
      /\ slv.index \in 1..Last + 1 /\ slv.repeat \in 0..RepeatMax
      /\ Coupled(slv, out) /\ CallFits
      /\ slv.repeat = RepeatMax => slv.state = "ABORT"
      /\ Later.state = out.state /\ Later.frame = out.frame
  BY SenderIs
<1>2. out.state # "SEG_DATA" /\ Announces(p, slv.index)
  BY <1>1 DEF CallFits, Rests
<1>3. UNCHANGED <<slv, out>> => Rests(p)'
  BY <1>2 DEF Rests
<1>4. CASE pc = "ready?" /\ Switch(ConfirmReady(slv, TRUE), Later)
  <2> DEFINE s == ConfirmReady(slv, TRUE)
  <2>1. /\ s \in SlvT /\ s.index = slv.index /\ s.state = "SEND_SEG" /\ s.waiting = slv.waiting
        /\ s.repeat = 0
    BY <1>1, SessionTypes DEF ConfirmReady, SlvT
  <2> HIDE DEF s
  <2>2. slv.index = 1 /\ ~slv.waiting
    BY <1>1, <1>4 DEF CallFits, Coupled
  <2>3. Ready(s, Later)
    BY <2>1, <2>2, Segments DEF Ready
  <2>4. SenderInv' /\ Turned(s, Later)
    BY <1>1, <1>4, <2>1, <2>3, SwitchSender DEF s
  <2>5. QED
    BY <1>2, <2>1, <2>2, <2>4, TurnedAfter
<1>5. CASE Switch(slv, Later)
  <2>1. Ready(slv, Later)
    <3>1. Coupled(slv, Later)
      BY <1>1 DEF Coupled
    <3>2. QED
      BY <1>1, <3>1, ReadyIs
  <2>2. SenderInv' /\ Turned(slv, Later)
    BY <1>1, <1>5, <2>1, SwitchSender
  <2>3. QED
    BY <1>1, <1>2, <2>2, TurnedAfter
<1>6. CASE pc = "busy?" /\ Calls(InfoCall(slv), "info") /\ UNCHANGED <<slv, out, reported>>
  <2>1. InfoCall(slv) = InfoOf(slv.index)
    BY DEF InfoCall, InfoOf
  <2>2. out.state = "SEG_INFO" /\ slv.index \in 1..Last
    BY <1>1, <1>6, Segments DEF CallFits, Coupled
  <2>3. SenderInv'
    BY <1>1, <1>6, <2>1, <2>2 DEF Calls, SenderInv, CallFits, Coupled
  <2>4. After(p)
    BY <1>2, <1>6, <2>1, <2>2 DEF Calls, After
  <2>5. QED
    BY <2>3, <2>4
<1>7. CASE pc = "finished?" /\ Switch(ConfirmFwInfo(slv, TRUE), out)
  <2> DEFINE s == ConfirmFwInfo(slv, TRUE)
  <2>1. s \in SlvT /\ s.index = slv.index /\ s.state = "FINISH" /\ s.repeat = slv.repeat
    BY <1>1, SessionTypes DEF ConfirmFwInfo, SlvT
  <2> HIDE DEF s
  <2>2. slv.index = Last + 1
    BY <1>1, <1>7 DEF CallFits, Coupled
  <2>3. Ready(s, out)
    BY <1>1, <2>1, <2>2 DEF Ready
  <2>4. SenderInv' /\ Turned(s, out)
    BY <1>1, <1>7, <2>1, <2>3, SwitchSender DEF s
  <2>5. QED
    BY <1>2, <2>1, <2>4, TurnedAfter
<1>8. CASE pc = "finished?" /\ Calls(StatusCall, "failed?") /\ UNCHANGED <<slv, out, reported>>
  <2>1. Request(StatusCall) \in Requests /\ Request(StatusCall).unit = Unit /\ ~Upgrading(Request(StatusCall))
    BY OtherCalls
  <2>2. SenderInv'
    BY <1>1, <1>8, <2>1 DEF Calls, SenderInv, CallFits, Coupled, Upgrading
  <2>3. After(p)
    BY <1>3, <1>8, <2>1 DEF Calls, After
  <2>4. QED
    BY <2>2, <2>3
<1>9. CASE pc = "failed?" /\ Switch(ConfirmFwInfo(slv, FALSE), out)
  <2> DEFINE s == ConfirmFwInfo(slv, FALSE)
  <2>1. /\ s \in SlvT /\ s.index = slv.index /\ s.state = slv.state /\ s.repeat = slv.repeat
        /\ s.waiting = slv.waiting
    BY <1>1, SessionTypes DEF ConfirmFwInfo, SlvT
  <2> HIDE DEF s
  <2>2. Coupled(s, out)
    BY <1>1, <2>1 DEF Coupled
  <2>3. Ready(s, out)
    BY <1>1, <2>1, <2>2, ReadyIs
  <2>4. SenderInv' /\ Turned(s, out)
    BY <1>1, <1>9, <2>1, <2>3, SwitchSender DEF s
  <2>5. QED
    BY <1>2, <2>1, <2>4, TurnedAfter
<1>10. CASE Crash
  <2>1. /\ UNCHANGED <<slv, out>> /\ pc' = "run" /\ reported' = "crash" /\ toUnit' = toUnit
    BY <1>10 DEF Crash, NoCallMade
  <2>2. SenderInv' /\ After(p)
    BY <1>1, <1>3, <2>1 DEF SenderInv, After
  <2>3. QED
    BY <2>2
<1>11. QED
  BY <1>4, <1>5, <1>6, <1>7, <1>8, <1>9, <1>10, StatusSteps

LEMMA SegIs ==
  ASSUME NEW s \in SlvT, s.index \in 1..Last
  PROVE  /\ LET f == ConfirmSeg(s, FALSE) IN
              /\ f \in SlvT /\ f.index = s.index /\ f.state = s.state /\ f.repeat = s.repeat /\ ~f.waiting
         /\ LET t == ConfirmSeg(s, TRUE) IN
              /\ t \in SlvT /\ t.index = s.index + 1 /\ t.repeat = 0 /\ ~t.waiting
              /\ IF s.index = Last THEN t.state = "SEND_FW_INFO" /\ t.expired ELSE t.state = s.state
<1>1. ConfirmSeg(s, FALSE) = [s EXCEPT !.waiting = FALSE]
  BY Zenon DEF ConfirmSeg
<1>2. s.index = Last =>
        ConfirmSeg(s, TRUE) = [s EXCEPT !.index = s.index + 1, !.state = "SEND_FW_INFO",
                                        !.expired = TRUE, !.waiting = FALSE, !.repeat = 0]
  BY Zenon DEF ConfirmSeg
<1>3. s.index # Last =>
        ConfirmSeg(s, TRUE) = [s EXCEPT !.index = s.index + 1, !.repeat = 0,
                                        !.expired = FALSE, !.waiting = FALSE]
  BY Zenon DEF ConfirmSeg
<1>4. LET t == ConfirmSeg(s, TRUE) IN
        /\ t.index = s.index + 1 /\ t.repeat = 0 /\ ~t.waiting
        /\ IF s.index = Last THEN t.state = "SEND_FW_INFO" /\ t.expired ELSE t.state = s.state
  BY <1>2, <1>3 DEF SlvT
<1>5. QED
  BY <1>1, <1>4, SessionTypes DEF SlvT

LEMMA DataSender ==
  ASSUME LineTypes, SenderInv, pc = "data", NEW result, AfterData(result), NEW p,
         Stands(p, result = "NONE")
  PROVE  SenderInv' /\ After(p)
<1>1. /\ slv \in SlvT /\ out \in OutT /\ NextFrame \in OutT /\ reported = "none"
      /\ slv.index \in 1..Last + 1 /\ slv.repeat \in 0..RepeatMax
      /\ Coupled(slv, out) /\ CallFits
      /\ slv.repeat = RepeatMax => slv.state = "ABORT"
      /\ NextFrame.state = out.state /\ NextFrame.frame = out.frame + 1
  BY SenderIs
<1>2. /\ out.state = "SEG_DATA" /\ slv.index \in 1..Last /\ slv.state \in {"SEND_SEG", "ABORT"}
      /\ out.frame \in Nat /\ SegChunks[slv.index] \in Nat /\ out.frame < SegChunks[slv.index]
  BY <1>1, Segments DEF CallFits, Coupled, OutT
<1>3. p[1] = slv.index /\ (result = "NONE" => p = <<slv.index, out.frame + 1>>)
  BY DEF Stands
<1>4. CASE result # "NONE" /\ Switch(ConfirmSeg(slv, FALSE), out)
  <2> DEFINE s == ConfirmSeg(slv, FALSE)
  <2>1. s \in SlvT /\ s.index = slv.index /\ s.state = slv.state /\ s.repeat = slv.repeat /\ ~s.waiting
    BY <1>1, <1>2, SegIs
  <2> HIDE DEF s
  <2>2. Ready(s, out)
    BY <1>1, <1>2, <2>1, Segments DEF Ready
  <2>3. SenderInv' /\ Turned(s, out)
    BY <1>1, <1>4, <2>1, <2>2, SwitchSender DEF s
  <2>4. Announces(p, s.index)
    BY <1>3, <2>1 DEF Announces
  <2>5. QED
    BY <2>1, <2>3, <2>4, TurnedAfter
<1>5. CASE result = "NONE" /\ Switch(ConfirmSeg(slv, TRUE), NextFrame) /\ NextFrame.frame >= SegChunks[slv.index]
  <2> DEFINE s == ConfirmSeg(slv, TRUE)
  <2>1. /\ s \in SlvT /\ s.index = slv.index + 1 /\ s.repeat = 0 /\ ~s.waiting
        /\ IF slv.index = Last THEN s.state = "SEND_FW_INFO" /\ s.expired ELSE s.state = slv.state
    BY <1>1, <1>2, SegIs
  <2> HIDE DEF s
  <2>2. Ready(s, NextFrame)
    BY <1>1, <1>2, <2>1, Segments DEF Ready
  <2>3. SenderInv' /\ Turned(s, NextFrame)
    BY <1>1, <1>5, <2>1, <2>2, SwitchSender DEF s
  <2>4. Announces(p, s.index)
    <3>1. out.frame + 1 = SegChunks[slv.index]
      BY <1>1, <1>2, <1>5
    <3>2. p = <<slv.index, SegChunks[slv.index]>>
      BY <1>3, <1>5, <3>1
    <3>3. p[1] = s.index - 1 /\ p[2] = SegChunks[p[1]]
      BY <1>2, <2>1, <3>2
    <3>4. QED
      BY <3>3 DEF Announces, Complete
  <2>5. QED
    BY <2>1, <2>3, <2>4, TurnedAfter
<1>6. CASE result = "NONE" /\ Switch(slv, NextFrame) /\ ~(NextFrame.frame >= SegChunks[slv.index])
  <2>1. Coupled(slv, NextFrame)
    BY <1>1, <1>2, <1>6 DEF Coupled
  <2>2. Ready(slv, NextFrame)
    BY <1>1, <2>1, ReadyIs
  <2>3. SenderInv' /\ Turned(slv, NextFrame)
    BY <1>1, <1>6, <2>2, SwitchSender
  <2>4. Announces(p, slv.index) /\ p = <<slv.index, NextFrame.frame>>
    BY <1>1, <1>3, <1>6 DEF Announces
  <2>5. QED
    BY <2>3, <2>4, TurnedAfter
<1>7. QED
  BY <1>4, <1>5, <1>6, DataSteps

LEMMA InfoSender ==
  ASSUME LineTypes, SenderInv, pc = "info", NEW result, AfterInfo(result), NEW p,
         Stands(p, result = "NONE")
  PROVE  SenderInv' /\ After(p)
<1>1. /\ slv \in SlvT /\ out \in OutT /\ Later \in OutT /\ reported = "none"
      /\ slv.index \in 1..Last + 1 /\ slv.repeat \in 0..RepeatMax
      /\ Coupled(slv, out) /\ CallFits
      /\ slv.repeat = RepeatMax => slv.state = "ABORT"
      /\ Later.state = out.state /\ Later.frame = out.frame
  BY SenderIs
<1>2. out.state = "SEG_INFO" /\ slv.index \in 1..Last /\ slv.state \in {"SEND_SEG", "ABORT"}
  BY <1>1, Segments DEF CallFits, Coupled
<1>3. Announces(p, slv.index) /\ (result = "NONE" => p = <<slv.index, 0>>)
  BY DEF Stands, Announces
<1> DEFINE o == [out EXCEPT !.state = "SEG_DATA", !.frame = 0]
<1>4. CASE result = "NONE"
  <2>1. o \in OutT /\ o.state = "SEG_DATA" /\ o.frame = 0
    BY <1>1 DEF OutT, MbStates
  <2>2. Switch(slv, o)
    BY <1>4 DEF AfterInfo
  <2> HIDE DEF o
  <2>3. Coupled(slv, o)
    BY <1>2, <2>1, Segments DEF Coupled
  <2>4. Ready(slv, o)
    BY <1>1, <2>1, <2>3, ReadyIs
  <2>5. SenderInv' /\ Turned(slv, o)
    BY <1>1, <2>1, <2>2, <2>4, SwitchSender
  <2>6. QED
    BY <1>3, <1>4, <2>1, <2>5, TurnedAfter
<1>5. CASE result # "NONE"
  <2>1. Switch(slv, Later)
    BY <1>5 DEF AfterInfo
  <2>2. Coupled(slv, Later)
    BY <1>1 DEF Coupled
  <2>3. Ready(slv, Later)
    BY <1>1, <2>2, ReadyIs
  <2>4. SenderInv' /\ Turned(slv, Later)
    BY <1>1, <2>1, <2>3, SwitchSender
  <2>5. Later.state # "SEG_DATA"
    BY <1>1, <1>2
  <2>6. QED
    BY <1>3, <2>4, <2>5, TurnedAfter
<1>6. QED
  BY <1>4, <1>5

LEMMA RequestSender ==
  ASSUME LineTypes, SenderInv, pc \in {"fwinfo", "reboot"}, NEW result,
         AfterFwInfo(result) \/ AfterReboot(result), NEW p, Rests(p)
  PROVE  SenderInv' /\ After(p)
<1>1. /\ slv \in SlvT /\ out \in OutT /\ reported = "none"
      /\ slv.index \in 1..Last + 1 /\ slv.repeat \in 0..RepeatMax
      /\ Coupled(slv, out) /\ CallFits
  BY SenderIs
<1>2. out.state \in {"IDLE", "REQUEST"} /\ slv.state = "REQUEST" /\ slv.index = 1 /\ ~slv.waiting
  BY <1>1 DEF CallFits, Coupled
<1>3. Announces(p, slv.index)
  BY <1>2 DEF Rests
<1>4. CASE Calls(RebootCall, "reboot") /\ UNCHANGED <<slv, out, reported>>
  <2>1. Request(RebootCall) \in Requests /\ Request(RebootCall).unit = Unit /\ ~Upgrading(Request(RebootCall))
    BY OtherCalls
  <2>2. SenderInv'
    BY <1>1, <1>2, <1>4, <2>1 DEF Calls, SenderInv, CallFits, Coupled, Upgrading
  <2>3. After(p)
    BY <1>2, <1>3, <1>4, <2>1 DEF Calls, After, Rests
  <2>4. QED
    BY <2>2, <2>3
<1>5. CASE /\ slv' = Requested /\ pc' = "run" /\ toUnit' = toUnit /\ reported' = reported
           /\ out'.state \in {"IDLE", "REQUEST"}
  <2>1. /\ slv'.index = 1 /\ ~slv'.waiting /\ slv'.repeat = slv.repeat
        /\ slv'.state = IF slv.repeat >= RepeatMax THEN "ABORT" ELSE "REQUEST"
    BY <1>1, <1>2, <1>5 DEF Requested, SlvT
  <2>2. Coupled(slv', out')
    BY <1>5, <2>1 DEF Coupled
  <2>3. slv'.repeat = RepeatMax => slv'.state = "ABORT"
    BY <1>1, <2>1, Segments
  <2>4. CallFits'
    BY <1>5 DEF CallFits
  <2>5. SenderInv'
    BY <1>1, <1>2, <1>5, <2>1, <2>2, <2>3, <2>4 DEF SenderInv
  <2>6. After(p)
    BY <1>2, <1>3, <1>5, <2>1 DEF After, Rests
  <2>7. QED
    BY <2>5, <2>6
<1>6. QED
  BY <1>1, <1>2, <1>4, <1>5 DEF AfterFwInfo, AfterReboot, NoCallMade, OutT

\* However a call ends, the sender goes on from the place the call left.
LEMMA EndsSender ==
  ASSUME LineTypes, SenderInv, pc # "run", NEW result, NEW status, Ends(result, status), NEW p,
         Stands(p, result = "NONE")
  PROVE  SenderInv' /\ After(p)
<1>1. pc \in PCs
  BY LineTypesAre
<1>2. pc \notin {"info", "data"} => Rests(p)
  BY DEF Stands
<1>3. CASE pc \in {"ready?", "busy?", "finished?", "failed?"} /\ \E st : AfterStatus(st)
  BY <1>2, <1>3, StatusSender
<1>4. CASE pc = "data" /\ AfterData(result)
  BY <1>4, DataSender
<1>5. CASE pc = "info" /\ AfterInfo(result)
  BY <1>5, InfoSender
<1>6. CASE pc \in {"fwinfo", "reboot"} /\ (AfterFwInfo(result) \/ AfterReboot(result))
  BY <1>2, <1>6, RequestSender
<1>7. CASE pc = "app" /\ NoCallMade /\ UNCHANGED <<slv, out, reported>>
  <2>1. /\ reported = "none" /\ Coupled(slv, out)
        /\ slv.repeat = RepeatMax => slv.state = "ABORT"
    BY <1>7, SenderIs
  <2>2. pc' = "run" /\ toUnit' = toUnit /\ UNCHANGED <<slv, out, reported>>
    BY <1>7 DEF NoCallMade
  <2>3. SenderInv'
    BY <2>1, <2>2 DEF SenderInv, CallFits, Coupled
  <2>4. After(p)
    BY <1>2, <1>7, <2>2 DEF After, Rests
  <2>5. QED
    BY <2>3, <2>4
<1>8. QED
  BY <1>1, <1>3, <1>4, <1>5, <1>6, <1>7, EndSteps

LEMMA IdleSender ==
  ASSUME LineTypes, SenderInv, OutputSkips \/ OutputCalls, NEW p, Rests(p)
  PROVE  SenderInv' /\ After(p)
<1>1. /\ slv \in SlvT /\ out \in OutT /\ pc = "run" /\ reported = "none"
      /\ slv.index \in 1..Last + 1 /\ slv.repeat \in 0..RepeatMax /\ Coupled(slv, out)
      /\ slv.repeat = RepeatMax => slv.state = "ABORT"
  BY LineTypesAre DEF SenderInv, OutputSkips, OutputCalls, Running
<1>2. CASE OutputSkips
  <2>1. Ready(slv, out)
    BY <1>1, ReadyIs
  <2>2. SenderInv' /\ Turned(slv, out)
    BY <1>1, <1>2, <2>1, SwitchSender DEF OutputSkips
  <2>3. Announces(p, slv.index) /\ (out.state = "SEG_DATA" => p = <<slv.index, out.frame>>)
    BY DEF Rests, Announces
  <2>4. QED
    BY <2>2, <2>3, TurnedAfter
<1>3. CASE OutputCalls
  <2>1. UNCHANGED <<slv, out, reported>>
    BY <1>3 DEF OutputCalls
  <2>2. CASE \/ out.state = "REQUEST" /\ Calls(StatusCall, "ready?")
             \/ out.state = "SEG_INFO" /\ Calls(StatusCall, "busy?")
             \/ out.state = "FW_INFO" /\ Calls(StatusCall, "finished?")
    <3>1. Request(StatusCall) \in Requests /\ Request(StatusCall).unit = Unit /\ ~Upgrading(Request(StatusCall))
      BY OtherCalls
    <3>2. /\ pc' \in {"ready?", "busy?", "finished?"} /\ call' = StatusCall
          /\ toUnit' = Append(toUnit, Request(StatusCall))
          /\ pc' = "ready?" => out.state = "REQUEST"
          /\ pc' = "busy?" => out.state = "SEG_INFO"
          /\ pc' = "finished?" => out.state = "FW_INFO"
      BY <2>2 DEF Calls
    <3>3. CallFits'
      BY <2>1, <3>1, <3>2 DEF CallFits, Upgrading
    <3>4. SenderInv'
      BY <1>1, <2>1, <3>3, <3>2 DEF SenderInv, Coupled
    <3>5. After(p)
      BY <2>1, <3>1, <3>2 DEF After, Rests
    <3>6. QED
      BY <3>4, <3>5
  <2>3. CASE out.state = "SEG_DATA" /\ Calls(DataCall(slv, out), "data")
    <3>1. DataCall(slv, out) = DataOf(slv.index, out.frame)
      BY DEF DataCall, DataOf
    <3>2. pc' = "data" /\ call' = DataOf(slv.index, out.frame)
            /\ toUnit' = Append(toUnit, Request(DataOf(slv.index, out.frame)))
      BY <2>3, <3>1 DEF Calls
    <3>3. slv.index \in 1..Last /\ out.frame \in 0..SegChunks[slv.index] - 1
      BY <1>1, <2>3, Segments DEF Coupled, OutT
    <3>4. CallFits'
      BY <2>1, <2>3, <3>2 DEF CallFits
    <3>5. SenderInv'
      BY <1>1, <2>1, <3>2, <3>4 DEF SenderInv, Coupled
    <3>6. After(p)
      BY <2>1, <2>3, <3>2, <3>3 DEF After, Rests
    <3>7. QED
      BY <3>5, <3>6
  <2>4. QED
    BY <1>3, <2>2, <2>3 DEF OutputCalls
<1>4. QED
  BY <1>2, <1>3

LEMMA TimerSender ==
  ASSUME LineTypes, SenderInv, OutputTimer \/ SlaveTimer, NEW p, Rests(p)
  PROVE  SenderInv' /\ After(p)
<1>1. /\ slv \in SlvT /\ out \in OutT /\ pc = "run" /\ reported = "none" /\ Coupled(slv, out)
      /\ UNCHANGED <<reported, pc, call, toUnit>>
  BY LineTypesAre DEF SenderInv, OutputTimer, SlaveTimer, Running, mbVars
<1>2. /\ slv'.index = slv.index /\ slv'.state = slv.state /\ slv'.repeat = slv.repeat
      /\ slv'.waiting = slv.waiting /\ out'.state = out.state /\ out'.frame = out.frame
  BY <1>1 DEF OutputTimer, SlaveTimer, SlvT, OutT
<1>3. Coupled(slv', out')
  BY <1>1, <1>2 DEF Coupled
<1>4. SenderInv'
  BY <1>1, <1>2, <1>3 DEF SenderInv, CallFits
<1>5. After(p)
  BY <1>1, <1>2 DEF After, Rests
<1>6. QED
  BY <1>4, <1>5

LEMMA UsersSender ==
  ASSUME LineTypes, SenderInv, faults \in Nat, AppCall \/ ForeignFrame, NEW p, Rests(p)
  PROVE  SenderInv' /\ After(p)
<1>1. /\ pc = "run" /\ UNCHANGED <<slv, out, reported>> /\ Rests(p)' /\ reported = "none"
  BY DEF AppCall, ForeignFrame, Running, Rests
<1>2. CASE AppCall
  <2>1. PICK c \in AppCalls :
          \/ UNCHANGED <<pc, call, toUnit>>
          \/ /\ ~ClientRefuses(c)
             /\ faults' = faults + IF c.unit = Unit THEN 0 ELSE 1
             /\ \/ Calls(c, "app")
                \/ toUnit' = Append(toUnit, Request(c)) /\ UNCHANGED <<pc, call>>
    BY <1>2 DEF AppCall
  <2>2. CASE UNCHANGED <<pc, call, toUnit>>
    BY <1>1, <2>2 DEF SenderInv, CallFits, Coupled, After
  <2>3. CASE /\ ~ClientRefuses(c) /\ faults' = faults + IF c.unit = Unit THEN 0 ELSE 1
             /\ toUnit' = Append(toUnit, Request(c))
             /\ (pc' = "app" /\ call' = c) \/ UNCHANGED <<pc, call>>
    <3>1. c \in Sendable /\ Request(c) \in Requests
      BY <2>3 DEF Sendable, Requests
    <3>2. ~Upgrading(Request(c))
      <4>1. c.fc \in WriteRegs => c.addr \notin {FILE_TYPE, FRAME_INDEX}
        BY AppAssumption
      <4>2. QED
        BY <4>1, RequestIs DEF Upgrading, WriteRegs
    <3>3. Lossless' => Request(c).unit = Unit
      BY <2>3, RequestIs DEF Lossless
    <3>4. CallFits' /\ pc' \in {"run", "app"}
      BY <1>1, <2>3, <3>2 DEF CallFits
    <3>5. SenderInv'
      BY <1>1, <3>4 DEF SenderInv, Coupled
    <3>6. After(p)
      BY <1>1, <2>3, <3>1, <3>2, <3>3, <3>4 DEF After
    <3>7. QED
      BY <3>5, <3>6
  <2>4. QED
    BY <2>1, <2>2, <2>3 DEF Calls
<1>3. CASE ForeignFrame
  <2>1. /\ faults' = faults + 1 /\ toUnit' = Append(toUnit, Request(ForeignCall)) /\ UNCHANGED <<pc, call>>
    BY <1>3 DEF ForeignFrame, ForeignCall
  <2>2. Request(ForeignCall) \in Requests /\ ~Upgrading(Request(ForeignCall))
    <3>1. ForeignCall \in Sendable /\ ForeignCall.fc = 6
      BY CallsAre DEF ForeignCall, Call
    <3>2. QED
      BY <3>1, RequestIs, ItemsAre DEF Upgrading
  <2>3. ~Lossless'
    BY <2>1 DEF Lossless
  <2>4. SenderInv' /\ After(p)
    BY <1>1, <2>1, <2>2, <2>3 DEF SenderInv, CallFits, Coupled, After
  <2>5. QED
    BY <2>4
<1>4. QED
  BY <1>2, <1>3

-----------------------------------------------------------------------------
(* The receiving side.                                                       *)

Pieces == {Arrives(n, k) : n \in 0..Last, k \in Nat}

InputInv ==
  /\ input \in [state : SegStates, no : 0..Last, total : Nat, data : Seq(Pieces)]
  /\ Len(input.data) <= input.total + 1
  /\ taken \in 0..Last

FrameInv == \A i \in 1..Len(toUnit) : UpFits(toUnit[i])

\* The receiving side has the frames it has counted, and no segment is missing.
SegInv ==
  /\ input.data = [f \in 1..Len(input.data) |-> Arrives(input.no, f - 1)]
  /\ input.no = 0 => input.state = "IDLE" /\ taken = 0 /\ input.total = 0
  /\ input.no > 0 =>
       /\ input.total = SegChunks[input.no] /\ Len(input.data) <= input.total
       /\ input.state = "LOADING" <=> Len(input.data) < input.total
       /\ input.state \in {"LOADING", "FULL"} => taken \in {input.no - 1, input.no}
       /\ input.state \in {"WAITING", "IDLE"} => taken = input.no

LEMMA InputIs ==
  ASSUME InputInv
  PROVE  /\ input.state \in SegStates /\ input.no \in 0..Last /\ input.total \in Nat
         /\ input.data \in Seq(Pieces) /\ Len(input.data) \in Nat
         /\ input = [state |-> input.state, no |-> input.no, total |-> input.total, data |-> input.data]
  BY DEF InputInv

LEMMA InfoRequest ==
  ASSUME NEW n \in 1..Last
  PROVE  LET f == Request(InfoOf(n)) IN
           /\ f \in Requests /\ Upgrading(f) /\ f.unit = Unit /\ f.fc = 16 /\ f.addr = FILE_TYPE
           /\ f.data = <<"info", n, SegChunks[n]>> /\ PlaceOf(f) = <<n, 0>>
<1>1. n \in Nat
  BY Segments
<1>2. InfoOf(n) = Call(Unit, 16, 31, 8, 0, <<"info", n, SegChunks[n]>>) /\ InfoOf(n) \in Sendable
  BY <1>1, InfoIs
<1>3. LET f == Request(InfoOf(n)) IN
        /\ f \in Requests /\ f.kind = "request" /\ f.unit = Unit /\ f.fc = 16 /\ f.addr = FILE_TYPE
        /\ f.data = <<"info", n, SegChunks[n]>>
  BY <1>2, RequestIs, ItemsAre DEF Call, FILE_TYPE
<1>4. QED
  BY <1>3 DEF Upgrading, PlaceOf

LEMMA DataRequest ==
  ASSUME NEW n \in 1..Last, NEW k \in 0..SegChunks[n] - 1
  PROVE  LET f == Request(DataOf(n, k)) IN
           /\ f \in Requests /\ Upgrading(f) /\ f.unit = Unit /\ f.fc = 16 /\ f.addr = FRAME_INDEX
           /\ f.data = <<"data", n, k>> /\ f.qty = 1 + BufLen(n, k) \div 2 /\ PlaceOf(f) = <<n, k + 1>>
<1>1. PICK q : q = 1 + BufLen(n, k) \div 2
  OBVIOUS
<1>2. DataOf(n, k) = Call(Unit, 16, 40, q, 0, <<"data", n, k>>) /\ DataOf(n, k) \in Sendable
  BY <1>1, DataIs
<1>3. LET f == Request(DataOf(n, k)) IN
        /\ f \in Requests /\ f.kind = "request" /\ f.unit = Unit /\ f.fc = 16 /\ f.addr = FRAME_INDEX
        /\ f.data = <<"data", n, k>> /\ f.qty = 1 + BufLen(n, k) \div 2
  BY <1>1, <1>2, RequestIs, ItemsAre DEF Call, FRAME_INDEX
<1>4. QED
  BY <1>3 DEF Upgrading, PlaceOf, FRAME_INDEX, FILE_TYPE

\* The input takes the announcement of a segment.
LEMMA InfoServed ==
  ASSUME InputInv, NEW n \in 1..Last, NEW f, f.fc = 16, f.addr = FILE_TYPE,
         f.data = <<"info", n, SegChunks[n]>>, input' = Callback(f).state, taken' = taken
  PROVE  /\ InputInv' /\ Here' = <<n, 0>>
         /\ SegInv /\ Announces(Here, n) /\ input.state \in {"IDLE", "LOADING"} => SegInv'
<1>1. input' = [state |-> "LOADING", no |-> n, total |-> SegChunks[n], data |-> <<>>]
  BY DEF Callback, FileType
<1>2. /\ input'.state = "LOADING" /\ input'.no = n /\ input'.total = SegChunks[n] /\ input'.data = <<>>
      /\ Len(input'.data) = 0
  BY <1>1
<1>3. InputInv'
  BY <1>1, <1>2, Segments DEF InputInv, SegStates
<1>4. ASSUME SegInv, Announces(Here, n), input.state \in {"IDLE", "LOADING"} PROVE SegInv'
  <2>1. taken \in {n - 1, n}
    <3>1. /\ input.no = n \/ (input.no = n - 1 /\ (input.no = 0 \/ Len(input.data) = SegChunks[input.no]))
      BY <1>4 DEF Announces, Here, Complete
    <3>2. QED
      BY <1>4, <3>1, InputIs, Segments DEF SegInv
  <2>2. input'.data = [g \in 1..Len(input'.data) |-> Arrives(input'.no, g - 1)]
    BY <1>2
  <2>3. QED
    BY <1>2, <2>1, <2>2, Segments DEF SegInv
<1>5. QED
  BY <1>2, <1>3, <1>4 DEF Here

\* The input takes a frame, the next one when it has those before it.
LEMMA DataServed ==
  ASSUME InputInv, NEW n \in 1..Last, NEW k \in 0..SegChunks[n] - 1, NEW f, f.fc = 16, f.addr = FRAME_INDEX,
         f.data = <<"data", n, k>>, f.qty = 1 + BufLen(n, k) \div 2,
         input' = Callback(f).state, taken' = taken
  PROVE  /\ InputInv'
         /\ SegInv /\ Here = <<n, k>> => SegInv' /\ Here' = <<n, k + 1>>
<1> DEFINE d == Arrives(n, k)
           seg == Filled(input, d)
<1>1. input' = IF input.state # "LOADING" THEN input
               ELSE IF input.total <= k + 1 THEN [seg EXCEPT !.state = "FULL"] ELSE seg
  <2>1. FRAME_INDEX # FILE_TYPE
    BY DEF FRAME_INDEX, FILE_TYPE
  <2>2. Callback(f) = FileFrame(<<"data", n, k>>, 1 + BufLen(n, k) \div 2)
    BY <2>1 DEF Callback
  <2>3. Piece(<<"data", n, k>>, 1 + BufLen(n, k) \div 2) = d
    BY ArrivesAll
  <2>4. QED
    BY <2>2, <2>3 DEF FileFrame
<1>2. n \in 0..Last /\ k \in Nat /\ d \in Pieces
  BY Segments DEF Pieces
<1>3. seg = IF Len(input.data) > input.total THEN input ELSE [input EXCEPT !.data = Append(input.data, d)]
  BY DEF Filled
<1> HIDE DEF d, seg
<1>4. Append(input.data, d) \in Seq(Pieces) /\ Len(Append(input.data, d)) = Len(input.data) + 1
  BY <1>2, InputIs, AppendedIs
<1>5. /\ seg \in [state : SegStates, no : 0..Last, total : Nat, data : Seq(Pieces)]
      /\ Len(seg.data) <= seg.total + 1
  <2>1. CASE Len(input.data) > input.total
    BY <1>3, <2>1 DEF InputInv
  <2>2. CASE ~(Len(input.data) > input.total)
    <3>1. PICK data \in Seq(Pieces) : data = Append(input.data, d)
      BY <1>4
    <3>2. seg = [input EXCEPT !.data = data] /\ Len(data) = Len(input.data) + 1
      BY <1>3, <1>4, <2>2, <3>1
    <3>3. seg \in [state : SegStates, no : 0..Last, total : Nat, data : Seq(Pieces)]
            /\ seg.data = data /\ seg.total = input.total
      BY <3>2 DEF InputInv
    <3>4. QED
      BY <2>2, <3>2, <3>3, InputIs
  <2>3. QED
    BY <2>1, <2>2
<1>6. InputInv'
  <2>1. [seg EXCEPT !.state = "FULL"] \in [state : SegStates, no : 0..Last, total : Nat, data : Seq(Pieces)]
          /\ [seg EXCEPT !.state = "FULL"].data = seg.data /\ [seg EXCEPT !.state = "FULL"].total = seg.total
    BY <1>5 DEF SegStates
  <2>2. QED
    BY <1>1, <1>5, <2>1 DEF InputInv
<1>7. ASSUME SegInv, Here = <<n, k>> PROVE SegInv' /\ Here' = <<n, k + 1>>
  <2>1. /\ input.no = n /\ Len(input.data) = k /\ input.total = SegChunks[n] /\ k < input.total
        /\ input.state = "LOADING" /\ taken \in {n - 1, n}
    BY <1>7, Segments DEF Here, SegInv
  <2>2. PICK data \in Seq(Pieces) : data = Append(input.data, d)
    BY <1>4
  <2>3. Len(data) = k + 1
    BY <1>4, <2>1, <2>2
  <2>4. seg = [input EXCEPT !.data = data]
    <3>1. ~(Len(input.data) > input.total)
      BY <1>2, <2>1, InputIs
    <3>2. QED
      BY <1>3, <2>2, <3>1
  <2>5. /\ input'.no = n /\ input'.total = SegChunks[n] /\ input'.data = data
        /\ input'.state = IF SegChunks[n] <= k + 1 THEN "FULL" ELSE "LOADING"
    <3>1. /\ seg.no = n /\ seg.total = SegChunks[n] /\ seg.data = data /\ seg.state = "LOADING"
          /\ [seg EXCEPT !.state = "FULL"].no = n /\ [seg EXCEPT !.state = "FULL"].total = SegChunks[n]
          /\ [seg EXCEPT !.state = "FULL"].data = data /\ [seg EXCEPT !.state = "FULL"].state = "FULL"
      BY <2>1, <2>4 DEF InputInv
    <3>2. input' = IF SegChunks[n] <= k + 1 THEN [seg EXCEPT !.state = "FULL"] ELSE seg
      BY <1>1, <2>1
    <3>3. QED
      BY <3>1, <3>2
  <2>6. data = [g \in 1..k + 1 |-> Arrives(n, g - 1)]
    <3>1. input.data = [g \in 1..k |-> Arrives(n, g - 1)]
      BY <1>7, <2>1 DEF SegInv
    <3>2. \A g \in 1..k + 1 : data[g] = Arrives(n, g - 1)
      <4>1. data[k + 1] = d /\ \A g \in 1..k : data[g] = input.data[g]
        BY <1>2, <2>1, <2>2, InputIs, AppendedIs
      <4>2. TAKE g \in 1..k + 1
      <4>3. CASE g \in 1..k
        BY <3>1, <4>1, <4>3
      <4>4. CASE g = k + 1
        BY <1>2, <4>1, <4>4 DEF d
      <4>5. QED
        BY <1>2, <4>3, <4>4
    <3>3. data = [g \in 1..k + 1 |-> data[g]]
      BY <2>3
    <3>4. QED
      BY <3>2, <3>3
  <2>7. SegInv'
    BY <1>2, <2>1, <2>3, <2>5, <2>6, Segments DEF SegInv
  <2>8. QED
    BY <2>3, <2>5, <2>7 DEF Here
<1>8. QED
  BY <1>6, <1>7

\* No other request moves the input.
LEMMA OtherServed ==
  ASSUME NEW f \in Requests, f.unit = Unit, ~Upgrading(f)
  PROVE  Callback(f).state = input
<1>1. f.kind = "request"
  BY RequestIs DEF Requests
<1>2. ~(f.fc = 16 /\ f.addr = FRAME_INDEX) /\ (f.fc = 16 /\ f.addr = FILE_TYPE => f.data[1] # "info")
  BY <1>1 DEF Upgrading
<1>3. QED
  BY <1>2 DEF Callback, FileType

\* A request that moves a segment is carried out, and no other moves the input.
LEMMA ServesInput ==
  ASSUME LineTypes, InputInv, FrameInv, Serves
  PROVE  /\ toUnit # <<>> /\ toUnit[1] \in Requests /\ toUnit[1].unit = Unit
         /\ InputInv' /\ taken' = taken
         /\ ~Upgrading(toUnit[1]) => input' = input
         /\ Upgrading(toUnit[1]) /\ SegInv /\ Follows(Here, PlaceOf(toUnit[1])) =>
              SegInv' /\ Here' = PlaceOf(toUnit[1])
<1>1. /\ toUnit # <<>> /\ input.state \in {"IDLE", "LOADING"} /\ taken' = taken
      /\ Head(toUnit).kind = "request" /\ ~LeavesRest(Unit, Head(toUnit))
  BY DEF Serves, Polls
<1>2. Len(toUnit) \in Nat \ {0} /\ Head(toUnit) = toUnit[1] /\ toUnit[1] \in Items
  BY <1>1, LineTypesAre, TailIs
<1>3. PICK f \in Requests : f = toUnit[1]
  BY <1>1, <1>2, ItemsAre
<1>4. f.unit = Unit /\ f = Head(toUnit)
  BY <1>1, <1>2, <1>3 DEF LeavesRest
<1>5. \/ Refusal(f, f.fc \in Served) # 0 /\ input' = input
      \/ input' = Callback(f).state
  BY <1>4 DEF Serves
<1>6. f.fc = 16 => Refusal(f, f.fc \in Served) = 0
  <2>1. PICK c \in Sendable : f = Request(c)
    BY DEF Requests
  <2>2. (f.fc \in Served) \in BOOLEAN
    OBVIOUS
  <2>3. Refusal(f, f.fc \in Served) = Asks(f.fc \in Served)
    BY <2>1, <2>2, NothingToRefuse
  <2>4. QED
    BY <2>3 DEF Asks, Served
<1>7. CASE ~Upgrading(f)
  <2>1. input' = input
    BY <1>4, <1>5, <1>7, OtherServed
  <2>2. InputInv'
    BY <1>1, <2>1 DEF InputInv
  <2>3. QED
    BY <1>1, <1>3, <1>4, <1>7, <2>1, <2>2
<1>8. ASSUME Upgrading(f) PROVE input' = Callback(f).state /\ (IsInfo(f) \/ IsData(f))
  <2>1. f.fc = 16
    BY <1>8 DEF Upgrading
  <2>2. UpFits(f)
    BY <1>2, <1>3 DEF FrameInv
  <2>3. QED
    BY <1>5, <1>6, <1>8, <2>1, <2>2 DEF UpFits
<1>9. CASE Upgrading(f) /\ IsInfo(f)
  <2>1. PICK n \in 1..Last : f = Request(InfoOf(n))
    BY <1>9 DEF IsInfo
  <2>2. f.fc = 16 /\ f.addr = FILE_TYPE /\ f.data = <<"info", n, SegChunks[n]>> /\ PlaceOf(f) = <<n, 0>>
    BY <2>1, InfoRequest
  <2>3. InputInv' /\ Here' = <<n, 0>> /\ (SegInv /\ Announces(Here, n) => SegInv')
    BY <1>1, <1>8, <1>9, <2>2, InfoServed
  <2>4. Follows(Here, <<n, 0>>) => Announces(Here, n)
    BY DEF Follows
  <2>5. QED
    BY <1>1, <1>3, <1>4, <1>9, <2>2, <2>3, <2>4
<1>10. CASE Upgrading(f) /\ IsData(f)
  <2>1. PICK n \in 1..Last : \E k \in 0..SegChunks[n] - 1 : f = Request(DataOf(n, k))
    BY <1>10 DEF IsData
  <2>2. PICK k \in 0..SegChunks[n] - 1 : f = Request(DataOf(n, k))
    BY <2>1
  <2>3. /\ f.fc = 16 /\ f.addr = FRAME_INDEX /\ f.data = <<"data", n, k>>
        /\ f.qty = 1 + BufLen(n, k) \div 2 /\ PlaceOf(f) = <<n, k + 1>>
    BY <2>2, DataRequest
  <2>4. InputInv' /\ (SegInv /\ Here = <<n, k>> => SegInv' /\ Here' = <<n, k + 1>>)
    BY <1>1, <1>8, <1>10, <2>3, DataServed
  <2>5. Follows(Here, <<n, k + 1>>) => Here = <<n, k>>
    <3>1. Len(input.data) \in Nat /\ k \in Nat
      BY InputIs, Segments
    <3>2. QED
      BY <3>1 DEF Follows, Here
  <2>6. QED
    BY <1>1, <1>3, <1>4, <1>10, <2>3, <2>4, <2>5
<1>11. QED
  BY <1>7, <1>8, <1>9, <1>10

\* The receiving side's own session leaves the frames alone.
LEMMA DeviceInput ==
  ASSUME InputInv, Takes \/ Completes
  PROVE  InputInv' /\ Here' = Here /\ (SegInv => SegInv')
<1>1. input.state \in SegStates /\ input.no \in 0..Last /\ input.total \in Nat
  BY InputIs
<1>2. CASE Takes
  <2>1. /\ input.state = "FULL" /\ input'.state = "WAITING" /\ taken' = input.no
        /\ input'.no = input.no /\ input'.total = input.total /\ input'.data = input.data
    BY <1>2 DEF Takes, InputInv
  <2>2. InputInv'
    BY <1>2, <2>1 DEF InputInv, SegStates, Takes
  <2>3. SegInv => SegInv'
    BY <1>1, <2>1, Segments DEF SegInv
  <2>4. QED
    BY <2>1, <2>2, <2>3 DEF Here
<1>3. CASE Completes
  <2>1. /\ input.state = "WAITING" /\ input'.state = "IDLE" /\ taken' = taken
        /\ input'.no = input.no /\ input'.total = input.total /\ input'.data = input.data
    BY <1>3 DEF Completes, InputInv
  <2>2. InputInv'
    BY <1>3, <2>1 DEF InputInv, SegStates, Completes
  <2>3. SegInv => SegInv'
    BY <1>1, <2>1, Segments DEF SegInv
  <2>4. QED
    BY <2>1, <2>2, <2>3 DEF Here
<1>4. QED
  BY <1>2, <1>3

\* The requests on the line that move a segment stay within the firmware.
LEMMA AfterFrames ==
  ASSUME LineTypes, FrameInv, NEW p, After(p)
  PROVE  FrameInv'
<1>1. toUnit \in Seq(Items) /\ Len(toUnit) \in Nat
  BY LineTypesAre
<1>2. ASSUME NEW f \in Items, UpFits(f), toUnit' = Append(toUnit, f) PROVE FrameInv'
  <2>1. /\ Len(toUnit') = Len(toUnit) + 1 /\ toUnit'[Len(toUnit) + 1] = f
        /\ \A i \in 1..Len(toUnit) : toUnit'[i] = toUnit[i]
    BY <1>1, <1>2, AppendedIs
  <2>2. QED
    BY <1>1, <1>2, <2>1 DEF FrameInv
<1>3. CASE toUnit' = toUnit
  BY <1>3 DEF FrameInv
<1>4. CASE \E f \in Requests : ~Upgrading(f) /\ toUnit' = Append(toUnit, f)
  BY <1>2, <1>4 DEF UpFits, Items
<1>5. CASE slv'.index \in 1..Last /\ toUnit' = Append(toUnit, Request(InfoOf(slv'.index)))
  <2>1. PICK n \in 1..Last : n = slv'.index
    BY <1>5
  <2>2. Request(InfoOf(n)) \in Items /\ UpFits(Request(InfoOf(n)))
    BY InfoRequest DEF UpFits, IsInfo, Items
  <2>3. QED
    BY <1>2, <1>5, <2>1, <2>2
<1>6. CASE /\ slv'.index \in 1..Last /\ out'.frame \in 0..SegChunks[slv'.index] - 1
           /\ toUnit' = Append(toUnit, Request(DataOf(slv'.index, out'.frame)))
  <2>1. PICK n \in 1..Last : n = slv'.index
    BY <1>6
  <2>2. PICK k \in 0..SegChunks[n] - 1 : k = out'.frame
    BY <1>6, <2>1
  <2>3. Request(DataOf(n, k)) \in Items /\ UpFits(Request(DataOf(n, k)))
    BY DataRequest DEF UpFits, IsData, Items
  <2>4. QED
    BY <1>2, <1>6, <2>1, <2>2, <2>3
<1>7. QED
  BY <1>3, <1>4, <1>5, <1>6 DEF After

LEMMA ThinnerFrames ==
  ASSUME FrameInv, Len(toUnit) \in Nat, toUnit' = toUnit \/ Thinner(Items, toUnit, toUnit')
  PROVE  FrameInv'
<1>1. UpFits(Junk)
  BY DEF UpFits, Upgrading, Junk
<1>2. QED
  BY <1>1 DEF FrameInv, Thinner

-----------------------------------------------------------------------------
(* A line that loses nothing: each request on it that moves a segment goes   *)
(* on where the one before left it, the first where the receiving side is.   *)

Path(P) ==
  /\ P[0] = Here
  /\ \A i \in 1..Len(toUnit) :
       IF Upgrading(toUnit[i]) THEN P[i] = PlaceOf(toUnit[i]) /\ Follows(P[i - 1], P[i])
                               ELSE P[i] = P[i - 1]

\* The last one is the last the sender has sent.
Joined == \E P : Path(P) /\ Stands(P[Len(toUnit)], TRUE)

Clean == \A i \in 1..Len(toUnit) : toUnit[i] # Junk /\ toUnit[i].unit = Unit

LossInv == Lossless => SegInv /\ Clean /\ Joined

LEMMA AfterPath ==
  ASSUME LineTypes, Clean, Lossless', NEW P, Path(P), NEW p, p = P[Len(toUnit)], After(p), Here' = Here
  PROVE  Clean' /\ Joined'
<1>1. toUnit \in Seq(Items) /\ Len(toUnit) \in Nat
  BY LineTypesAre
<1>2. ASSUME NEW f \in Requests, f.unit = Unit, toUnit' = Append(toUnit, f), NEW q,
             IF Upgrading(f) THEN q = PlaceOf(f) /\ Follows(p, q) ELSE q = p, Stands(q, TRUE)'
      PROVE  Clean' /\ Joined'
  <2>1. f \in Items /\ f # Junk
    BY RequestIs DEF Items, Requests
  <2>2. /\ Len(toUnit') = Len(toUnit) + 1 /\ toUnit'[Len(toUnit) + 1] = f
        /\ \A i \in 1..Len(toUnit) : toUnit'[i] = toUnit[i]
    BY <1>1, <1>2, <2>1, AppendedIs
  <2>3. Clean'
    BY <1>1, <1>2, <2>1, <2>2 DEF Clean
  <2> DEFINE Q == [i \in 0..Len(toUnit) + 1 |-> IF i = Len(toUnit) + 1 THEN q ELSE P[i]]
  <2>4. Q[Len(toUnit) + 1] = q /\ \A i \in 0..Len(toUnit) : Q[i] = P[i]
    BY <1>1
  <2> HIDE DEF Q
  <2>5. Q[0] = Here'
    BY <1>1, <2>4 DEF Path
  <2>6. \A i \in 1..Len(toUnit') :
           IF Upgrading(toUnit'[i]) THEN Q[i] = PlaceOf(toUnit'[i]) /\ Follows(Q[i - 1], Q[i])
                                    ELSE Q[i] = Q[i - 1]
    <3>1. TAKE i \in 1..Len(toUnit')
    <3>2. CASE i \in 1..Len(toUnit)
      <4>1. i - 1 \in 0..Len(toUnit) /\ i \in 0..Len(toUnit)
        BY <1>1, <3>2
      <4>2. Q[i] = P[i] /\ Q[i - 1] = P[i - 1] /\ toUnit'[i] = toUnit[i]
        BY <2>2, <2>4, <3>2, <4>1
      <4>3. QED
        BY <3>2, <4>2 DEF Path
    <3>3. CASE i = Len(toUnit) + 1
      <4>1. Q[i] = q /\ Q[i - 1] = p /\ toUnit'[i] = f
        BY <1>1, <2>2, <2>4, <3>3
      <4>2. QED
        BY <1>2, <4>1
    <3>4. QED
      BY <1>1, <2>2, <3>2, <3>3
  <2>7. PICK R : R = Q
    OBVIOUS
  <2>8. Path(R)'
    BY <2>5, <2>6, <2>7 DEF Path
  <2>9. R[Len(toUnit)'] = q
    BY <2>2, <2>4, <2>7
  <2>10. Joined'
    BY <1>2, <2>8, <2>9 DEF Joined
  <2>11. QED
    BY <2>3, <2>10
<1>3. CASE pc' \notin {"info", "data"} /\ Rests(p)' /\ toUnit' = toUnit
  <2>1. Clean' /\ Path(P)'
    BY <1>3 DEF Clean, Path
  <2>2. Stands(P[Len(toUnit)], TRUE)'
    BY <1>3 DEF Stands
  <2>3. QED
    BY <2>1, <2>2 DEF Joined
<1>4. CASE /\ pc' \notin {"info", "data"} /\ Rests(p)'
           /\ \E f \in Requests : f.unit = Unit /\ ~Upgrading(f) /\ toUnit' = Append(toUnit, f)
  <2>1. Stands(p, TRUE)'
    BY <1>4 DEF Stands
  <2>2. QED
    BY <1>2, <1>4, <2>1
<1>5. CASE /\ pc' = "info" /\ slv'.index \in 1..Last /\ Announces(p, slv'.index)
           /\ toUnit' = Append(toUnit, Request(InfoOf(slv'.index)))
  <2>1. PICK n \in 1..Last : n = slv'.index
    BY <1>5
  <2>2. PICK f \in Requests : f = Request(InfoOf(n)) /\ Upgrading(f) /\ f.unit = Unit /\ PlaceOf(f) = <<n, 0>>
    BY InfoRequest
  <2>3. Follows(p, <<n, 0>>)
    BY <1>5, <2>1 DEF Follows
  <2>4. Stands(<<n, 0>>, TRUE)'
    BY <1>5, <2>1 DEF Stands
  <2>5. QED
    BY <1>2, <1>5, <2>1, <2>2, <2>3, <2>4
<1>6. CASE /\ pc' = "data" /\ slv'.index \in 1..Last /\ out'.frame \in 0..SegChunks[slv'.index] - 1
           /\ p = <<slv'.index, out'.frame>>
           /\ toUnit' = Append(toUnit, Request(DataOf(slv'.index, out'.frame)))
  <2>1. PICK n \in 1..Last : n = slv'.index
    BY <1>6
  <2>2. PICK k \in 0..SegChunks[n] - 1 : k = out'.frame
    BY <1>6, <2>1
  <2>3. PICK f \in Requests : /\ f = Request(DataOf(n, k)) /\ Upgrading(f) /\ f.unit = Unit
                              /\ PlaceOf(f) = <<n, k + 1>>
    BY DataRequest
  <2>4. Follows(p, <<n, k + 1>>)
    <3>1. k \in Nat
      BY Segments
    <3>2. QED
      BY <1>6, <2>1, <2>2, <3>1 DEF Follows
  <2>5. Stands(<<n, k + 1>>, TRUE)'
    BY <1>6, <2>1, <2>2 DEF Stands
  <2>6. QED
    BY <1>2, <1>6, <2>1, <2>2, <2>3, <2>4, <2>5
<1>7. QED
  BY <1>3, <1>4, <1>5, <1>6 DEF After

\* The first request leaves the line.
LEMMA ServedPath ==
  ASSUME LineTypes, InputInv, FrameInv, Serves, SegInv, Clean, Joined
  PROVE  SegInv' /\ Clean' /\ Joined'
<1>1. PICK P : Path(P) /\ Stands(P[Len(toUnit)], TRUE)
  BY DEF Joined
<1>2. /\ toUnit # <<>> /\ InputInv' /\ taken' = taken
      /\ ~Upgrading(toUnit[1]) => input' = input
      /\ Upgrading(toUnit[1]) /\ SegInv /\ Follows(Here, PlaceOf(toUnit[1])) =>
           SegInv' /\ Here' = PlaceOf(toUnit[1])
  BY ServesInput
<1>3. toUnit' = Tail(toUnit) /\ UNCHANGED <<slv, out, pc>>
  BY DEF Serves
<1>4. /\ Len(toUnit) \in Nat \ {0} /\ Len(toUnit') = Len(toUnit) - 1
      /\ \A i \in 1..Len(toUnit) - 1 : toUnit'[i] = toUnit[i + 1]
  BY <1>2, <1>3, LineTypesAre, TailIs
<1>5. P[0] = Here /\ (IF Upgrading(toUnit[1]) THEN P[1] = PlaceOf(toUnit[1]) /\ Follows(P[0], P[1])
                                              ELSE P[1] = P[0])
  BY <1>1, <1>4 DEF Path
<1>6. SegInv' /\ Here' = P[1]
  <2>1. CASE Upgrading(toUnit[1])
    BY <1>2, <1>5, <2>1
  <2>2. CASE ~Upgrading(toUnit[1])
    BY <1>2, <1>5, <2>2 DEF SegInv, Here
  <2>3. QED
    BY <2>1, <2>2
<1>7. Clean'
  BY <1>4 DEF Clean
<1> DEFINE Q == [i \in 0..Len(toUnit) - 1 |-> P[i + 1]]
<1>8. \A i \in 0..Len(toUnit) - 1 : Q[i] = P[i + 1]
  OBVIOUS
<1> HIDE DEF Q
<1>9. Q[0] = Here'
  BY <1>4, <1>6, <1>8
<1>10. \A i \in 1..Len(toUnit') :
         IF Upgrading(toUnit'[i]) THEN Q[i] = PlaceOf(toUnit'[i]) /\ Follows(Q[i - 1], Q[i])
                                  ELSE Q[i] = Q[i - 1]
  <2>1. TAKE i \in 1..Len(toUnit')
  <2>2. /\ i \in 1..Len(toUnit) - 1 /\ i \in 0..Len(toUnit) - 1 /\ i - 1 \in 0..Len(toUnit) - 1
        /\ i + 1 \in 1..Len(toUnit) /\ (i - 1) + 1 = i /\ (i + 1) - 1 = i
    BY <1>4
  <2>3. Q[i] = P[i + 1] /\ Q[i - 1] = P[i] /\ toUnit'[i] = toUnit[i + 1]
    BY <1>4, <1>8, <2>2
  <2>4. IF Upgrading(toUnit[i + 1])
          THEN P[i + 1] = PlaceOf(toUnit[i + 1]) /\ Follows(P[i], P[i + 1]) ELSE P[i + 1] = P[i]
    BY <1>1, <2>2 DEF Path
  <2>5. QED
    BY <2>3, <2>4
<1>11. PICK R : R = Q
  OBVIOUS
<1>12. Path(R)'
  BY <1>9, <1>10, <1>11 DEF Path
<1>13. R[Len(toUnit)'] = P[Len(toUnit)]
  BY <1>4, <1>8, <1>11
<1>14. PICK p : p = P[Len(toUnit)]
  OBVIOUS
<1>15. Stands(p, TRUE)'
  BY <1>1, <1>3, <1>14 DEF Stands, Rests
<1>16. QED
  BY <1>6, <1>7, <1>12, <1>13, <1>14, <1>15 DEF Joined

-----------------------------------------------------------------------------
(* With every call answered, the receiving side is where the sender expects  *)
(* it, or one request behind while that one is on its way or lost.           *)

NoUps    == \A i \in 1..Len(toUnit) : ~Upgrading(toUnit[i])
NoAnswer == \A j \in 1..Len(toClient) : toClient[j] = Junk

Stage(p) ==
  \/ pc = "data" /\ p = <<slv.index, out.frame>> /\ NoAnswer
  \/ pc = "data" /\ p = <<slv.index, out.frame + 1>> /\ NoUps
  \/ pc = "info" /\ Announces(p, slv.index) /\ NoAnswer
  \/ pc = "info" /\ p = <<slv.index, 0>> /\ NoUps
  \/ pc \notin {"info", "data"} /\ Rests(p)

StepInv == inStep => SegInv /\ \E p : p = Here /\ Stage(p)

Numbers == faults \in Nat /\ late \in Nat /\ faults + late <= MaxTrouble

UpgradeInv ==
  LineInv /\ Numbers /\ SenderInv /\ InputInv /\ FrameInv /\ LossInv /\ StepInv

\* A step of the sending side between two calls.
LEMMA RunSends ==
  ASSUME LineTypes, Numbers, SenderInv,
         OutputSkips \/ OutputCalls \/ OutputTimer \/ SlaveTimer \/ AppCall \/ ForeignFrame
  PROVE  /\ pc = "run" /\ SenderInv' /\ UNCHANGED <<toClient, devVars, inStep>> /\ Numbers'
         /\ Lossless' => Lossless
         /\ \A p : Rests(p) => After(p)
<1>1. /\ pc = "run" /\ UNCHANGED <<toClient, devVars, inStep, late>>
      /\ \/ faults' = faults
         \/ faults' = faults + 1 /\ faults + late < MaxTrouble
         \/ \E c \in AppCalls : /\ c.unit # Unit => faults + late < MaxTrouble
                                /\ faults' = faults + IF c.unit = Unit THEN 0 ELSE 1
  BY DEF OutputSkips, OutputCalls, OutputTimer, SlaveTimer, AppCall, ForeignFrame, Running, mbVars, trouble
<1>2. faults' = faults \/ (faults' = faults + 1 /\ faults + late < MaxTrouble)
  BY <1>1 DEF Numbers
<1>3. Numbers' /\ (Lossless' => Lossless)
  BY <1>1, <1>2, ModbusAssumption DEF Numbers, Lossless
<1>4. \A p : Rests(p) => SenderInv' /\ After(p)
  BY IdleSender, TimerSender, UsersSender DEF Numbers
<1>5. Rests(<<slv.index, out.frame>>)
  BY DEF Rests, Announces
<1>6. QED
  BY <1>1, <1>3, <1>4, <1>5

\* The end of a call.
LEMMA EndSends ==
  ASSUME LineTypes, SenderInv, pc # "run", NEW result, NEW status, Ends(result, status)
  PROVE  /\ SenderInv'
         /\ \A p : Stands(p, result = "NONE") => After(p)
<1>1. \A p : Stands(p, result = "NONE") => SenderInv' /\ After(p)
  BY EndsSender
<1>2. \E p : Stands(p, result = "NONE")
  <2>1. CASE pc = "data"
    <3>1. Stands(<<slv.index, out.frame + 1>>, result = "NONE")
      BY <2>1 DEF Stands
    <3>2. QED
      BY <3>1
  <2>2. CASE pc = "info"
    <3>1. Stands(<<slv.index, 0>>, result = "NONE")
      BY <2>2 DEF Stands
    <3>2. QED
      BY <3>1
  <2>3. CASE pc \notin {"info", "data"}
    <3>1. Stands(<<slv.index, out.frame>>, result = "NONE")
      BY <2>3 DEF Stands, Rests, Announces
    <3>2. QED
      BY <3>1
  <2>4. QED
    BY <2>1, <2>2, <2>3
<1>3. QED
  BY <1>1, <1>2

\* What the sender sends keeps a lossless line joined.
LEMMA SentLoss ==
  ASSUME LineTypes, LossInv, Lossless' => Lossless, UNCHANGED devVars,
         \A p : Stands(p, TRUE) => After(p)
  PROVE  LossInv'
<1>1. SUFFICES ASSUME Lossless' PROVE SegInv' /\ Clean' /\ Joined'
  BY DEF LossInv
<1>2. SegInv /\ Clean /\ Joined
  BY <1>1 DEF LossInv
<1>3. SegInv' /\ Here' = Here
  BY <1>2 DEF SegInv, Here, devVars
<1>4. PICK P : Path(P) /\ Stands(P[Len(toUnit)], TRUE)
  BY <1>2 DEF Joined
<1>5. PICK p : p = P[Len(toUnit)]
  OBVIOUS
<1>6. After(p)
  BY <1>4, <1>5
<1>7. Clean' /\ Joined'
  BY <1>1, <1>2, <1>3, <1>4, <1>5, <1>6, AfterPath
<1>8. QED
  BY <1>3, <1>7

\* What is left of a call that was answered, or never will be.
LEMMA SentStage ==
  ASSUME NEW p, p = Here, After(p), UNCHANGED devVars, SegInv, toClient' = <<>>
  PROVE  StepInv'
<1>1. SegInv' /\ p = Here'
  BY DEF SegInv, Here, devVars
<1>2. NoAnswer'
  BY DEF NoAnswer
<1>3. Stage(p)'
  BY <1>2 DEF After, Stage
<1>4. QED
  BY <1>1, <1>3 DEF StepInv

LEMMA RunStep ==
  ASSUME UpgradeInv,
         OutputSkips \/ OutputCalls \/ OutputTimer \/ SlaveTimer \/ AppCall \/ ForeignFrame
  PROVE  Numbers' /\ SenderInv' /\ InputInv' /\ FrameInv' /\ LossInv' /\ StepInv'
<1>1. LineTypes /\ Numbers /\ SenderInv /\ InputInv /\ FrameInv /\ LossInv /\ StepInv
  BY DEF UpgradeInv, LineInv
<1>2. /\ pc = "run" /\ SenderInv' /\ UNCHANGED <<toClient, devVars, inStep>> /\ Numbers'
      /\ Lossless' => Lossless
      /\ \A p : Rests(p) => After(p)
  BY <1>1, RunSends
<1>3. InputInv'
  BY <1>1, <1>2 DEF InputInv, devVars
<1>4. FrameInv'
  <2>1. PICK p : p = <<slv.index, out.frame>>
    OBVIOUS
  <2>2. Rests(p)
    BY <2>1 DEF Rests, Announces
  <2>3. QED
    BY <1>1, <1>2, <2>2, AfterFrames
<1>5. LossInv'
  <2>1. \A p : Stands(p, TRUE) => After(p)
    BY <1>2 DEF Stands
  <2>2. QED
    BY <1>1, <1>2, <2>1, SentLoss
<1>6. StepInv'
  <2>1. SUFFICES ASSUME inStep' PROVE StepInv'
    BY DEF StepInv
  <2>2. inStep /\ QuietLine /\ SegInv
    BY <1>1, <1>2, <2>1 DEF UpgradeInv, LineInv, StepInv
  <2>3. PICK p : p = Here /\ Stage(p)
    BY <1>1, <2>2 DEF StepInv
  <2>4. Rests(p)
    BY <1>2, <2>3 DEF Stage
  <2>5. toClient' = <<>>
    BY <1>2, <2>2, QuietBetween
  <2>6. QED
    BY <1>2, <2>2, <2>3, <2>4, <2>5, SentStage
<1>7. QED
  BY <1>2, <1>3, <1>4, <1>5, <1>6

LEMMA EndStep ==
  ASSUME UpgradeInv, Hears \/ HearsJunk \/ TimesOut
  PROVE  Numbers' /\ SenderInv' /\ InputInv' /\ FrameInv' /\ LossInv' /\ StepInv'
<1>1. LineTypes /\ Numbers /\ SenderInv /\ InputInv /\ FrameInv /\ LossInv /\ StepInv
  BY DEF UpgradeInv, LineInv
<1>2. PICK result : /\ \E status : Ends(result, status)
                    /\ inStep' => /\ inStep
                                  /\ \/ Hears /\ ~RefusedEarly(call, Head(toClient))
                                     \/ toClient = <<>> /\ toClient' = <<>> /\ result # "NONE"
  <2>1. CASE Hears
    BY <2>1 DEF Hears
  <2>2. CASE HearsJunk
    BY <2>2 DEF HearsJunk
  <2>3. CASE TimesOut
    BY <2>3 DEF TimesOut, AnswerMayCome
  <2>4. QED
    BY <2>1, <2>2, <2>3
<1>3. pc # "run" /\ UNCHANGED <<devVars, faults>> /\ (late' = late \/ (late' = late + 1 /\ faults + late < MaxTrouble))
  BY DEF Hears, HearsJunk, TimesOut
<1>4. Numbers' /\ (Lossless' => Lossless)
  BY <1>1, <1>3, ModbusAssumption DEF Numbers, Lossless
<1>5. SenderInv' /\ \A p : Stands(p, result = "NONE") => After(p)
  BY <1>1, <1>2, <1>3, EndSends
<1>6. InputInv'
  BY <1>1, <1>3 DEF InputInv, devVars
<1>7. \A p : Stands(p, TRUE) => Stands(p, result = "NONE")
  BY DEF Stands
<1>8. FrameInv'
  <2>1. \E p : Stands(p, result = "NONE")
    <3>1. PICK p : p = IF pc = "data" THEN <<slv.index, out.frame + 1>>
                       ELSE IF pc = "info" THEN <<slv.index, 0>> ELSE <<slv.index, out.frame>>
      OBVIOUS
    <3>2. Stands(p, TRUE)
      BY <3>1 DEF Stands, Rests, Announces
    <3>3. QED
      BY <1>7, <3>2
  <2>2. QED
    BY <1>1, <1>5, <2>1, AfterFrames
<1>9. LossInv'
  BY <1>1, <1>3, <1>4, <1>5, <1>7, SentLoss
<1>10. StepInv'
  <2>1. SUFFICES ASSUME inStep' PROVE StepInv'
    BY DEF StepInv
  <2>2. inStep /\ QuietLine /\ SegInv
    BY <1>1, <1>2, <2>1 DEF UpgradeInv, LineInv, StepInv
  <2>3. PICK p : p = Here /\ Stage(p)
    BY <1>1, <2>2 DEF StepInv
  <2>4. CASE Hears /\ ~RefusedEarly(call, Head(toClient))
    <3>1. toClient # <<>> /\ Len(toClient) = 1
      BY <2>2, <2>4 DEF Hears, QuietLine
    <3>2. Head(toClient) = toClient[1] /\ Tail(toClient) \in Seq(Replies \cup {Junk}) /\ Len(Tail(toClient)) = 0
      BY <1>1, <3>1, LineTypesAre, TailIs
    <3>3. Tail(toClient) = <<>>
      BY <3>2, EmptyIs
    <3>4. toClient' = <<>>
      BY <2>4, <3>3 DEF Hears
    <3>5. toClient[1] # Junk
      BY <2>4, <3>2 DEF Hears, Junk
    <3>6. ~NoAnswer
      BY <3>1, <3>5 DEF NoAnswer
    <3>7. Stands(p, result = "NONE")
      BY <2>3, <3>6 DEF Stage, Stands
    <3>8. QED
      BY <1>3, <1>5, <2>2, <2>3, <3>4, <3>7, SentStage
  <2>5. CASE toClient = <<>> /\ toClient' = <<>> /\ result # "NONE"
    <3>1. Stands(p, result = "NONE")
      BY <2>3, <2>5 DEF Stage, Stands
    <3>2. QED
      BY <1>3, <1>5, <2>2, <2>3, <2>5, <3>1, SentStage
  <2>6. QED
    BY <1>2, <2>1, <2>4, <2>5
<1>11. QED
  BY <1>4, <1>5, <1>6, <1>8, <1>9, <1>10

\* The receiving side and the line leave the sender as it is.
LEMMA SenderKept ==
  ASSUME UNCHANGED <<slv, out, pc, call, reported>>
  PROVE  /\ SenderInv => SenderInv'
         /\ \A p : Rests(p) => Rests(p)'
  BY DEF SenderInv, CallFits, Rests

LEMMA ServesStep ==
  ASSUME UpgradeInv, Serves
  PROVE  Numbers' /\ SenderInv' /\ InputInv' /\ FrameInv' /\ LossInv' /\ StepInv'
<1>1. LineTypes /\ Numbers /\ SenderInv /\ InputInv /\ FrameInv /\ LossInv /\ StepInv
  BY DEF UpgradeInv, LineInv
<1>2. UNCHANGED <<slv, out, pc, call, reported, faults, late, inStep>> /\ toUnit' = Tail(toUnit)
  BY DEF Serves, trouble
<1>3. Numbers' /\ SenderInv' /\ (Lossless' => Lossless)
  BY <1>1, <1>2, SenderKept DEF Numbers, Lossless
<1>4. PICK f \in Requests : f = toUnit[1]
  BY <1>1, ServesInput
<1>5. /\ toUnit # <<>> /\ f.unit = Unit /\ InputInv' /\ taken' = taken
      /\ ~Upgrading(f) => input' = input
      /\ Upgrading(f) /\ SegInv /\ Follows(Here, PlaceOf(f)) => SegInv' /\ Here' = PlaceOf(f)
  BY <1>1, <1>4, ServesInput
<1>6. FrameInv'
  <2>1. Thinner(Items, toUnit, toUnit')
    BY <1>1, <1>2, <1>5, LineTypesAre, TailThinner
  <2>2. QED
    BY <1>1, <2>1, LineTypesAre, ThinnerFrames
<1>7. LossInv'
  BY <1>1, <1>3, ServedPath DEF LossInv
<1>8. StepInv'
  <2>1. SUFFICES ASSUME inStep' PROVE StepInv'
    BY DEF StepInv
  <2>2. inStep /\ QuietLine /\ SegInv
    BY <1>1, <1>2, <2>1 DEF UpgradeInv, LineInv, StepInv
  <2>3. PICK p : p = Here /\ Stage(p)
    BY <1>1, <2>2 DEF StepInv
  <2>4. Len(toUnit) \in Nat \ {0} /\ Tail(toUnit) \in Seq(Items) /\ Len(Tail(toUnit)) = Len(toUnit) - 1
    BY <1>1, <1>5, LineTypesAre, TailIs
  <2>5. f # Junk
    BY RequestIs DEF Requests
  <2>6. Asked(1)
    <3>1. 1 \in 1..Len(toUnit)
      BY <2>4
    <3>2. ~Noise(toUnit[1])
      BY <1>4, <1>5, <2>5 DEF Noise
    <3>3. QED
      BY <2>2, <3>1, <3>2 DEF QuietLine
  <2>7. Len(toUnit) = 1 /\ pc # "run" /\ f = Request(call)
    BY <1>4, <2>6 DEF Asked
  <2>8. NoUps'
    <3>1. Len(toUnit') = 0
      BY <1>2, <2>4, <2>7
    <3>2. QED
      BY <3>1 DEF NoUps
  <2>9. /\ CallFits /\ Coupled(slv, out) /\ slv \in SlvT /\ out \in OutT
        /\ slv.index \in 1..Last + 1
    BY <1>1, <2>7, SenderIs
  <2>10. Upgrading(f) => ~NoUps
    <3>1. 1 \in 1..Len(toUnit)
      BY <2>7
    <3>2. QED
      BY <1>4, <3>1 DEF NoUps
  <2>11. CASE pc = "info"
    <3>1. slv.index \in 1..Last /\ f = Request(InfoOf(slv.index))
      BY <2>7, <2>9, <2>11, Segments DEF CallFits, Coupled
    <3>2. PICK n \in 1..Last : n = slv.index
      BY <3>1
    <3>3. Upgrading(f) /\ PlaceOf(f) = <<n, 0>>
      BY <3>1, <3>2, InfoRequest
    <3>4. Announces(Here, n)
      BY <2>3, <2>10, <2>11, <3>2, <3>3 DEF Stage
    <3>5. Follows(Here, <<n, 0>>)
      BY <3>4 DEF Follows
    <3>6. SegInv' /\ Here' = <<n, 0>>
      BY <1>5, <2>2, <3>3, <3>5
    <3>7. Stage(<<n, 0>>)'
      BY <1>2, <2>8, <2>11, <3>2 DEF Stage
    <3>8. QED
      BY <3>6, <3>7 DEF StepInv
  <2>12. CASE pc = "data"
    <3>1. /\ slv.index \in 1..Last /\ out.frame \in 0..SegChunks[slv.index] - 1
          /\ f = Request(DataOf(slv.index, out.frame))
      <4>1. slv.index \in 1..Last /\ f = Request(DataOf(slv.index, out.frame)) /\ out.frame < SegChunks[slv.index]
        BY <2>7, <2>9, <2>12, Segments DEF CallFits, Coupled
      <4>2. out.frame \in Nat
        BY <2>9 DEF OutT
      <4>3. QED
        BY <4>1, <4>2, Segments
    <3>2. PICK n \in 1..Last : n = slv.index
      BY <3>1
    <3>3. PICK k \in 0..SegChunks[n] - 1 : k = out.frame
      BY <3>1, <3>2
    <3>4. Upgrading(f) /\ PlaceOf(f) = <<n, k + 1>> /\ k \in Nat
      BY <3>1, <3>2, <3>3, DataRequest, Segments
    <3>5. Here = <<n, k>>
      BY <2>3, <2>10, <2>12, <3>2, <3>3, <3>4 DEF Stage
    <3>6. Follows(Here, <<n, k + 1>>)
      BY <3>4, <3>5 DEF Follows
    <3>7. SegInv' /\ Here' = <<n, k + 1>>
      BY <1>5, <2>2, <3>4, <3>6
    <3>8. Stage(<<n, k + 1>>)'
      BY <1>2, <2>8, <2>12, <3>2, <3>3 DEF Stage
    <3>9. QED
      BY <3>7, <3>8 DEF StepInv
  <2>13. CASE pc \notin {"info", "data"}
    <3>1. input' = input
      BY <1>5, <2>7, <2>9, <2>13 DEF CallFits
    <3>2. SegInv' /\ p = Here'
      BY <1>5, <2>2, <2>3, <3>1 DEF SegInv, Here
    <3>3. Rests(p)'
      BY <1>2, <2>3, <2>13, SenderKept DEF Stage
    <3>4. QED
      BY <1>2, <2>13, <3>2, <3>3 DEF StepInv, Stage
  <2>14. QED
    BY <2>11, <2>12, <2>13
<1>9. QED
  BY <1>3, <1>5, <1>6, <1>7, <1>8

\* A reader that goes on past a frame, and a line that spoils one.
LEMMA ThinnerStep ==
  ASSUME UpgradeInv, PollsPast \/ Spoils
  PROVE  Numbers' /\ SenderInv' /\ InputInv' /\ FrameInv' /\ LossInv' /\ StepInv'
<1>1. LineTypes /\ Numbers /\ SenderInv /\ InputInv /\ FrameInv /\ LossInv /\ StepInv
  BY DEF UpgradeInv, LineInv
<1>2. /\ UNCHANGED <<slv, out, pc, call, reported, late, inStep, devVars>>
      /\ \/ PollsPast /\ faults' = faults
         \/ Spoils /\ faults' = faults + 1 /\ faults + late < MaxTrouble
  BY DEF PollsPast, Spoils, trouble
<1>3. Numbers' /\ SenderInv' /\ InputInv'
  BY <1>1, <1>2, ModbusAssumption, SenderKept DEF Numbers, InputInv, devVars
<1>4. /\ toUnit \in Seq(Items) /\ Junk \in Items /\ Len(toUnit) \in Nat
      /\ toClient \in Seq(Replies \cup {Junk}) /\ Junk \in Replies \cup {Junk} /\ Len(toClient) \in Nat
  BY <1>1, LineTypesAre, ItemsAre
<1>5. /\ toUnit' = toUnit \/ Thinner(Items, toUnit, toUnit')
      /\ toClient' = toClient \/ Thinner(Replies \cup {Junk}, toClient, toClient')
  <2>1. CASE PollsPast
    <3>1. /\ toUnit # <<>> /\ toClient' = toClient
          /\ toUnit' = <<Junk>> \o Tail(toUnit) \/ toUnit' \in Garbled(toUnit)
      BY <2>1 DEF PollsPast, Polls
    <3>2. QED
      BY <1>4, <3>1, RestThinner, GarbledThinner
  <2>2. CASE Spoils
    BY <1>1, <2>2, SpoiltLines
  <2>3. QED
    BY <1>2, <2>1, <2>2
<1>6. FrameInv'
  BY <1>1, <1>4, <1>5, ThinnerFrames
<1>7. ~Lossless'
  <2>1. CASE Spoils
    BY <1>1, <1>2, <2>1 DEF Lossless, Numbers, Spoils
  <2>2. CASE PollsPast
    <3>1. SUFFICES ASSUME Lossless PROVE FALSE
      BY <1>2, <2>2 DEF Lossless, PollsPast, trouble
    <3>2. toUnit # <<>> /\ Head(toUnit) # Junk /\ Head(toUnit).unit = Unit
      <4>1. toUnit # <<>>
        BY <2>2 DEF PollsPast, Polls
      <4>2. 1 \in 1..Len(toUnit) /\ Head(toUnit) = toUnit[1]
        BY <1>4, <4>1, TailIs
      <4>3. QED
        BY <1>1, <3>1, <4>1, <4>2 DEF LossInv, Clean
    <3>3. Head(toUnit) \in Requests
      <4>1. Head(toUnit) \in Items
        BY <1>4, <3>2, TailIs
      <4>2. QED
        BY <3>2, <4>1 DEF Items
    <3>4. Head(toUnit).kind = "request" /\ Head(toUnit).fc \in KnownCodes
      <4>1. PICK c \in Sendable : Head(toUnit) = Request(c)
        BY <3>3 DEF Requests
      <4>2. QED
        BY <4>1, SendableIs, RequestIs DEF CallShape
    <3>5. QED
      BY <2>2, <3>2, <3>4 DEF PollsPast, LeavesRest
  <2>3. QED
    BY <1>2, <2>1, <2>2
<1>8. StepInv'
  <2>1. SUFFICES ASSUME inStep' PROVE StepInv'
    BY DEF StepInv
  <2>2. inStep /\ SegInv
    BY <1>1, <1>2, <2>1 DEF StepInv
  <2>3. PICK p : p = Here /\ Stage(p)
    BY <1>1, <2>2 DEF StepInv
  <2>4. SegInv' /\ p = Here'
    BY <1>2, <2>2, <2>3 DEF SegInv, Here, devVars
  <2>5. NoUps => NoUps'
    <3>1. ~Upgrading(Junk)
      BY DEF Upgrading, Junk
    <3>2. QED
      BY <1>4, <1>5, <3>1 DEF NoUps, Thinner
  <2>6. NoAnswer => NoAnswer'
    BY <1>4, <1>5 DEF NoAnswer, Thinner
  <2>7. Rests(p) => Rests(p)'
    BY <1>2, SenderKept
  <2>8. Stage(p)'
    BY <1>2, <2>3, <2>5, <2>6, <2>7 DEF Stage
  <2>9. QED
    BY <2>4, <2>8 DEF StepInv
<1>9. QED
  BY <1>3, <1>6, <1>7, <1>8 DEF LossInv

\* A step that leaves the sender, the line and the place of the segment alone.
LEMMA StillStep ==
  ASSUME UpgradeInv, Takes \/ Completes \/ UNCHANGED vars
  PROVE  Numbers' /\ SenderInv' /\ InputInv' /\ FrameInv' /\ LossInv' /\ StepInv'
<1>1. LineTypes /\ Numbers /\ SenderInv /\ InputInv /\ FrameInv /\ LossInv /\ StepInv
  BY DEF UpgradeInv, LineInv
<1>2. UNCHANGED <<slv, out, pc, call, reported, toUnit, toClient, faults, late, inStep>>
  BY DEF Takes, Completes, vars, mbVars, trouble
<1>3. InputInv' /\ Here' = Here /\ (SegInv => SegInv')
  <2>1. CASE Takes \/ Completes
    BY <1>1, <2>1, DeviceInput
  <2>2. CASE UNCHANGED vars
    BY <1>1, <2>2 DEF vars, devVars, InputInv, Here, SegInv
  <2>3. QED
    BY <2>1, <2>2
<1>4. Numbers' /\ SenderInv' /\ FrameInv'
  BY <1>1, <1>2, SenderKept DEF Numbers, FrameInv
<1>5. LossInv'
  <2>1. SUFFICES ASSUME Lossless' PROVE SegInv' /\ Clean' /\ Joined'
    BY DEF LossInv
  <2>2. SegInv /\ Clean /\ Joined
    BY <1>1, <1>2, <2>1 DEF LossInv, Lossless
  <2>3. PICK P : Path(P) /\ Stands(P[Len(toUnit)], TRUE)
    BY <2>2 DEF Joined
  <2>4. Path(P)'
    BY <1>2, <1>3, <2>3 DEF Path
  <2>5. Stands(P[Len(toUnit)], TRUE)'
    BY <1>2, <2>3 DEF Stands, Rests
  <2>6. QED
    BY <1>2, <1>3, <2>2, <2>4, <2>5 DEF Clean, Joined
<1>6. StepInv'
  <2>1. SUFFICES ASSUME inStep' PROVE StepInv'
    BY DEF StepInv
  <2>2. inStep /\ SegInv
    BY <1>1, <1>2, <2>1 DEF StepInv
  <2>3. PICK p : p = Here /\ Stage(p)
    BY <1>1, <2>2 DEF StepInv
  <2>4. Stage(p)'
    BY <1>2, <2>3 DEF Stage, NoAnswer, NoUps, Rests
  <2>5. QED
    BY <1>3, <2>2, <2>3, <2>4 DEF StepInv
<1>7. QED
  BY <1>3, <1>4, <1>5, <1>6

LEMMA UpgradeInit == MbInit => UpgradeInv
<1>1. SUFFICES ASSUME MbInit PROVE UpgradeInv
  OBVIOUS
<1>2. LineInv
  BY <1>1, LineInit
<1>3. Numbers /\ SenderInv
  BY <1>1, Segments, ModbusAssumption DEF MbInit, Numbers, SenderInv, Coupled, CallFits
<1>4. /\ input.state = "IDLE" /\ input.no = 0 /\ input.total = 0 /\ input.data = <<>>
      /\ taken = 0 /\ toUnit = <<>> /\ toClient = <<>> /\ pc = "run" /\ slv.index = 1 /\ out.state = "IDLE"
      /\ Here = <<0, 0>>
  BY <1>1 DEF MbInit, Here
<1>5. InputInv
  BY <1>1, Segments DEF MbInit, InputInv, SegStates
<1>6. FrameInv /\ Clean
  BY <1>4 DEF FrameInv, Clean
<1>7. SegInv
  BY <1>4 DEF SegInv
<1>8. Rests(<<0, 0>>)
  BY <1>4 DEF Rests, Announces, Complete
<1>9. Joined
  <2>1. PICK P : P = [i \in 0..0 |-> <<0, 0>>]
    OBVIOUS
  <2>2. Path(P) /\ P[Len(toUnit)] = <<0, 0>>
    BY <1>4, <2>1 DEF Path
  <2>3. Stands(<<0, 0>>, TRUE)
    BY <1>4, <1>8 DEF Stands
  <2>4. QED
    BY <2>2, <2>3 DEF Joined
<1>10. Stage(<<0, 0>>)
  BY <1>4, <1>8 DEF Stage
<1>11. QED
  BY <1>2, <1>3, <1>4, <1>5, <1>6, <1>7, <1>9, <1>10 DEF UpgradeInv, LossInv, StepInv

LEMMA UpgradeStep == UpgradeInv /\ [Next]_vars => UpgradeInv'
<1>1. SUFFICES ASSUME UpgradeInv, [Next]_vars PROVE UpgradeInv'
  OBVIOUS
<1>2. LineInv'
  <2>1. DataFits
    BY <1>1, Segments, LineTypesAre DEF UpgradeInv, LineInv, SenderInv, Coupled, DataFits, Running, OutT
  <2>2. QED
    BY <1>1, <2>1, LineStep DEF UpgradeInv
<1>3. \/ OutputSkips \/ OutputCalls \/ OutputTimer \/ SlaveTimer \/ AppCall \/ ForeignFrame
      \/ Hears \/ HearsJunk \/ TimesOut
      \/ Serves
      \/ PollsPast \/ Spoils
      \/ Takes \/ Completes \/ UNCHANGED vars
  BY <1>1 DEF Next, Master, Device
<1>4. Numbers' /\ SenderInv' /\ InputInv' /\ FrameInv' /\ LossInv' /\ StepInv'
  BY <1>1, <1>3, RunStep, EndStep, ServesStep, ThinnerStep, StillStep
<1>5. QED
  BY <1>2, <1>4 DEF UpgradeInv

LEMMA UpgradeHolds == Spec => []UpgradeInv
<1>1. QED
  BY UpgradeInit, UpgradeStep, PTL DEF Spec

LEMMA LineHolds == Spec => []LineInv
<1>1. UpgradeInv => LineInv
  BY DEF UpgradeInv
<1>2. QED
  BY <1>1, UpgradeHolds, PTL

\* Whatever another user calls and the line spoils, the server never answers
\* a call of this client with an exception for its address or its value: the
\* checks of the client leave none for the handlers of the server.
THEOREM ClientChecksSufficeHolds == Spec => []ClientChecksSuffice
<1>1. LineInv => ClientChecksSuffice
  <2>1. SUFFICES ASSUME LineInv, NEW r \in MbFrames(toClient), r.fc > 128
                 PROVE  r.qty \notin {ILLEGAL_DATA_ADDRESS, ILLEGAL_DATA_VALUE}
    BY DEF ClientChecksSuffice
  <2>2. toClient \in Seq(Replies \cup {Junk})
    BY <2>1, LineTypesAre DEF LineInv
  <2>3. r \in Replies
    BY <2>2 DEF MbFrames
  <2>4. QED
    BY <2>1, <2>3, ExceptionsAre
<1>2. QED
  BY <1>1, LineHolds, PTL

\* A call of the other user that succeeds in step, with every earlier call
\* answered, was the last request the callbacks of the server saw.
THEOREM AppResultHolds == Spec => AppResultIsOwn
<1>1. LineInv /\ [Next]_vars =>
        [pc = "app" /\ pc' = "run" /\ inStep' /\ toClient' # toClient
           /\ Outcome(call, Head(toClient)) = "NONE"
         => executed = Request(call)]_vars
  BY ResultStep
<1>2. QED
  BY <1>1, LineHolds, PTL DEF Spec, AppResultIsOwn

-----------------------------------------------------------------------------
(* The segments come whole.                                                  *)

LEMMA FramesOnTheLine ==
  ASSUME LineTypes
  PROVE  /\ \A f \in MbFrames(toUnit) : f.kind = "request" /\ f.fc \in KnownCodes
         /\ \A r \in MbFrames(toClient) : r.kind = "answer" /\ r.fc % 128 \in KnownCodes
<1>1. \A f \in Requests : f.kind = "request" /\ f.fc \in KnownCodes
  <2>1. TAKE f \in Requests
  <2>2. PICK c \in Sendable : f = Request(c)
    BY DEF Requests
  <2>3. QED
    BY <2>2, SendableIs, RequestIs DEF CallShape
<1>2. \A n \in KnownCodes : n % 128 = n /\ (n + 128) % 128 = n
  BY SMT DEF KnownCodes, ReadBits, ReadRegs, WriteOne, WriteBits, WriteRegs, ReadFile, WriteFile
<1>3. \A r \in Replies : r.kind = "answer" /\ r.fc % 128 \in KnownCodes
  <2>1. TAKE r \in Replies
  <2>2. CASE \E f \in Requests : \E code \in {ILLEGAL_FUNCTION, DEVICE_FAILURE} : r = Exception(f, code)
    <3>1. PICK f \in Requests : r.kind = "answer" /\ r.fc = f.fc + 128
      BY <2>2, SMT DEF Exception
    <3>2. QED
      BY <1>1, <1>2, <3>1, Zenon
  <2>3. CASE \E f \in Requests : \E d \in Contents : r = Answer(f, d)
    <3>1. PICK f \in Requests : r.kind = "answer" /\ r.fc = f.fc
      BY <2>3, SMT DEF Answer
    <3>2. QED
      BY <1>1, <1>2, <3>1, Zenon
  <2>4. QED
    BY <2>2, <2>3 DEF Replies
<1>4. toUnit \in Seq(Requests \cup {Junk}) /\ toClient \in Seq(Replies \cup {Junk})
  BY DEF LineTypes
<1>5. MbFrames(toUnit) \subseteq Requests /\ MbFrames(toClient) \subseteq Replies
  BY <1>4 DEF MbFrames
<1>6. QED
  BY <1>1, <1>3, <1>5

\* For every firmware, and however often the line loses frames or answers come
\* late: both sides count the frames of a segment alike, a full segment is
\* whole, no segment is missing from those taken, and none when the upgrade is
\* reported as done.
THEOREM SegmentsComeWholeHolds == Spec => []SegmentsComeWhole
<1>1. UpgradeInv => SegmentsComeWhole
  <2>1. SUFFICES ASSUME UpgradeInv PROVE SegmentsComeWhole
    OBVIOUS
  <2>2. LineTypes /\ Numbers /\ SenderInv /\ InputInv
    BY <2>1 DEF UpgradeInv, LineInv
  <2>3. /\ input.state \in SegStates /\ input.no \in 0..Last /\ input.total \in Nat
        /\ Len(input.data) \in Nat
    BY <2>2, InputIs
  <2>4. /\ slv \in SlvT /\ out \in OutT
    BY <2>2, LineTypesAre
  <2>5. TypeOK
    <3>1. slv \in Slaves
      <4>1. slv.index \in 1..Last + 1 /\ slv.repeat \in 0..RepeatMax
        BY <2>2 DEF SenderInv
      <4>2. QED
        BY <2>4, <4>1 DEF SlvT, Slaves
    <3>2. faults + late \in 0..MaxTrouble
      BY <2>2, ModbusAssumption DEF Numbers
    <3>3. QED
      BY <2>2, <2>3, <3>1, <3>2, FramesOnTheLine DEF TypeOK, LineTypes, SenderInv, InputInv
  <2>6. ASSUME Lossless \/ inStep PROVE SegInv
    BY <2>1, <2>6 DEF UpgradeInv, LossInv, StepInv
  <2>7. ASSUME inStep, pc = "run" PROVE Rests(Here)
    BY <2>1, <2>7 DEF UpgradeInv, StepInv, Stage
  <2>8. FramesAgree
    <3>1. SUFFICES ASSUME inStep, pc = "run", reported = "none", out.state = "SEG_DATA"
                   PROVE  input.state = "LOADING" /\ input.no = slv.index /\ Len(input.data) = out.frame
      BY DEF FramesAgree
    <3>2. SegInv /\ Here = <<slv.index, out.frame>>
      BY <2>6, <2>7, <3>1 DEF Rests
    <3>3. slv.index \in 1..Last /\ out.frame < SegChunks[slv.index]
      BY <2>2, <3>1, Segments DEF SenderInv, Coupled
    <3>4. QED
      BY <3>2, <3>3 DEF Here, SegInv
  <2>9. FullSegmentIsWhole
    <3>1. SUFFICES ASSUME Lossless \/ inStep, input.state \in {"FULL", "WAITING"}
                   PROVE  input.data = [f \in 1..input.total |-> Arrives(input.no, f - 1)]
      BY DEF FullSegmentIsWhole
    <3>2. SegInv /\ input.no > 0
      BY <2>3, <2>6, <3>1 DEF SegInv
    <3>3. Len(input.data) = input.total
      BY <2>3, <3>1, <3>2 DEF SegInv
    <3>4. QED
      BY <3>2, <3>3 DEF SegInv
  <2>10. NoSegmentSkipped
    <3>1. ASSUME Lossless \/ inStep, input.state = "FULL" PROVE input.no <= taken + 1
      BY <2>3, <2>6, <3>1 DEF SegInv
    <3>2. ASSUME inStep, reported = "success"
          PROVE  Last \in {taken, IF input.state = "FULL" THEN input.no ELSE 0}
      <4>1. pc = "run" /\ slv.index = Last + 1 /\ SegInv
        BY <2>2, <2>6, <3>2 DEF SenderInv
      <4>2. input.no \in 0..Last /\ Last \in Nat /\ Last > 0
        BY <2>3, Segments
      <4>3. input.no = Last /\ Len(input.data) = SegChunks[Last]
        BY <2>7, <3>2, <4>1, <4>2 DEF Rests, Announces, Complete, Here
      <4>4. QED
        BY <2>3, <4>1, <4>2, <4>3, Segments DEF SegInv, SegStates
    <3>3. QED
      BY <3>1, <3>2 DEF NoSegmentSkipped
  <2>11. QED
    BY <2>5, <2>8, <2>9, <2>10 DEF SegmentsComeWhole
<1>2. QED
  BY <1>1, UpgradeHolds, PTL
=============================================================================
