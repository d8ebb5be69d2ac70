------------------------------ MODULE NanoModbus ------------------------------
(***************************************************************************)
(* Modbus RTU as libs/nanoModbus/nanomodbus.c speaks it: which requests a     *)
(* client lets out, what a server makes of the request it reads, and what    *)
(* the client makes of the answer it reads.  One definition stands for the    *)
(* functions of one kind (two reads of bits, two reads of registers, ...).    *)
(*                                                                         *)
(* A frame is a record; its payload is abstract (data), its numbers are not.  *)
(* A reader takes a frame off the line field by field, so one it gives up     *)
(* half-way leaves its rest behind: Junk.  A rest never passes the CRC.       *)
(***************************************************************************)
EXTENDS Integers, Sequences

\* nmbs_error: the exceptions of the protocol.
ILLEGAL_FUNCTION     == 1
ILLEGAL_DATA_ADDRESS == 2
ILLEGAL_DATA_VALUE   == 3
DEVICE_FAILURE       == 4
ExceptionName == <<"ILLEGAL_FUNCTION", "ILLEGAL_DATA_ADDRESS",
                   "ILLEGAL_DATA_VALUE", "SERVER_DEVICE_FAILURE">>

\* Function codes, by the handler that serves them.
ReadBits   == {1, 2}
ReadRegs   == {3, 4}
WriteOne   == {5, 6}
WriteBits  == {15}
WriteRegs  == {16}
ReadFile   == {20}
WriteFile  == {21}
KnownCodes == ReadBits \cup ReadRegs \cup WriteOne \cup WriteBits
                \cup WriteRegs \cup ReadFile \cup WriteFile

\* The most bits, registers or file registers one request may name.
Limit == [readBits |-> 2000, readRegs |-> 125, writeBits |-> 1968, writeRegs |-> 123,
          readFile |-> 124, writeFile |-> 122]

MaxQuantity(fc) ==
  CASE fc \in ReadBits  -> Limit.readBits
    [] fc \in ReadRegs  -> Limit.readRegs
    [] fc \in WriteBits -> Limit.writeBits
    [] fc \in WriteRegs -> Limit.writeRegs
    [] fc \in ReadFile  -> Limit.readFile
    [] fc \in WriteFile -> Limit.writeFile

\* The value of a write that switches a coil on.
CoilOn == 65280

\* The byte count field, one byte wide.
Bytes(fc, qty) ==
  CASE fc \in ReadBits \cup WriteBits -> ((qty + 7) \div 8) % 256
    [] fc \in ReadRegs \cup WriteRegs -> (2 * qty) % 256
    [] fc \in ReadFile  -> 7
    [] fc \in WriteFile -> (7 + 2 * qty) % 256
    [] OTHER -> 0

\* addr: start address, or the record number of a file; qty: quantity, or the
\* value a write of one coil or register carries; file: the file number.
Call(unit, fc, addr, qty, file, data) ==
  [unit |-> unit, fc |-> fc, addr |-> addr, qty |-> qty, file |-> file,
   data |-> data]

Ranged == ReadBits \cup ReadRegs \cup WriteBits \cup WriteRegs

-----------------------------------------------------------------------------
\* The client.

\* Mutation: the last address of a range is not looked at.
MutRefusesRange(c) == c.qty \notin 1..MaxQuantity(c.fc)

\* The arguments no request is sent for (NMBS_ERROR_INVALID_ARGUMENT).
RefusesRange(c) ==
  c.qty \notin 1..MaxQuantity(c.fc) \/ c.addr + c.qty > 65536

RefusesFile(c) == c.file = 0 \/ c.addr > 9999 \/ c.qty > MaxQuantity(c.fc)

ClientRefuses(c) ==
  \/ c.fc \in Ranged /\ RefusesRange(c)
  \/ c.fc \in ReadFile \cup WriteFile /\ RefusesFile(c)

\* The request that goes out.
Request(c) ==
  [kind |-> "request", unit |-> c.unit, fc |-> c.fc, addr |-> c.addr,
   qty |-> c.qty, file |-> c.file, bytes |-> Bytes(c.fc, c.qty),
   data |-> c.data]

\* msg.broadcast: a write to unit 0 waits for no answer; a read does.
WaitsForAnswer(c) == c.unit # 0 \/ c.fc \in ReadBits \cup ReadRegs

\* recv_res_header refuses the answer before its payload is read; the rest of
\* it stays on the line.
RefusedEarly(c, r) ==
  r.unit # c.unit \/ (r.fc # c.fc /\ r.fc - 128 # c.fc)

\* Mutation: an exception is taken for an answer.
MutOutcome(c, r) ==
  CASE r.unit # c.unit -> "INVALID_UNIT_ID"
    [] r.fc # c.fc /\ r.fc - 128 # c.fc -> "INVALID_RESPONSE"
    [] OTHER -> "NONE"

\* The check of the payload an answer carries, one for each recv_..._res.  A
\* read of bits accepts any number of bytes, a read of a file compares lengths.
AnswersRead(c, r) == c.fc \in ReadRegs => r.bytes = 2 * c.qty
AnswersWriteOne(c, r) == r.addr = c.addr /\ r.qty = c.qty
AnswersWriteMany(c, r) == r.addr = c.addr /\ r.qty = c.qty
AnswersReadFile(c, r) == r.qty = c.qty
AnswersWriteFile(c, r) ==
  <<r.file, r.addr, r.qty, r.data>> = <<c.file, c.addr, c.qty, c.data>>

MatchesCall(c, r) ==
  CASE c.fc \in ReadBits \cup ReadRegs -> AnswersRead(c, r)
    [] c.fc \in WriteOne -> AnswersWriteOne(c, r)
    [] c.fc \in WriteBits \cup WriteRegs -> AnswersWriteMany(c, r)
    [] c.fc \in ReadFile -> AnswersReadFile(c, r)
    [] OTHER -> AnswersWriteFile(c, r)

\* What the client makes of a whole answer: recv_res_header, then the payload.
Outcome(c, r) ==
  CASE r.unit # c.unit -> "INVALID_UNIT_ID"
    [] r.fc = c.fc + 128 /\ r.qty \in 1..4 -> ExceptionName[r.qty]
    [] r.fc # c.fc \/ ~MatchesCall(c, r) -> "INVALID_RESPONSE"
    [] OTHER -> "NONE"

-----------------------------------------------------------------------------
\* The server.

\* recv_req_header: a request to another unit, a broadcast included, is
\* ignored with its rest on the line; so is a function code nobody serves.
LeavesRest(address, f) == f.unit # address \/ f.fc \notin KnownCodes

OutOfRange(f) == f.addr + f.qty > 65536

\* The exception a handler sends before it calls the application, 0 for none,
\* one for each handler; served is whether the application has a callback.
RefusalRange(f, served) ==
  CASE f.qty \notin 1..MaxQuantity(f.fc) -> ILLEGAL_DATA_VALUE
    [] OutOfRange(f) -> ILLEGAL_DATA_ADDRESS
    [] f.fc \in WriteBits \cup WriteRegs /\ f.bytes \notin {Bytes(f.fc, f.qty)} \ {0}
         -> ILLEGAL_DATA_VALUE
    [] ~served -> ILLEGAL_FUNCTION
    [] OTHER -> 0

RefusalReadBits(f, served)  == RefusalRange(f, served)
RefusalReadRegs(f, served)  == RefusalRange(f, served)
RefusalWriteBits(f, served) == RefusalRange(f, served)
RefusalWriteRegs(f, served) == RefusalRange(f, served)

\* A coil is on or off, a register takes any value.
RefusalWriteOne(f, served) ==
  CASE ~served -> ILLEGAL_FUNCTION
    [] f.fc = 5 /\ f.qty \notin {0, CoilOn} -> ILLEGAL_DATA_VALUE
    [] OTHER -> 0

NoSuchRecord(f) == f.file = 0 \/ f.addr > 9999 \/ f.qty > MaxQuantity(f.fc)

RefusalReadFile(f, served) ==
  CASE f.bytes % 7 # 0 \/ f.bytes \notin 7..245 -> ILLEGAL_DATA_VALUE
    [] NoSuchRecord(f) -> ILLEGAL_DATA_ADDRESS
    [] ~served -> ILLEGAL_FUNCTION
    [] OTHER -> 0

RefusalWriteFile(f, served) ==
  CASE f.bytes \notin 7..251 -> ILLEGAL_DATA_VALUE
    [] NoSuchRecord(f) -> ILLEGAL_DATA_ADDRESS
    [] f.bytes # 7 + 2 * f.qty -> ILLEGAL_DATA_VALUE
    [] ~served -> ILLEGAL_FUNCTION
    [] OTHER -> 0

\* handle_req_fc
Refusal(f, served) ==
  CASE f.fc \in ReadBits  -> RefusalReadBits(f, served)
    [] f.fc \in ReadRegs  -> RefusalReadRegs(f, served)
    [] f.fc \in WriteOne  -> RefusalWriteOne(f, served)
    [] f.fc \in WriteBits -> RefusalWriteBits(f, served)
    [] f.fc \in WriteRegs -> RefusalWriteRegs(f, served)
    [] f.fc \in ReadFile  -> RefusalReadFile(f, served)
    [] OTHER -> RefusalWriteFile(f, served)

\* send_exception_msg
Exception(f, code) ==
  [kind |-> "answer", unit |-> f.unit, fc |-> f.fc + 128, addr |-> 0,
   qty |-> code, file |-> 0, bytes |-> 0, data |-> <<>>]

\* The normal answer: what was read, or an echo of what was written.
Answer(f, data) ==
  [kind |-> "answer", unit |-> f.unit, fc |-> f.fc, addr |-> f.addr,
   qty |-> f.qty, file |-> f.file, bytes |-> Bytes(f.fc, f.qty), data |-> data]

\* err is what the callback returned: 0, an exception, or anything else.
Reply(f, err, data) ==
  CASE err = 0 -> Answer(f, data)
    [] err \in 1..4 -> Exception(f, err)
    [] OTHER -> Exception(f, DEVICE_FAILURE)

-----------------------------------------------------------------------------
\* The line.  Every item is a frame or the rest of one.

Junk == [kind |-> "junk"]

\* The lines a reader may leave that starts on a rest: it goes on reading
\* until its count, its time or the line is used up, in the middle of a frame
\* perhaps.
Garbled(line) ==
  {SubSeq(line, n, Len(line)) : n \in 2..(Len(line) + 1)}
    \cup {<<Junk>> \o SubSeq(line, n, Len(line)) : n \in 3..(Len(line) + 1)}

=============================================================================
