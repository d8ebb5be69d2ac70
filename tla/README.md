# A verification project for my_library

`my_library` is a collection of C code for small embedded devices. Its core is a
**firmware upgrade system**: a boot loader (`src/common/upgrade/loader`), a master that
sends firmware to it (`src/common/upgrade/master`), and the ways they talk: a framed
serial link (`src/libs/host`), Modbus (`src/libs/nanoModbus`) and a CANopen stack
(`src/common/upgrade/loader/libs/canopen`). Around it are an MQTT client
(`src/libs/MQTT-C`), a scheduler, drivers and containers. An error in the core leaves a
device in the field that does not start. The TLA+ in this directory models the
core, the three buses, the MQTT client, the scheduler and the SPI flash driver; TLC checks it on
small instances, and TLAPS proves the most important facts for all of them.

Paths below leave out the leading `src/`, and `upgrade/` stands for `common/upgrade/`.

## 1. Inventory

### Boot loader core: `upgrade/loader/boot_core`

*State.* `m_state` (INIT, PREPARING, WAITING_CONDITION_BOOT, UPGRADING, FINISH,
FAILURE), a timer, the signature of the firmware being received, the checked status
of the main application, a retry counter, the interface that is active; in flash a
main and an optional backup partition, each with a stored signature (size, CRC,
version and a never-upgraded mark); a stored boot time and an old-style upgrade flag.

*Operations.* `sm_bootloader_process()`, called for ever by the main loop, and six
handlers that a boot interface calls from inside its own `process`: request upgrade,
firmware info, new segment, exit, get information.

*Hard.* Power may go at any moment, also inside an erase or a write. Handlers change
`m_state` in the middle of the loop that polls the interfaces. Status computed once
is used much later. Results of flash operations are combined and partly overwritten.

*Correct means.* Never start an application that is not intact. Once a master has been
told that its firmware is installed it stays so. Do not touch an intact
application without an acknowledged request. A master that falls silent does not hold
the loader for ever, and the loader leaves for an intact application in the end (to which
address is another matter: section 5).

### Boot interface over the host link: `upgrade/loader/boot_interface`, `libs/host`

*State.* An enable flag, the segment being assembled (`m_segment`); the link has a
receive ring, a packet being assembled, and callbacks.

*Operations.* `sm_boot_cmd_handle` for a request, a segment info, a packet of 128
bytes, a firmware info; `sm_host_send_cmd_sync`, which sends and waits for an answer;
`sm_host_process`, `sm_host_asyn_feed`.

*Hard.* Lost, broken and late answers; an answer names its command but not its
instance; a partial segment is acknowledged like a whole one; the ring is filled by
an interrupt.

*Correct means.* Repetitions and losses leave nothing of another segment in the buffer; what is
written is a whole segment of the announced firmware.

### Upgrade master: `upgrade/master`

*State.* A table of slaves; per slave a session (state, repeat counter, waiting flag,
timer, segment) with an input (where segments come from) and an output (how they go
out). An output keeps its own state machine, offset in the segment, retry counter.

*Operations.* `sm_boot_slave_process()`: the output's process, then the session's
switch; callbacks confirm-ready, confirm-segment, confirm-firmware-info from the output;
adding, updating and removing slaves.

*Hard.* Callbacks run inside the output's process and change the session's state before
its switch looks at it. Two layers of retries. Timeouts race answers.

*Correct means.* A reported success is true. Every session ends with one report.
A session in which nothing goes wrong succeeds.

### CANopen: `upgrade/loader/libs/canopen`

*SDO server and client.* State per side: protocol state, toggle bit, offset, length,
timer, one slot for a received frame. Expedited and segmented downloads and
uploads, aborts, timeouts, objects with temporary and shadow buffers, and objects
whose application confirms a write later ("internal processing").
*Hard.* Each side times out alone; a late answer may belong to an earlier transfer; the
receive slot is written by an interrupt. *Correct means.* A transfer is atomic; its
success on the client means that the object holds the value; no frame makes the server
leave its object; both sides become free again.

*Object dictionary storage.* Three flash sections (signature, communication parameters,
application parameters), loaded, defaulted, written and signed one after the other at a
start, each on a command of its own. *Hard.* Power cuts and failed writes between the
sections. *Correct means.* A node runs on whole parameters; what was stored is
there again, and a start puts a bad flash right.

*SYNC, transmit PDOs, dispatch.* A cycle timer and the numbers of the last SYNC, written by
an interrupt; requests of the application; a mapping of objects to frames; the index of
the call in its cycle, which decides whether PDOs or SDOs have their turn. *Correct
means.* One frame per PDO and cycle, of the objects it is mapped to; no SYNC and no
request is forgotten; SDOs get their turn. *NMT, EMCY, RPDO* have no behaviour in this tree.

### Upgrade over CANopen: `upgrade/master/boot-core/sm_boot_master.c`, `.../output/sm_canopen_boot_output.c`

*State.* The table of slaves and its counter; a heap of sessions; the one output all of
them share: its state, the step of the download sequence, the callbacks it calls, the
segment; and one SDO client. *Operations.* Add (new, update, table full), remove, process
slot by slot; the seven downloads, the end of one, the boot-state write of a node.
*Hard.* Sessions are freed by callbacks in the middle of the walk; the output calls whatever
was registered last; a node's answer names no segment. *Correct means.* The table and
its counter agree, an output that is held belongs to a session in the table, no callback
of a freed session is called, success is true, every session ends.

### Upgrade over Modbus: `common/modbus`, `libs/nanoModbus`, `.../output/sm_modbus_rtu_boot_output.c`, `.../input/sm_modbus_rtu_boot_input.c`

*State.* Per side of nanoModbus: the frame under way and what is left on the line; the
output's step, repetitions and chunk; the input's buffer, its state, the registers.
*Operations.* Every request of the client API, the server's handler and answer for each, the
exceptions; the output's sequence of calls; the input's callbacks.
*Hard.* A call that times out leaves an answer to come, the next call reads it. A poll that
ignores a request leaves part of it on the line. *Correct means.* A call gets its own answer;
segments come whole and in order; sessions end.

### MQTT: `libs/MQTT-C`, `common/mqtt`

*State.* The queue of messages with their states and identifiers, how much of a packet is
out, the error, the mutex; the receive side. *Operations.* connect, publish, subscribe,
unsubscribe, ping, disconnect, sync with its phases (receive, send, clean), reconnect.
*Hard.* QoS 1 and 2 over a connection that breaks; packets sent by pieces while the queue
changes; identifiers used again; several threads. *Correct means.* What the
client takes for delivered the broker has; a QoS 2 message is delivered once, either way;
the byte stream is packets one after another; the queue settles.

### Scheduler: `common/schedule`

*State.* A table of tasks with function, interval, repetitions, count and timer. *Operations.* Start,
cancel by slot, cancel by function, free; process, which walks the table and calls what is
due. *Hard.* Callbacks start and cancel tasks, their own included, while the table is
walked. *Correct means.* No start is lost or run more often than it asked for; a cancelled
function stays away; every task gets its turn. Nobody in this tree calls the scheduler yet.

### SPI flash: `driver/winbond/sm_w25qxx.c`

*State.* The identification and the sizes of the chip, a lock; in the chip the memory, the write
enable latch, a busy flag and whether it is selected. *Operations.* Init; erase of the chip, a sector, a
block; write of a byte, page, sector, block and stretch; reads and checks for emptiness of
the same. *Hard.* Lengths and offsets that cross pages and sectors; a chip that is left
selected. *Correct means.* The memory is what was asked for, whatever came before, and the
answers say what the memory holds. Nobody in this tree calls the driver yet.

### The rest

| part | what it is | modelled |
|---|---|---|
| master's inputs | Intel-HEX readers | as segments that may fail to be read |
| master's file and flash outputs | synchronous writes on the desktop | no |
| `common/stm` | transition table; nothing sets its current state, so it never runs | no |
| `common/modem`, `common/http` | AT command with a timeout; a wrapper of libcurl | no |
| `libs/tiny-json`, `libs/json-maker` | vendored | no |
| `driver/*` but the flash | register and text protocols of single chips | no |
| `platform/linux`, `utils/*`, `interface` | system calls, containers, CRC, strings, logging | no |

`PROJECT.json` lists every component with its files, and under `hazards` the places
where this code is hard to test, with the properties that watch them.

## 2. Modules

```
 SmBootSlave      SmBootloader          CoSdoFrames
   (session,        (loader core)        /        \
    485 output)      /      \        CoSdoServer  CoSdoClient
   |      \         /  SmBootloaderProofs |  \       /
   |      BootSession                     |  CoSdo --> SdoTransfer
   |          |                           |     (implements)
   |   BootSessionProofs                CoSdoAnyClient
   |                                          |
   |                                     CoSdoProofs      (the pair, any client)
   |
   +-- BootCanopenOutput -- SmBootMaster       (table, sessions, nodes)
   |                             \-- SmBootMasterProofs
   +-- NanoModbus -- ModbusUpgrade             (output, line, input)
                          \-- ModbusUpgradeProofs

 MqttPackets -- MqttClient -- MqttSession      (queue, threads, broker)
 CoOdStorage, CoCycle -- CoNode                (flash and start, cycle, both)
        \-- CoOdStorageProofs -- CoNodeProofs
 SmScheduler -- SmSchedulerProofs
 W25qxx                                       (flash driver and chip)
```

`BootSession --> SmBootloader` is a refinement too: a poll of the loader's interface
in a session is one of the polls `SmBootloader` allows. `MC*` modules give the
constants their values.

### SmBootloader

One action per state of `sm_bootloader_process`, except that a call is cut where it
is interrupted by other code: in the waiting and upgrading states a variable `loop`
says which interface is polled next (`WaitingPoll`, `UpgradingPoll`), and the timer
test after the polls is an action (`WaitingTimer`, `UpgradingTimer`). A poll lets an
interface call any handler (`RequestUpgrade`, `NewSegment`, `FwInfo`, ...) with any
image; `NoEvent` is an interface with nothing to say.

* An image stands for a firmware and its CRC. A partition is a function from segments to
  images, or ERASED, or TORN; it is valid when every segment holds the image its
  signature names. CRCs do not collide.
* `sm_fw_clone` reads and writes through variables that nothing initialises on some of its
  paths; its result is a choice. `create_default` leaves a status and a mark as the
  heap had them: the constants `UninitStatus`, `UninitFirst` say what they may be.
* The boot time passes through a `uint8_t` before it is compared (`EffectiveTime`).
* `PowerLoss` may come between any two actions; `PowerLossInPreparing`,
  `...InInit` and `...InUpgrading` cut an erase or a write in half. `Restart` is a reset: RAM is
  lost. The application may change the stored boot time and flag before a reset.
* `reply` is the last answer given to a master: a history variable. `quiet` becomes TRUE
  when no interface says anything any more; liveness is stated for that case.

### SmBootSlave and BootSession

`SmBootSlave` has the session's switch and the 485 output as operators from the state
before to the state after, because all of it runs in one call. `BootSession` makes
them actions, and composes them with the link and the loader.

* A call of `sm_boot_slave_process` either sends nothing (`MasterSkips`), or sends
  (`MasterSends`) and blocks (`pc = "sync"`) until the first answer arrives
  (`MasterHears`), an answer with a wrong CRC ends the wait (`MasterHearsNoise`),
  or time is over (`MasterTimesOut`). A port that refuses to send ends it at once
  (`MasterSendFails`): that call returns -1, noise returns 1, and the output takes
  either for an answer because neither is 0. Meanwhile the loader runs.
* The link is a FIFO per direction. Losing only what would be delivered next gives the
  same behaviours as losing anywhere.
* The output's own timers (200 ms between infos and so on) are a free choice to skip.
  A segment is a number of packets (`SegChunks`); offsets count packets.
* An application does not listen to the boot protocol, and does not hand back to the
  loader during the session. A reset empties the loader's buffers.
* `calm` is TRUE until `CalmEnds`: while it lasts nothing is lost, no timer runs out
  and flash works. Every fault is counted (`MaxFaults`), and so is every wait that
  ended although an answer could still come or whose command could not be sent
  (`MaxLate`). `inStep` remembers that no such wait and no reset has occurred.
* One slave with one output. Left out: an input that is not ready yet, a
  `get_fw_info` that fails, an exchange of the input or output during a session.

### CoSdoFrames, CoSdoServer, CoSdoClient, CoSdo, SdoTransfer, CoSdoAnyClient

One action for each handler of `CO_SDOserver_process` and, as operators, of
`CO_SDOclient_process`; the dispatch on state and specifier is their guards. A byte on
the bus is `<<transfer, position>>`, so that one can see of every stored byte which
transfer it came from and where it belonged. `Stray` is a byte that no frame has as its data: what an
application's buffer holds before its first transfer, and what a receiver that expects more than a
frame has as data copies from behind it. There the code leaves what its transmit buffer held before, so
that of these bytes no property says anything. The bus keeps the order of frames, may
lose them (`MaxLosses`) and does not duplicate (CAN's acknowledgement). A frame that is overwritten in, or
dropped from, the one-frame receive slot is a lost frame. Timers are armed or not, and
one that is armed may run out. How early is the choice of two constants: with `Patient` the
client waits longer than any answer takes, with `PromptBus` at least longer than a frame
is on the bus (a request may still lie unhandled at the server, an answer at the client, an extension may be at
work). The master's outputs give 1000 ms (`sm_canopen_boot_output.c:79`), a frame takes less
than one on an idle bus; how long a server's main loop is away from `CO_process` nothing in the code bounds.
`accepted` is the history of what the server confirmed. The SYNC window only decides
at which moments the process functions are called.

`SdoTransfer` is what a user of the pair wants to know: a transfer takes effect at once
or not at all, and its outcome is reported once. `CoSdoAnyClient` replaces the client
by any sequence of frames, also wrong ones.

### NanoModbus, ModbusUpgrade

`NanoModbus` is `nanomodbus.c` as functions: the arguments a client refuses, the request
it sends, what a server makes of each (with every exception), the answer, and what the client
makes of an answer. `Limit` holds the largest quantity of each kind. One definition stands for the functions of one kind. Numbers of a
frame are kept, its payload is one value. A reader takes a frame field by field, so one it
gives up half way leaves `Junk` on the line, which never passes the CRC.

`ModbusUpgrade` runs the session of `SmBootSlave` over it: `OutputCalls` sends one call
and blocks (`pc`), `Serves` is `nmbs_server_poll` with the input's callbacks, `Hears`,
`HearsJunk` and `TimesOut` end a call. A segment has a size in bytes (`SegBytes`), of which the output makes
frames by bytes (`BufLen`) and registers by halving: the write of a frame asks for `1 + BufLen \div 2` of
them, so that of an odd segment the last byte is never sent, and the input stores what came. `PollsPast` is the early return for a request that is
not for this unit, which skips the branch that flushes the line. The input does not look at the
line while it has a whole segment in hand; a call then times out although its answer is
still to come. Another user makes calls on the same client (`AppCall`), for no function and
for no address in particular, but with arguments the library's types allow and not to write the two
registers the upgrade writes (`AppAssumption`: he is there to share the line, not to send segments of his own). The abort callback of the output is called without a test
and never registered; the model ends there (`reported = "crash"`).
The `BSS_MODBUS_*` numbers (of which `FrameAssumption` asks that a frame with its index fits a request) and what is behind the OTA status register are external. The TCP transport
and `nmbs_send_raw_pdu` are left out. Properties speak of a line that loses nothing
(`Lossless`) or of calls that all got their own answer (`inStep`).

### MqttPackets, MqttClient, MqttSession

`MqttPackets` is packing and unpacking: the size of a packet, the checks on its flags and
fields, the error of each. `MqttClient` is every function of the client as a function of its
state: the queue, registration with its clean and second try, identifiers, the
handler of each response, the send round. `MqttSession` has the threads: the phases of
`mqtt_sync` as actions, and the API calls of other threads between them; `mqtt_unsubscribe` in
two steps, because it draws its identifier before it takes the mutex, and so is `mqtt_reconnect`, which lets go
of the mutex between the packet and the error code (`leaving`).

* The offset into a packet is 0 or 1, the buffer is counted in bytes, identifiers are a cycle of `NumIds`.
  Frames arrive whole. Ages are in ticks; `time_of_last_send` starts with any value,
  because nothing initialises it.
* The broker and the reconnect callback are external: the broker does what MQTT 3.1.1
  says, or refuses, or repeats itself, or sends one bad frame, or hangs up, and closes a
  stream it cannot read; the callback makes a new socket, calls `mqtt_reinit` and
  `mqtt_connect`, as `mqtt.h` asks.
* `raced` remembers that two threads were handed one identifier, `calm` that no answer was
  late, no publish waited and no connection was replaced under a packet that was
  half out; `ThreadSafe` is `CompletedIsDelivered` without that exception.
* With `ReusesIds` the broker uses one identifier for all its messages, which the
  protocol allows: then `MutedWasHeard` fails. The run leaves it FALSE.
* Left out: the inspector callback, statistics; a callback that fails to connect in the
  RECONNECTING path, which leaves the mutex locked; the wrapper in `common/mqtt`, which sets no reconnect
  callback and publishes with QoS 0 only, so that its errors stay.

### BootCanopenOutput, SmBootMaster

`BootCanopenOutput` is the CANopen output as operators from the output before to the output
after. `SmBootMaster` has the table, a heap of sessions (the switch of each is that of
`SmBootSlave`, by `INSTANCE`), the one output and SDO client, and nodes that serve
downloads in order, erase, write, install and write their boot state. `ProcessSlave(i)` is
one slot of `sm_boot_master_process`; the order of the slots within one call is free.
The heap keeps freed sessions, so that a callback that is still registered can be seen
to call one (`dangling`). `alone` says that no second session has been made while one was in the
table: the callbacks belong to the output, so a second session takes over those of the
first, and of such sessions the properties about nodes say nothing; those about table and
output do. Left out: adding from inside the report callback, destroying the master, and a remove of id -1
(section 5). The run has a slot for each session it can make; the case of a table that is full for another is that of
the theorem about the output, which holds for every size, and of an instance with one slot (section 3).

### CoOdStorage, CoCycle, CoNode

`CoOdStorage` is the start of a node, one action per flash operation, and what the
application may ask for; an erase tears a section, a write makes it whole, either may fail, and power
may go between any two. A CRC is the content it was computed from. A command is the
set of its two bits, and a signature that was erased or never written has both, as 0xFF has; it is not
`NO_ACTION`, and each test of the code says what it makes of it. `promised` is the history of what the next start has to
come up with (`Owed`): what was stored, if the signature vouches for it under `NO_ACTION`, the defaults if its
command has the restore bit. `CoCycle` has SYNC, the
transmit PDOs and the search of the dictionary as operators; `CoNode` composes both, with
the interrupt that brings a SYNC between the three reads of the last one. A node caught in the
`while(1)` of a failed write is reset. Frame bytes are `<<object, byte>>`; one that was never
mapped, or read past an object, shows.
The register of the auxiliary counter is the set of its bits; the code shifts by whatever the
counter is, and `NodeAssumption` keeps that below 32.
Left out: bytes of a frame that no object fills, which in the code are null pointers
(`CO_TPDO.c:57`), and the write before the overflow test of a mapping (`CO_PDO.c:77`); the version number (nothing compares it in this build), the boot setting at the
head of the application section, the event and inhibit timers (compiled out), EMCY, NMT and RPDO (no
behaviour), the manual assembly of a frame.

### SmScheduler

`Begin`, then for each slot `Pass`, or `CallBack` and `Return`; between the last two, and between
calls of `sm_sch_process`, any of the four calls of the API (`Calls`). What the code finds in
the slot after a callback is what is there by then. Starts are numbered and the number is the
task's argument; `asked` is the history of each start: how often it ran, and whether it
is live, done, cancelled or replaced. A start into the slot of the running callback is marked
(`inCallback`): the code counts the return of the old callback for it. A start in a full table
returns -1 and changes nothing; no caller uses that as an id. A cancel with an id that outlived its task cancels the
task that holds the slot by then, and that one counts as cancelled.

### W25qxx

A call is a step, made of the transfers it makes. The chip is modelled by what these do to it: `Comes`
is what a read brings, also from a chip that is busy, or selected already, or that wants a
dummy byte the driver does not send; `EraseCmd` and `ProgramCmd` need the latch and leave the
chip busy, and programming clears bits and goes round at the end of a page.
The driver's loops over pages and sectors are sequences of pieces, folded. A byte is
`<<buffer, place>>`, so that a byte in the wrong place shows; programming over one leaves a mixture
of which only the lowest bit is known, the one that `WaitForWriteEnd` looks at.
`asked` is the history of what the calls asked for. What reads and checks answer depends on the state alone and is
compared in every state. `hung` is a call that never returns, and keeps `Lock`.
The number of bytes a check is told is not a parameter: the code does not look at it.
Left out: a second caller, the identification beyond its last byte, the status
registers, the two private functions nobody calls, a length of 0 to `w25qxx_write` and `w25qxx_read`, an offset beyond the end of a page.

## 3. Runs

| run | instance | what it shows |
|---|---|---|
| `bootloader` | 2 images of 2 segments, 2 interfaces, a backup; 698k states | the safety of the loader with power cuts anywhere and two interfaces that interfere; no upgrade hangs; a quiet start with an intact application hands over, to address zero |
| `boot_session` | 2 segments of 2 and 1 packets, 3 repetitions (the least at which a segment is really sent again), 2 tries, 1 fault, 1 late wait; 971k states | a reported success is true; a full buffer is a whole segment; every session ends; a calm one succeeds; refinement of the loader |
| `sdo_patient` | 3 transfers, 2 losses, a plain object, one with temporary data, one with an extension and one that does not exist; 159k states | refinement of `SdoTransfer`, stored on success, one frame per slot, both sides become free |
| `sdo_late_answers` | an impatient client on a prompt bus, 4 transfers of 22, 9 or 8 bytes with temporary data, or 4 with an extension; 3.12M states | the data of each frame are stored at their own position, though perhaps from two transfers; bytes from behind a frame's data are left open |
| `sdo_any_client` | some 30 kinds of frames; 113k states | no transfer leaves its object |
| `modbus_upgrade` | 2 segments of 5 and 4 bytes, in frames of 2 registers, 3 repetitions, 1 retry, 4 foreign calls, 2 troubles; 621k states | segments whole (but for the last byte of an odd one) and without a gap, sides that agree, the other user's result is his own, the client's checks are the server's, every session ends |
| `mqtt_session` | QoS 1 and 2 out, 2 in, 2 messages or calls, 2 troubles, a buffer of 100 bytes (three packets, or fewer), all API calls, bad frames; 1.04M states | delivered before completed, once on either side, a whole stream, known acknowledgements, a queue that settles |
| `canopen_upgrade` | 2 nodes, a table of 2, 2 calls of add and remove, 2 segments, 3 repetitions, 1 trouble; 275k states | table, output and callbacks stay consistent; success is true; every session ends; a calm one installs |
| `co_node` | numbers of 2 bits, frames of 3 bytes, 3 mapped objects, 2 application calls, 1 trouble; 618k states | whole parameters at every start, what was stored under `NO_ACTION` is kept, cycles numbered, one frame a cycle, no SYNC or request forgotten, SDOs have their turn |
| `scheduler` | 3 slots, 2 functions, once, twice or for ever (9), 3 starts, 1 cancel; 707k states | no start lost or run too often, cancelled functions stay away, every task runs |
| `spi_flash` | 4 pages of 4 bytes in 2 sectors, addresses of 3 and 4 bytes, blank or full before, 5 lengths, 2 calls; 27k states | over any boundary, what was asked for is stored, and what is stored is answered |
| `finding_ThreadSafe` | the instance of `mqtt_session` without frames from the broker | see section 5 |

Some properties are conjunctions of named parts that speak of one promise; each part is stated by a
comment of its own, and several of them have a mutant of their own:

| property | its parts |
|---|---|
| `SuccessIsTrue` | `DownloadSuccessIsStored`, `AcceptedIsOneTransfer`, `UploadSuccessIsCurrent` |
| `BothBecomeFree` | `TransferEnds`, `ServerBecomesFree` |
| `SegmentsComeWhole` (host link) | `CountedSegmentIsWritten`, `FullSegmentIsWhole` |
| `SegmentsComeWhole` (Modbus) | `FramesAgree`, `FullSegmentIsWhole`, `NoSegmentSkipped` |
| `OnceEachWay` | `CompletedIsDelivered`, `ReceivedOnce`, `HeardOnce`, `MutedWasHeard` |
| `StreamIsSound` | `StreamWhole`, `AcksAreKnown` |
| `OutputIsSound` | `NumberIsTable`, `OutputServesTable`, `WaitsOnlyForSdo`, `NoDanglingCallback` |
| `ReportsAreTrue` | `CountedSegmentIsWritten`, `SuccessIsInstalled` |
| `CycleIsSound` | `OncePerCycle`, `CyclesAreNumbered`, `CyclicFrames`, `NoSyncForgotten` |
| `StartIsSound`, `TurnsCome` | `StartKeepsPromises`, `StartHeals`; `RequestGoesOut`, `SdoGetsTurn` |
| `TableIsSound`, `RunsAsAsked` | `TableIsLive`, `OlderInFront`; `RunsWithinRepeat`, `DoneHasRun` |
| `AnswersAreTrue` | `ReadsAreTrue`, `ByteReadsAreTrue`, `ChecksAreTrue` |

*Bounds, and why they are enough.* The loader does not compare images except by
equality, so two images distinguish old from new; two segments distinguish a first, a
last, a partly written and a mixed partition. Two or three retries let a loop be entered, repeated
and left. A segment of two packets has a first and a last packet, one of a single packet
is both. In the SDO runs objects are longer than an expedited frame holds and
need a full and a shorter segment. One fault and one late wait reach every branch of the output;
an instance of the session with 2 faults, 2 late waits and 3 repetitions (8.1 million
states) was checked for the safety properties as well, and gave no other answer.
Boot times are 0 and 300 because 300 does not fit its `uint8_t`.
In the Modbus run a segment has a first and a last frame or just one, and a repeated call
meets the answer of the one before. In the MQTT run two messages can meet on the three identifiers, and the buffer
refuses the next packet before the queue is cleaned; the safety properties were checked with 3 messages or calls and 1
trouble too (2.2 million states). The CANopen run has a second session beside the first, in the table or
replacing it; two firmwares (1.1 million states), a table of one with 3 calls (257 thousand) and 3 calls
(6.2 million) gave the same. For the node, 2-bit numbers wrap and saturate within the
run, and 2 troubles (1.5 million), 2 mapped objects and a second dictionary (3.7
million) were checked for safety. For the scheduler, repetitions of one, two and for ever
(1.5 million) and intervals of 0 and 1 (3.1 million). For the flash, the lengths are none, one, a page,
one more than a sector and one more than the chip, at every place; a buffer is half a page, so that
a check needs several and may end in the middle of one; two calls let one meet what the
other left, and one call was checked with every length from 0 to 17.

*Bounds that stop a model.* `MaxCalls`, `MaxWork`, `MaxTrouble`, `MaxStarts`,
`MaxCancels`, `MaxFaults`, `MaxLate`, `MaxLosses` and `Lengths` bound what the environment does; `MaxLine` the rests on a
line, `MaxRepeat` a count that nothing reads any more.

*Fairness.* The main loops call their process functions for ever (`WF(Process)`,
`WF(Master)`, `WF(Loader)`, the SDO processes), time passes (`TimerExpires`,
`MasterTimerExpires`: an elapsed timer cannot fail to run out), and a device in reset
starts (`power = "reset" /\ Restart`). A frame that the CAN bus does not lose is delivered
(`DeliverToServer`, `DeliverToClient`); the host link needs no such assumption, because its
end points take what is there. Losses and faults are bounded (`MaxLosses`,
`MaxFaults`) but may come at any time. The same holds of the other models: both sides of Modbus are polled
(`WF(Master)`, `WF(Device)`), its timers run out whenever nothing disarms them for good
(`SF(OutputTimer)`, `SF(SlaveTimer)`); each phase of `mqtt_sync` is left, a thread that
waits for the mutex gets it, the broker reads what is sent; each slot of the master's table is
processed, a download ends, a node serves it and its boot state arrives, a
session's timer runs out; `CO_process` is called, SYNCs come, a start goes on; the
scheduler is processed and time passes (`WF(Process)`, `WF(Tick)`). No call of an
application, no trouble and no power cut is ever required.
The loader and session models stop for good once the application runs or the session
is over, the CANopen master when its calls are used up and its table is empty, an MQTT client when
nothing is left to send, and the flash driver when its calls are used up or one of them never
returns; their configurations say `CHECK_DEADLOCK FALSE` for that. The
node and the scheduler never stop, and are checked for deadlock.

*Instances that differ for a reason.* With `UninitStatus = "INVALID"` and the flag set
the loader can stay in the loader although the application is intact, because init then
uses a status nobody computed; the run therefore fixes it to `"VALID"`. The safety
properties hold for every value of both, with a backup or without (section 4). The
refinement of the SDO pair needs a patient client and whole-object lengths; without
them TLC shows transfers that are a mixture, and `sdo_late_answers` checks what is
left. That run needs four segments (with fewer, the toggle bit or the end mark tells any
two of them apart) and four transfers: in the same configuration with `PromptBus = FALSE` TLC finds `BytesInPlace` violated with four, and not with three
(section 5). It also reaches the fault of `CO_SDOserver.c:138`, after which the server is
stopped: its configuration says `CHECK_DEADLOCK FALSE`.

## 4. Proofs

`SmBootloaderProofs`, `CoSdoProofs`, `BootSessionProofs`, `SmBootMasterProofs`,
`ModbusUpgradeProofs`, `CoOdStorageProofs`, `CoNodeProofs` and `SmSchedulerProofs` hold for every value of the constants that satisfies the named
assumptions (`BootAssumption` and the like: a positive number of segments, interfaces and
retries, `NoImage` not an image; every segment of a firmware but the last one full, hence
none longer than the one before it; a Modbus frame that fits a request; a period of SYNC counter within the range CO_SYNC.h:33 gives it).

* **The loader.** `JumpOnlyToIntactApp` and the others are not inductive: whether the
  jump is safe depends on where the status was computed. `IndInv` adds to the type
  invariant: what each value of `loop` implies (`LoopState`); the status is what was
  checked (`StatusIsChecked`); in FINISH the application is intact unless the mark or
  the flag excuses it (`JumpIsChecked`); in PREPARING the last answer was an acknowledged
  request and no other interface can speak after it (`RequestPending`); in UPGRADING no
  firmware info has been acknowledged yet (`UpgradePending`); the active interface is set where it is used
  (`ActiveSet`); the retry counter is below its limit (`RetryBound`). From it follow
  `TypeCorrect`, `JumpSafety`, `AckSafety`, `ActiveSafety`, `EraseSafety`.
* **The SDO server against any client.** `IndInv == TypeOK /\ Memory(mem) /\
  InObject(srv)`: in a segmented transfer the offset is below the length and the
  length within the object, whatever frames come. `TypeCorrect`, `TransferSafety`.
* **The SDO pair.** `SuccessHolds`, `SlotHolds`: with a client that waits for its answers,
  what either side calls a success is one whole transfer, and no frame is overwritten. Neither
  follows from the state of one side; `PairInv` says how the two fit. The transfer is in
  one place (`OnePlace`): a request on the bus or in the server's slot, the extension at work, an answer
  on the bus or in the client's slot, or nowhere, when a frame was lost. Wherever it is, it is what the
  other side expects (`Handed`): a request carries the toggle bit and the bytes for the
  offset the server has (`Asks`), an answer moves both sides to the same offset
  (`Replies`), what precedes the offset is in the buffer (`Filled`), and an upload has read the object as
  it is (`ReadSoFar`). A server that has given up is IDLE, and answers what comes next with an abort. The
  theorems assume `Patient`, since late answers make both false (TLC finds a counterexample to each in the configuration of
  `sdo_late_answers`, which is about what remains), and `WholeObjects`, a length announced equal to the
  object's, since a shorter download keeps the rest of an earlier one.
* **A late answer.** `BytesHold`: a client that gives up while the extension is at work may take an
  answer for one to a later transfer, and still no byte sent as data is stored at another place than its own, for any
  lengths and number of transfers and losses. It says nothing of what a server takes from behind the data of a
  frame when it expects more than that has. The only hypothesis is `PromptBus`. The invariant (`LateInv`) gives each live frame a stamp, the
  number of the client's request it is or answers; client, server, extension and bus keep their order
  (`Conversation`). A client that has had an answer to its second segment knows that nothing older than its
  last request is left: from there on the two sides are in step (`Lockstep`). Before that the
  stamps leave at most the last three requests, so the server is due at most one segment away from any
  it is sent (`AllNear`, `NotBeyond`), and of those neighbours the toggle bit picks the right one (`SegmentIsDue`). Once
  the server has taken two segments, an answer that opens a download is left only where the client refuses it,
  waiting for that to its own second segment (`NoLateOpening`). TLC finds four transfers enough to break this
  without a prompt bus.
* **One transfer, atomically.** `TransferIsAtomic`: the pair implements `SdoTransfer`, by the mapping
  `Operation`, each step a step of the atomic transfer or none. `OnceOnly` is what it needs beyond `PairInv`:
  a download that has been confirmed can have nothing left on the way to the server, so it takes
  effect once. The hypothesis `AtOnce` names the dictionaries of which it is true: data that
  become effective at a reset, an extension that answers `success` and leaves the shadow buffer uncopied, and an
  object of more than four bytes that is written in place all take effect at another moment than the confirmation, in the code too.
* **The session.** `SessionSuccess`: a reported success is true, for any number of
  segments, repetitions, faults and late answers. The argument is about the order on
  the link. The output sends requests first, and once it has gone on to segments never
  goes back to a request; the link keeps the order; so behind a firmware info there is
  no request on the link (`RequestsFirst`). A positive answer to a firmware info means
  that the loader had installed the firmware when it gave it (`AckedIsInstalled`), and
  only an acknowledged request could make it erase that again. An installed firmware is
  valid, so a restart does not roll it back (`InstalledIsValid`). `SessionRefinesLoader`: each step
  of a session is a step of `SmBootloader` or leaves it alone, so that the loader's
  theorems hold in a session (`SessionJumpSafety`). `SessionSegmentsWhole`: while the answers keep
  step, a segment the loader finds full is whole and a segment the master counts is written. `WholeInv` says
  that at most one command or answer is under way, and that the master's offset is the number of
  packets the loader holds: a wait that ends without its answer starts the segment again.
* **The master.** Three invariants, each resting on the one before. `BaseInv` holds with any number of
  sessions: the counter is that of the table's slots, the table has no freed session and none twice,
  the output waits just while a download is in progress, and is held only for a node that has a
  session (`Agree`, `Served`). `AloneInv` adds, for a session that meets no
  other, that output and session are at the same point of the upgrade, so that no callback comes unasked
  and none of a freed session is left. From both follows `OutputHolds`.
  `ReportInv` adds what the node's loader has: an item on its way is one of what the output is at (`Current`), and without
  trouble a report of the node that is still to come says the same as the node (`InStep`).
  From it follows `ReportsHold`: a counted segment is written, as long as nothing was lost, and a
  success is an installed firmware, whatever was. With other sessions about the
  repetitions of a session may go beyond `RepeatMax`, since their callbacks are called in its place.
* **Modbus.** Two invariants. `LineInv` says what can be on the line at all: in one direction requests
  the client let out (`Sendable`) and rests, in the other answers to such requests, an exception among them only for a
  function nobody serves or a callback that failed. That no other is there is a fact about nanoMODBUS
  (`NothingToRefuse`): for every function, argument and quantity the client's checks leave the handlers of the server nothing
  to refuse, the one-byte counts included. `ClientChecksSufficeHolds` follows, and, because in step the line has nothing but
  noise, the request of the call that waits or its one answer (`QuietLine`), so does `AppResultHolds`.
  `UpgradeInv` adds the sender (`SenderInv`: the states of session, output and waiting call fit each other) and where the
  segment is, `<<n, k>>` after k frames of segment n. There are two reasons why segments come whole, and the
  theorem needs both. When the line loses nothing, answers may come as late as they like: the requests on the line are
  a path (`Path`) from where the receiving side is to where the sender will go on, each one following from the one before
  (`Joined`). When every call got its answer, frames may be lost: then the receiving side is where the sender
  stands, or one request behind while that one is on its way or lost, and the call that waits will fail or be answered accordingly
  (`Stage`). In both, what the receiving side has counted it has (`SegInv`): every byte, except the last of a segment of odd
  size, which the sender drops. `SegmentsComeWholeHolds`, for any sizes.
* **Storage.** `StorageRunsOnWhole`: a node that is up runs on whole parameters, for any
  contents and any number of power cuts, failed writes and calls. The invariant says, for each stage of the
  start, which sections of RAM are whole already: a load needs a valid signature, whose
  CRC is that of a whole section, because a signature is computed only from RAM that is
  whole by then, and the section it speaks of may since have been torn but not changed
  into another whole one that fits. `StorageStartIsSound` is about steps, and about what was promised long before:
  `StartInv` carries a promise from the write that made it to the start that keeps it: a section stored under
  `NO_ACTION` comes back, one whose command has the restore bit, the erased command included, comes
  up with its default. With nothing half written it is in
  flash, with a signature that fits and a command that will load or restore it (`Settles`); while the application writes, it rests on
  the signature in RAM (`Saves`); during a start, on what the start will still find, and then on what it has taken (`Takes`).
  `Heals` is the same for a start that found nothing usable: what it has passed has the default in flash, or a write failed.
* **The node's cycle.** `NodeCycleIsSound`, for any parameters, dictionaries, PDOs and width of the
  counters. `CycleInv` says of the index that it leaves 1 for good until the next SYNC, since it
  saturates where it would wrap: so a PDO with the index at 0 has not been sent in this
  cycle (`TurnsCounted`), and from the turn after that what was due is sent (`DueIsSent`).
  The counters are the two digits of the number of the producer's last SYNC (`Digits`), counted by the
  auxiliary register in rounds of the maximum; `DigitsOfNext` is the arithmetic of the step
  over both wrap-rounds. What a consumer holds of the SYNC in the box is said for each place between
  the three reads (`TakenSoFar`). `NodeAssumption` keeps the two maxima that the dictionary gives in the ranges of
  `CO_SYNC.h:33` and below the width, and the auxiliary counters below 32: a maximum of 65535, which nothing refuses, would
  let the counter wrap to 0, and the numbers would no longer follow. A step of the storage leaves the cycle alone or starts it
  afresh, and a step of the cycle leaves the storage alone: so the theorems of the storage hold of the node too
  (`NodeRunsOnWhole`, `NodeStartIsSound`), although `NodeSpec` is not `StorageSpec`.
* **The scheduler.** All its safety properties, for any table, functions, intervals,
  repetitions and number of calls (`SchedulerTableIsSound`,
  `SchedulerCancelledIsGone`, `SchedulerRunsAsAsked`). The first ones need that starts are numbered in turn
  (`Numbering`); the number of runs needs `Counted`: the count of a slot is the runs of the start
  it holds, the one under way not counted, and below the repetitions. For a start made
  under the callback of its own slot it is only a bound, which is why `DoneHasRun`
  excepts it and `RunsWithinRepeat` need not.

*Only model-checked:* everything about what must eventually happen (fairness and
`ENABLED` are beyond the prover), the
MQTT model, the flash driver, and `MapsWhatItNames` of the node. Facts by induction over data are also out of the
prover's reach, and with them what a fold over a sequence computes, on which the properties of the last three
rest (the queue of MQTT, the commands the flash chip has seen, the entries of a PDO mapping); the models contain no recursion.

## 5. Where code and text disagree

`finding_ThreadSafe` ends with a counterexample, and `PROJECT.json` quotes the lines:
`mqtt.h:105` calls the API thread-safe, but `mqtt_unsubscribe` (`mqtt.c:422`) draws its
packet identifier before it locks the mutex. A publish of another thread can draw the same
one, and the acknowledgement of one message then completes another that never got there.

The models do what the code does in these places too, and reach what is described, except where
an entry says that it is left out. No property promises the contrary; four of them
have a property that states what the code does: `QuietStartJumpsToZero`, `FullSegmentIsWhole` of Modbus,
`StartIsSound` and `CyclesAreNumbered`, at their entries below.

* `upgrade/loader/boot_core/sm_bootloader.c:270`: the flag of an older application is read and logged
  ("compatible with old version"), and then has no effect, because init overwrites the state it set.
* `:241`: with a broken main application, a *valid* backup is erased ("Sub Application INVALID,
  format") and an invalid one rolled back to.
* `:275`: the main application is erased for an upgrade with nothing copied to the backup, although the log
  at `:324` says it was.
* `:385`: a start without an upgrade jumps to the address in a signature that was never received, which is
  zero, although the log at `:363` says it jumps to the application (`QuietStartJumpsToZero`).
* `upgrade/loader/boot_core/fw/sm_fw.c:90`: the never-upgraded mark outlives the erase of the
  firmware it speaks of, and an erased partition is started.
* `.../output/sm_host_485_boot_output.c:219`: a packet the port refused to send is taken for one that
  was answered; the segment is counted as received ("Slave confirm received segment"), and only the CRC of the whole firmware notices.
* `upgrade/loader/libs/canopen/CO_SDOserver.c:138`: a client's abort leaves the server's internal-processing flag
  set, and the next download calls `confirm_func` of an object that has none.
* `CO_SDOclient.c:305`: an answer to an earlier transfer is taken for one to this, on the same index and
  sub-index. Were frames held up on the bus for longer than the client's timeout, over four
  transfers, the client could come two segments ahead of the server with the same toggle bit, and
  the server (`CO_SDOserver.c:426`) would store a segment at the place of another.
  `CO_SDOclient.c:379`: the transmit buffer keeps the bytes of the segment before behind a shorter one; a server that
  expects more than the client sent, which only a late answer brings about, stores them as data.
* `CO_OD_storage.c:70`, `:81`: the tests are of a bit, and erased flash has both. A board whose first start was
  that of the loader keeps the erased command; what the application then stores, with a
  signature that is good, is overwritten with the defaults by the next start of the main application (`StartIsSound` has it as
  a promise of the default).
* `upgrade/master/boot-core/sm_boot_master.c:140`: a remove of id -1 matches an empty slot, because that is the id of no
  slave, and lowers the counter. Left out of the model.
* `upgrade/master/boot-core/sm_boot_slave.c:105`: a second session re-registers the callbacks of the
  output, and its success ("Upgraded fw SUCCESS: slave m_id") is reported although its node received nothing.
* `.../output/sm_modbus_rtu_boot_output.c:89`: the size in bytes is halved to registers, and the last byte of a
  segment of odd size never goes out, while the output and the input (`sm_modbus_rtu_boot_input.c:158`) both count the
  segment full (`FullSegmentIsWhole` excepts that byte).
* `.../output/sm_modbus_rtu_boot_output.c:191`: a slave that reports FAILURE or FINISHED early makes the
  output call an abort callback the session never registers.
* `CO_SYNC.h:39` says the auxiliary counter runs to the maximum less one; it reaches the maximum (`CyclesAreNumbered`).
  `CO_SYNC.c:109` shifts a bit by that counter, which nothing keeps below 32; a shift beyond is left out.
* `CO.c:56`: a node whose SYNC is switched off at the wrong moment serves no SDO any more.
* `common/schedule/sm_core_sch.c:134`: a task started into the slot of the callback that is running, with one
  repetition, is dropped without having run. `:99`: a task id is a slot, and outlives its task;
  an id of -1, which a full table returns, is used as an index by a cancel; that is left out of the model.
* `driver/winbond/sm_w25qxx.c:425`: the check of a page asserts the select line where the others release it,
  so that its next buffer and the next command are read on as data; `:436` sends one
  command byte too many. `:476`: the checks ignore the number of bytes they are given, and their last buffer may
  reach beyond the unit. `:774`: reading bytes from a chip with addresses of four bytes
  lacks the dummy byte of the command, and shifts all by one. `:1006`: a length of 0 goes
  on to the end of the sector (`:981` the same); such calls are left out.

## 6. Plan

Done: the loader, the session over the host link, Modbus and CANopen, the table of slaves,
the SDO pair, the node's storage and cycle, the MQTT client, the scheduler, the SPI flash. What would add most
now, in this order:

1. **Proofs**: `StreamWhole` for MQTT.
2. **Host framing and ring**: bytes as positions in frames, overrun, a header inside a
   frame, `sm_host_asyn_feed` in its interrupt (`libs/host/sm_host.c:338`); composed with
   `BootSession` by refinement of its link. Also `:210`, a failed send that leaves
   the synchronous call's callback installed.
3. **Nodes in full**: the CANopen output over `CoSdo`, or over `SdoTransfer` in its place, and the loader's
   state in the nodes.
4. **Pure algorithms**: the splitting of a HEX stream into segments (the flash input reads its stream once,
   forward, so a segment asked for twice is two segments: `sm_flash_boot_input.c:184`), and the containers
   against reference definitions over bounded inputs (`sm_queue.c:65` popping an empty
   queue, `v_link_list.c:207` removing the first node).
5. **Modem** (`v_modem.c:87`): a late answer taken for that of the next command.

## 7. Not modelled, and why

JSON, strings, logging (no property is about them); the other drivers and system
calls (pure I/O); libcurl; `common/stm` (no call sets its current state); the file and flash
outputs, which write at once. The headers `sm_boot_canopen.h`, `sm_core_co.h`, the
CAN driver, the board that runs `CO_process`, the Modbus register numbers and the length of a Modbus frame
(`BSS_MODBUS_FILE_MAX_LEN`), and the MQTT broker
are not in the repository; what the code in it expects of them is modelled as external.
Within the modelled parts: EMCY, NMT and RPDO of CANopen, Modbus over TCP and raw PDUs, MQTT's
inspector and statistics, the byte-wise framing of the host link, CRC collisions.
