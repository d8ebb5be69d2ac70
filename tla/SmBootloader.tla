---------------------------- MODULE SmBootloader ----------------------------
(***************************************************************************)
(* The boot loader core (boot_core/sm_bootloader.c, boot_core/fw/sm_fw.c)   *)
(* with the events its host interfaces raise (boot_interface/               *)
(* sm_boot_host.c).  sm_bootloader_process() is called from an endless      *)
(* loop; one call is split here where other things can happen in between:   *)
(* one step per interface polled, one for the timer test that follows.      *)
(*                                                                         *)
(* A firmware image is a member of Images, cut into segments 1..NumSeg; a   *)
(* partition maps every segment to what its flash cells hold.  The CRC of   *)
(* an image is abstracted to what it tells apart: it matches exactly when   *)
(* every segment of the partition belongs to the image.                     *)
(***************************************************************************)
EXTENDS Integers, FiniteSets

CONSTANTS
  Images,        \* firmware images, as the CRC in a signature names them
  NumSeg,        \* segments of an image
  NumIf,         \* boot interfaces added with sm_bootloader_add_boot_if
  HasSub,        \* whether a sub application (backup partition) exists
  MaxRetry,      \* SM_BOOT_MAX_RETRY
  BootTimes,     \* boot times the configuration may hold, in seconds
  UpgradeTime,   \* SM_BOOT_TIME_UPGRADING_MAX
  UninitStatus,  \* values of the main status before it is first assigned
  UninitFirst,   \* values of the never written first-time byte of a host
  NoImage        \* the image of a signature nobody has written

Interfaces == 1..NumIf
Segments   == 1..NumSeg

ASSUME BootAssumption ==
  /\ NumSeg \in Nat \ {0}
  /\ NumIf \in 1..10
  /\ HasSub \in BOOLEAN
  /\ MaxRetry \in Nat \ {0}
  /\ BootTimes \subseteq Nat
  /\ UpgradeTime \in Nat \ {0}
  /\ UninitStatus \subseteq {"VALID", "INVALID"} /\ UninitStatus # {}
  /\ UninitFirst \subseteq BOOLEAN /\ UninitFirst # {}
  /\ NoImage \notin Images
  /\ "ERASED" \notin Images /\ "TORN" \notin Images

VARIABLES
  \* RAM of the loader
  m_state,         \* SM_BOOTLOADER_STT
  m_boot_if_active,\* interface polled last, 0 for NULL
  m_enable,        \* m_enable of every interface
  m_status,        \* m_main_app_firmware_status
  m_retry,
  m_timeout,       \* duration of the timer and whether it has run out
  m_new_firmware,  \* signature announced by the master
  m_main_sign,     \* m_main_app->m_signature
  m_sub_sign,      \* m_sub_app->m_signature
  loop,            \* where sm_bootloader_process is: see below
  \* flash and configuration memory: survive a reset
  main, sub,       \* the two partitions
  mainInfo, subInfo, \* the stored signatures
  flag,            \* what get_flag() answers
  bootTime,        \* what get_boot_time() answers
  \* environment
  power,           \* "boot": loader runs, "app": application, "reset"
  target,          \* where the last jump went
  reply,           \* the last answer an interface sent to its master
  quiet            \* no master talks and no power is lost any more

ramVars == <<m_state, m_boot_if_active, m_enable, m_status, m_retry,
             m_timeout, m_new_firmware, m_main_sign, m_sub_sign, loop>>
nvVars  == <<main, sub, mainInfo, subInfo, bootTime>>
envVars == <<flag, power, target, reply, quiet>>
vars    == <<ramVars, nvVars, envVars>>

Signatures == [image : Images \cup {NoImage}, first : BOOLEAN]
NoSign     == [image |-> NoImage, first |-> FALSE]
Cells      == Images \cup {"ERASED", "TORN"}
Partitions == [Segments -> Cells]
Full(v)    == [k \in Segments |-> v]
Blank      == Full("ERASED")

States  == {"INIT", "WAITING", "PREPARING", "UPGRADING", "FINISH", "FAILURE"}
Replies == [cmd : {"NONE", "REQUEST", "FW_INFO", "SEGMENT", "ABORT"},
            ok : BOOLEAN, image : Images \cup {NoImage}]

\* loop = 0: at the switch; i in Interfaces: interface i is polled next;
\* CheckWait, CheckUpgrade: at the timer test of that case.
CheckWait    == NumIf + 1
CheckUpgrade == NumIf + 2

\* sm_fw_is_valid: a signature marked as never upgraded is not checked.
IsValid(part, sign) ==
  \/ sign.first
  \/ sign.image \in Images /\ part = Full(sign.image)

\* What an erase that power loss cuts short may leave.
PartlyErased(part) ==
  {q \in Partitions : \A k \in Segments : q[k] \in {part[k], "ERASED"}}

\* sm_elapsed_timer_resetz; a timer of duration 0 has already run out.
Timer(d) == [dur |-> d, expired |-> d = 0]

\* m_boot_time is a uint8_t; out of range selects SM_BOOT_TIME_DEFAULT.
BootTimeMax       == 10
BootTimeDefault   == 2
\* Mutation: the range check of the boot time is forgotten.
MutEffectiveTime(t) == t % 256
EffectiveTime(t)  == IF t % 256 > BootTimeMax THEN BootTimeDefault ELSE t % 256

-----------------------------------------------------------------------------
\* sm_bootloader_create_default and sm_bootloader_add_boot_if: every
\* interface starts disabled.
FreshRam ==
  /\ m_state' = "INIT" /\ loop' = 0
  /\ m_boot_if_active' = 0
  /\ m_enable' = [i \in Interfaces |-> FALSE]
  /\ m_status' \in UninitStatus
  /\ m_retry' = 0
  /\ m_timeout' = Timer(0)
  /\ m_new_firmware' = NoSign /\ m_main_sign' = NoSign /\ m_sub_sign' = NoSign

Init ==
  /\ m_state = "INIT" /\ loop = 0
  /\ m_boot_if_active = 0
  /\ m_enable = [i \in Interfaces |-> FALSE]
  /\ m_status \in UninitStatus
  /\ m_retry = 0
  /\ m_timeout = Timer(0)
  /\ m_new_firmware = NoSign /\ m_main_sign = NoSign /\ m_sub_sign = NoSign
  /\ mainInfo \in [image : Images, first : BOOLEAN]
  /\ main \in {Full(mainInfo.image), Blank}
  /\ mainInfo.first => main = Full(mainInfo.image)
  /\ \/ sub = Blank /\ subInfo = NoSign
     \/ /\ HasSub
        /\ subInfo \in [image : Images, first : {FALSE}]
        /\ sub = Full(subInfo.image)
  /\ flag \in BOOLEAN
  /\ bootTime \in BootTimes
  /\ power = "boot" /\ target = "none" /\ quiet = FALSE
  /\ reply = [cmd |-> "NONE", ok |-> FALSE, image |-> NoImage]

Answer(c, r, v) == reply' = [cmd |-> c, ok |-> r, image |-> v]

-----------------------------------------------------------------------------
\* sm_fw_clone copies nothing; apart from a NULL destination its result is
\* never set, so either branch of the callers' test may follow.
CloneMaySucceed(dest) == dest

\* What sm_bootloader_init does to flash and signatures, as alternatives.
InitFlagSet ==
  /\ flag
  /\ m_main_sign' = mainInfo
  /\ UNCHANGED <<m_status, main, sub, mainInfo, subInfo>>

\* Mutation: the main application is found valid but not marked as such.
MutInitMainValid ==
  /\ ~flag /\ IsValid(main, mainInfo)
  /\ m_main_sign' = mainInfo
  /\ m_status' = "INVALID"
  /\ sub' = IF HasSub THEN Blank ELSE sub
  /\ UNCHANGED <<main, mainInfo, subInfo>>

InitMainValid ==
  /\ ~flag /\ IsValid(main, mainInfo)
  /\ m_main_sign' = mainInfo
  /\ m_status' = "VALID"
  /\ sub' = IF HasSub THEN Blank ELSE sub
  /\ UNCHANGED <<main, mainInfo, subInfo>>

\* The backup is formatted exactly when it is valid (the test lacks a "!").
InitFormatSub ==
  /\ ~flag /\ ~IsValid(main, mainInfo)
  /\ m_main_sign' = mainInfo
  /\ m_status' = "INVALID"
  /\ HasSub => IsValid(sub, subInfo)
  /\ sub' = IF HasSub THEN Blank ELSE sub
  /\ UNCHANGED <<main, mainInfo, subInfo>>

InitRollback ==
  /\ ~flag /\ ~IsValid(main, mainInfo)
  /\ HasSub /\ ~IsValid(sub, subInfo)
  /\ m_status' = "INVALID"
  /\ main' = Blank
  /\ \/ m_main_sign' = mainInfo /\ mainInfo' = mainInfo
     \/ /\ CloneMaySucceed(TRUE)
        /\ m_main_sign' = subInfo
        /\ mainInfo' \in {mainInfo, subInfo}
  /\ UNCHANGED <<sub, subInfo>>

\* State INIT: check the partitions, open the interfaces, start waiting.
ProcessInit ==
  /\ power = "boot" /\ loop = 0 /\ m_state = "INIT"
  /\ InitFlagSet \/ InitMainValid \/ InitFormatSub \/ InitRollback
  /\ m_sub_sign' = IF HasSub THEN subInfo ELSE m_sub_sign
  /\ bootTime' = IF bootTime % 256 > BootTimeMax THEN BootTimeDefault
                                                  ELSE bootTime
  /\ m_enable' = [i \in Interfaces |-> TRUE]
  /\ m_timeout' = Timer(EffectiveTime(bootTime))
  /\ m_state' = "WAITING"
  /\ UNCHANGED <<m_boot_if_active, m_retry, m_new_firmware, loop, envVars>>

\* State PREPARING: back up (without effect on the outcome: the state set on
\* the result of the backup is overwritten below), erase the main partition.
ProcessPreparing ==
  /\ power = "boot" /\ loop = 0 /\ m_state = "PREPARING"
  /\ sub' = IF HasSub THEN Blank ELSE sub
  /\ \/ UNCHANGED <<m_sub_sign, subInfo>>
     \/ /\ CloneMaySucceed(HasSub)
        /\ m_sub_sign' = m_main_sign
        /\ subInfo' \in {subInfo, m_main_sign}
  /\ main' = Blank
  /\ m_state' = "UPGRADING"
  /\ m_retry' = 0
  /\ m_timeout' = Timer(UpgradeTime)
  /\ UNCHANGED <<m_boot_if_active, m_enable, m_status, m_new_firmware,
                 m_main_sign, loop, mainInfo, bootTime, envVars>>

-----------------------------------------------------------------------------
\* The event handlers, run while interface i is being polled.  Each leaves
\* loop and m_boot_if_active to the poll.

\* SM_SUB_CMD_REQUEST -> sm_bootloader_handle_request_upgrade_event
RequestUpgrade(i) ==
  /\ \/ /\ m_state = "WAITING"
        /\ m_enable' = [j \in Interfaces |-> j = i]
        /\ m_state' = "PREPARING"
        /\ Answer("REQUEST", TRUE, NoImage)
     \/ /\ m_state # "WAITING"
        /\ Answer("REQUEST", FALSE, NoImage)
        /\ UNCHANGED <<m_enable, m_state>>
  /\ UNCHANGED <<m_status, m_retry, m_timeout, m_new_firmware, m_main_sign,
                 m_sub_sign, nvVars>>

\* Mutation: a segment is written in whatever state it arrives.
MutNewSegment(k, v) ==
  /\ m_timeout' = Timer(m_timeout.dur)
  /\ main' = [main EXCEPT ![k] = v]
  /\ Answer("SEGMENT", TRUE, v)
  /\ UNCHANGED <<m_state, m_enable, m_status, m_retry, m_new_firmware,
                 m_main_sign, m_sub_sign, sub, mainInfo, subInfo, bootTime>>

\* SM_SUB_CMD_SEND_SEGMENT_DATA that completes a segment
\* -> sm_bootloader_handle_new_segment_event; the write may fail.
NewSegment(k, v) ==
  /\ \/ /\ m_state = "UPGRADING"
        /\ m_timeout' = Timer(m_timeout.dur)
        /\ \/ /\ main' = [main EXCEPT ![k] = v]
              /\ Answer("SEGMENT", TRUE, v)
           \/ /\ main' \in {main, [main EXCEPT ![k] = "TORN"]}
              /\ Answer("SEGMENT", FALSE, v)
     \/ /\ m_state # "UPGRADING"
        /\ Answer("SEGMENT", FALSE, v)
        /\ UNCHANGED <<m_timeout, main>>
  /\ UNCHANGED <<m_state, m_enable, m_status, m_retry, m_new_firmware,
                 m_main_sign, m_sub_sign, sub, mainInfo, subInfo, bootTime>>

\* SM_SUB_CMD_FW_INFO raises NEW_FIRMWARE, FINISH_DOWNLOAD and, when that
\* succeeds, FINISH_UPGRADE.
\* Not upgrading: handle_finish_download fails the loader.
FwInfoUnexpected(v) ==
  /\ m_state # "UPGRADING"
  /\ m_state' = "FAILURE"
  /\ Answer("FW_INFO", FALSE, v)
  /\ UNCHANGED <<m_timeout, m_new_firmware, m_main_sign, mainInfo>>

FwInfoInvalid(v, sign) ==
  /\ m_state = "UPGRADING" /\ ~IsValid(main, sign)
  /\ m_new_firmware' = sign /\ m_main_sign' = sign
  /\ m_timeout' = Timer(m_timeout.dur)
  /\ m_state' = "FAILURE"
  /\ Answer("FW_INFO", FALSE, v)
  /\ UNCHANGED mainInfo

\* Mutation: the CRC of the downloaded firmware is not checked.
MutFwInfoValid(v, sign) ==
  /\ m_state = "UPGRADING"
  /\ m_new_firmware' = sign /\ m_main_sign' = sign
  /\ m_timeout' = Timer(m_timeout.dur)
  /\ mainInfo' = sign
  /\ m_state' = "FINISH"
  /\ Answer("FW_INFO", TRUE, v)

\* handle_finish_upgrade writes the signature five times, whatever each write
\* answers, and goes by the last answer.
FwInfoValid(v, sign) ==
  /\ m_state = "UPGRADING" /\ IsValid(main, sign)
  /\ m_new_firmware' = sign /\ m_main_sign' = sign
  /\ m_timeout' = Timer(m_timeout.dur)
  /\ \/ /\ mainInfo' = sign
        /\ m_state' = "FINISH"
        /\ Answer("FW_INFO", TRUE, v)
     \/ /\ mainInfo' \in {mainInfo, sign}
        /\ m_state' = "FAILURE"
        /\ Answer("FW_INFO", FALSE, v)

FwInfo(v) ==
  /\ \E f \in UninitFirst :
       LET sign == [image |-> v, first |-> f]
       IN  FwInfoUnexpected(v) \/ FwInfoInvalid(v, sign) \/ FwInfoValid(v, sign)
  /\ UNCHANGED <<m_enable, m_status, m_retry, m_sub_sign, main, sub, subInfo,
                 bootTime>>

\* A frame too short for its command -> handle_abort_upgrade_event
Abort ==
  /\ m_state' = "FAILURE"
  /\ Answer("ABORT", FALSE, NoImage)
  /\ UNCHANGED <<m_enable, m_status, m_retry, m_timeout, m_new_firmware,
                 m_main_sign, m_sub_sign, nvVars>>

\* No frame, or one that raises no event; a disabled interface never has one.
NoEvent ==
  UNCHANGED <<m_state, m_enable, m_status, m_retry, m_timeout, m_new_firmware,
              m_main_sign, m_sub_sign, nvVars, reply>>

\* sm_boot_host_process: a disabled interface does nothing.
InterfaceProcess(i) ==
  \/ NoEvent
  \/ /\ m_enable[i] /\ ~quiet
     /\ \/ RequestUpgrade(i)
        \/ \E k \in Segments, v \in Images : NewSegment(k, v)
        \/ \E v \in Images : FwInfo(v)
        \/ Abort

\* What a poll does besides the handlers it runs.
\* Mutation: the polled interface is not remembered as the active one.
MutWaitingPolled(i) ==
  /\ power = "boot"
  /\ \/ loop = 0 /\ m_state = "WAITING" /\ i = 1
     \/ loop = i /\ i > 1
  /\ loop' = IF i < NumIf THEN i + 1 ELSE CheckWait
  /\ UNCHANGED <<m_boot_if_active, flag, power, target, quiet>>

WaitingPolled(i) ==
  /\ power = "boot"
  /\ \/ loop = 0 /\ m_state = "WAITING" /\ i = 1
     \/ loop = i /\ i > 1
  /\ m_boot_if_active' = i
  /\ loop' = IF i < NumIf THEN i + 1 ELSE CheckWait
  /\ UNCHANGED <<flag, power, target, quiet>>

UpgradingPolled ==
  /\ power = "boot" /\ loop = 0 /\ m_state = "UPGRADING"
  /\ loop' = CheckUpgrade
  /\ UNCHANGED <<m_boot_if_active, flag, power, target, quiet>>

\* State WAITING: poll the interfaces one after the other, whatever the
\* handlers made of m_state, then test the boot timer.
WaitingPoll(i) == WaitingPolled(i) /\ InterfaceProcess(i)

\* Mutation: the boot time runs out and the status is not looked at.
MutWaitingTimer ==
  /\ power = "boot" /\ loop = CheckWait
  /\ loop' = 0
  /\ m_state' = IF m_timeout.expired THEN "FINISH" ELSE m_state
  /\ UNCHANGED <<m_boot_if_active, m_enable, m_status, m_retry, m_timeout,
                 m_new_firmware, m_main_sign, m_sub_sign, nvVars, envVars>>

WaitingTimer ==
  /\ power = "boot" /\ loop = CheckWait
  /\ loop' = 0
  /\ \/ ~m_timeout.expired /\ UNCHANGED <<m_state, m_retry, m_timeout, power>>
     \/ /\ m_timeout.expired /\ m_status = "VALID"
        /\ m_state' = "FINISH"
        /\ UNCHANGED <<m_retry, m_timeout, power>>
     \/ /\ m_timeout.expired /\ m_status = "INVALID"
        /\ m_retry' = m_retry + 1
        /\ power' = IF m_retry + 1 >= MaxRetry THEN "reset" ELSE "boot"
        /\ m_timeout' = Timer(m_timeout.dur)
        /\ UNCHANGED m_state
  /\ UNCHANGED <<m_boot_if_active, m_enable, m_status, m_new_firmware,
                 m_main_sign, m_sub_sign, nvVars, flag, target, reply, quiet>>

\* State UPGRADING: poll the active interface, then test the timer.
UpgradingPoll == UpgradingPolled /\ InterfaceProcess(m_boot_if_active)

\* Mutation: the upgrade has no timeout.
MutUpgradingTimer ==
  /\ power = "boot" /\ loop = CheckUpgrade
  /\ loop' = 0
  /\ UNCHANGED <<m_state, m_boot_if_active, m_enable, m_status, m_retry,
                 m_timeout, m_new_firmware, m_main_sign, m_sub_sign, nvVars,
                 envVars>>

UpgradingTimer ==
  /\ power = "boot" /\ loop = CheckUpgrade
  /\ loop' = 0
  /\ m_state' = IF m_timeout.expired THEN "FAILURE" ELSE m_state
  /\ UNCHANGED <<m_boot_if_active, m_enable, m_status, m_retry, m_timeout,
                 m_new_firmware, m_main_sign, m_sub_sign, nvVars, envVars>>

\* State FINISH: jump to the address of m_new_firmware, which is zero until
\* a firmware is received; the address of the application is not looked up.
ProcessFinish ==
  /\ power = "boot" /\ loop = 0 /\ m_state = "FINISH"
  /\ power' = "app"
  /\ target' = IF m_new_firmware.image = NoImage THEN "zero" ELSE "app"
  /\ UNCHANGED <<ramVars, nvVars, flag, reply, quiet>>

\* State FAILURE: reboot.
ProcessFailure ==
  /\ power = "boot" /\ loop = 0 /\ m_state = "FAILURE"
  /\ power' = "reset"
  /\ UNCHANGED <<ramVars, nvVars, flag, target, reply, quiet>>

-----------------------------------------------------------------------------
\* The rest of the world.
TimerExpires ==
  /\ power = "boot" /\ ~m_timeout.expired
  /\ m_state \in {"WAITING", "UPGRADING"}
  /\ m_timeout' = [m_timeout EXCEPT !.expired = TRUE]
  /\ UNCHANGED <<m_state, m_boot_if_active, m_enable, m_status, m_retry,
                 m_new_firmware, m_main_sign, m_sub_sign, loop, nvVars,
                 envVars>>

\* A reset starts the loader from main().  An application that hands over to
\* the loader may have set the flag and the boot time.
Restart ==
  /\ \/ power = "reset" /\ UNCHANGED <<flag, bootTime>>
     \/ /\ power = "app" /\ ~quiet
        /\ flag' \in BOOLEAN
        /\ bootTime' \in BootTimes
  /\ FreshRam
  /\ power' = "boot" /\ target' = "none"
  /\ UNCHANGED <<main, sub, mainInfo, subInfo, reply, quiet>>

\* Power is lost between two steps ...
PowerLoss ==
  /\ power = "boot" /\ ~quiet
  /\ power' = "reset"
  /\ UNCHANGED <<ramVars, nvVars, flag, target, reply, quiet>>

\* ... or in the middle of what PREPARING writes: the backup partition and
\* its signature first, the main partition last ...
PowerLossInPreparing ==
  /\ power = "boot" /\ ~quiet /\ loop = 0 /\ m_state = "PREPARING"
  /\ power' = "reset"
  /\ \/ HasSub /\ sub' \in PartlyErased(sub) /\ UNCHANGED <<main, subInfo>>
     \/ /\ sub' = IF HasSub THEN Blank ELSE sub
        /\ subInfo' \in IF HasSub THEN {subInfo, m_main_sign} ELSE {subInfo}
        /\ main' \in PartlyErased(main)
  /\ UNCHANGED <<ramVars, mainInfo, bootTime, flag, target, reply, quiet>>

\* ... of what INIT erases ...
PowerLossInInit ==
  /\ power = "boot" /\ ~quiet /\ loop = 0 /\ m_state = "INIT"
  /\ power' = "reset"
  /\ ~flag
  /\ IF IsValid(main, mainInfo) \/ (HasSub => IsValid(sub, subInfo))
       THEN HasSub /\ sub' \in PartlyErased(sub) /\ UNCHANGED main
       ELSE main' \in PartlyErased(main) /\ UNCHANGED sub
  /\ UNCHANGED <<ramVars, mainInfo, subInfo, bootTime, flag, target, reply,
                 quiet>>

\* ... of a segment write, or after the new signature is stored and before
\* the master is told.
PowerLossInUpgrading ==
  /\ power = "boot" /\ ~quiet /\ loop = 0 /\ m_state = "UPGRADING"
  /\ m_enable[m_boot_if_active]
  /\ power' = "reset"
  /\ \/ /\ \E k \in Segments, v \in Images :
             main' \in {[main EXCEPT ![k] = "TORN"], [main EXCEPT ![k] = v]}
        /\ UNCHANGED mainInfo
     \/ /\ \E v \in Images, f \in UninitFirst :
             LET sign == [image |-> v, first |-> f]
             IN  IsValid(main, sign) /\ mainInfo' = sign
        /\ UNCHANGED main
  /\ UNCHANGED <<ramVars, sub, subInfo, bootTime, flag, target, reply, quiet>>

\* From here on nobody talks to the loader and the power stays on.
GoQuiet ==
  /\ ~quiet /\ quiet' = TRUE
  /\ UNCHANGED <<ramVars, nvVars, flag, power, target, reply>>

Process ==
  \/ ProcessInit
  \/ ProcessPreparing
  \/ \E i \in Interfaces : WaitingPoll(i)
  \/ WaitingTimer
  \/ UpgradingPoll
  \/ UpgradingTimer
  \/ ProcessFinish
  \/ ProcessFailure

Next ==
  \/ Process
  \/ TimerExpires
  \/ Restart
  \/ PowerLoss \/ PowerLossInPreparing \/ PowerLossInInit
  \/ PowerLossInUpgrading
  \/ GoQuiet

Spec == Init /\ [][Next]_vars

\* main() calls the process function for ever, time passes, a reset ends.
FairSpec ==
  /\ Spec
  /\ WF_vars(Process)
  /\ WF_vars(TimerExpires)
  /\ WF_vars(power = "reset" /\ Restart)

-----------------------------------------------------------------------------
\* Properties.

\* The main partition holds exactly the image its stored signature names.
Intact == mainInfo.image \in Images /\ main = Full(mainInfo.image)

\* Every variable has its type, and the boot time the timer was given never
\* exceeds what sm_bootloader_init allows.
TypeOK ==
  /\ m_state \in States
  /\ m_boot_if_active \in 0..NumIf
  /\ m_enable \in [Interfaces -> BOOLEAN]
  /\ m_status \in {"VALID", "INVALID"}
  /\ m_retry \in 0..MaxRetry
  /\ m_timeout \in [dur : 0..BootTimeMax \cup {UpgradeTime}, expired : BOOLEAN]
  /\ m_new_firmware \in Signatures
  /\ m_main_sign \in Signatures /\ m_sub_sign \in Signatures
  /\ loop \in 0..CheckUpgrade
  /\ main \in Partitions /\ sub \in Partitions
  /\ mainInfo \in Signatures /\ subInfo \in Signatures
  /\ flag \in BOOLEAN /\ bootTime \in Nat
  /\ power \in {"boot", "app", "reset"}
  /\ target \in {"none", "zero", "app"}
  /\ reply \in Replies /\ quiet \in BOOLEAN

\* The loader hands over only to an application whose CRC it has checked,
\* through every upgrade, failure and power loss -- unless the old-version
\* flag or the never-upgraded mark made sm_bootloader_init skip the check.
\* A jump counts whatever its address (QuietStartJumpsToZero is about that).
JumpOnlyToIntactApp ==
  power = "app" /\ ~flag /\ ~mainInfo.first => Intact

\* Once a master has been told that its firmware is installed, that firmware
\* and its signature stay in place, across resets and power losses, until an
\* interface acknowledges another request.
AckedUpgradeIsDurable ==
  reply.cmd = "FW_INFO" /\ reply.ok
    => /\ mainInfo.image = reply.image
       /\ ~mainInfo.first => Intact

\* A state that dereferences m_boot_if_active is never reached without one.
ActiveInterfaceSet ==
  m_state \in {"PREPARING", "UPGRADING", "FAILURE"} => m_boot_if_active # 0

\* The running application is erased only after a request for an upgrade was
\* acknowledged; no other command, reset or failure destroys a good image.
EraseNeedsRequest ==
  [][Intact /\ main' # main
       => \/ m_state = "UPGRADING"
          \/ /\ m_state = "PREPARING"
             /\ reply.cmd = "REQUEST" /\ reply.ok]_vars

\* A master that falls silent cannot hold the loader in an upgrade.
SilentMasterTimesOut ==
  m_state = "UPGRADING" /\ quiet ~> m_state # "UPGRADING"

\* A start with an intact application and no traffic ends: no reset, failure
\* or further wait keeps the loader.  Where it jumps is not the application,
\* though sm_bootloader.c:363 logs that it is: the address is that of a
\* firmware received since the start (:385), and none was, so it is zero.
QuietStartJumpsToZero ==
  m_state = "INIT" /\ power = "boot" /\ quiet /\ Intact
    ~> power = "app" /\ target = "zero"

=============================================================================
