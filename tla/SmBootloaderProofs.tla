-------------------------- MODULE SmBootloaderProofs -------------------------
(***************************************************************************)
(* What SmBootloader promises, proved for every set of images, every number *)
(* of segments and interfaces, with or without a backup partition.          *)
(***************************************************************************)
EXTENDS SmBootloader, TLAPS

\* In the waiting loop nothing but waiting, a request or a failure happens;
\* between the poll and the timer test of an upgrade nothing starts over.
LoopState ==
  /\ loop \in 1..CheckWait => m_state \in {"WAITING", "PREPARING", "FAILURE"}
  /\ loop = CheckUpgrade => m_state \in {"UPGRADING", "FINISH", "FAILURE"}

\* While the loader waits, the status VALID is that of the partition.
StatusIsChecked ==
  power = "boot" /\ ~flag /\ m_status = "VALID"
      /\ (m_state = "WAITING" \/ loop \in 1..CheckWait)
    => IsValid(main, mainInfo)

\* Once it is about to jump, or has jumped, the partition is valid.
JumpIsChecked ==
  (power = "boot" /\ m_state = "FINISH") \/ power = "app"
    => flag \/ IsValid(main, mainInfo)

\* The partition is prepared only for an acknowledged request, which no other
\* interface can follow up with a command of its own.
RequestPending ==
  m_state = "PREPARING"
    => /\ reply.cmd = "REQUEST" /\ reply.ok
       /\ \A j \in Interfaces : loop # 0 /\ j >= loop => ~m_enable[j]

UpgradePending ==
  m_state = "UPGRADING" => ~(reply.cmd = "FW_INFO" /\ reply.ok)

ActiveSet == loop # 0 => m_boot_if_active # 0

RetryBound == power = "boot" => m_retry < MaxRetry

IndInv ==
  /\ TypeOK
  /\ LoopState
  /\ StatusIsChecked
  /\ JumpIsChecked
  /\ RequestPending
  /\ UpgradePending
  /\ ActiveSet
  /\ RetryBound
  /\ ActiveInterfaceSet
  /\ AckedUpgradeIsDurable

-----------------------------------------------------------------------------
LEMMA EffectiveTimeBounded ==
  \A t \in Nat : EffectiveTime(t) \in 0..BootTimeMax
BY DEF EffectiveTime, BootTimeMax, BootTimeDefault

LEMMA TimerType ==
  \A d \in 0..BootTimeMax \cup {UpgradeTime} :
    Timer(d) \in [dur : 0..BootTimeMax \cup {UpgradeTime}, expired : BOOLEAN]
BY DEF Timer

LEMMA PartitionType ==
  /\ Blank \in Partitions
  /\ \A v \in Images : Full(v) \in Partitions
  /\ \A p \in Partitions : PartlyErased(p) \subseteq Partitions
  /\ \A p \in Partitions, k \in Segments, v \in Cells :
       [p EXCEPT ![k] = v] \in Partitions
BY DEF Blank, Full, Partitions, Cells, PartlyErased

LEMMA SignType ==
  /\ NoSign \in Signatures
  /\ [image : Images, first : BOOLEAN] \subseteq Signatures
  /\ \A v \in Images, f \in BOOLEAN : [image |-> v, first |-> f] \in Signatures
BY DEF NoSign, Signatures

LEMMA InitIndInv == Init => IndInv
<1> SUFFICES ASSUME Init PROVE IndInv
  OBVIOUS
<1> USE BootAssumption DEF Init, IsValid, Interfaces, CheckWait, CheckUpgrade
<1>1. TypeOK
  <2>1. /\ mainInfo \in Signatures /\ subInfo \in Signatures
        /\ main \in Partitions /\ sub \in Partitions
    <3>1. mainInfo.image \in Images /\ mainInfo \in Signatures
      BY DEF Signatures
    <3>2. main \in Partitions
      BY <3>1, PartitionType
    <3>3. CASE sub = Blank /\ subInfo = NoSign
      BY <3>1, <3>2, <3>3, PartitionType, SignType
    <3>4. CASE subInfo \in [image : Images, first : {FALSE}]
               /\ sub = Full(subInfo.image)
      <4>1. subInfo.image \in Images /\ subInfo \in Signatures
        BY <3>4 DEF Signatures
      <4>2. QED
        BY <3>1, <3>2, <3>4, <4>1, PartitionType
    <3>5. QED
      BY <3>3, <3>4
  <2>2. m_timeout \in [dur : 0..BootTimeMax \cup {UpgradeTime},
                       expired : BOOLEAN]
    BY TimerType DEF BootTimeMax
  <2>3. reply \in Replies
    BY DEF Replies
  <2>4. /\ m_state \in States /\ m_status \in {"VALID", "INVALID"}
        /\ m_boot_if_active \in 0..NumIf /\ m_retry \in 0..MaxRetry
        /\ loop \in 0..CheckUpgrade
    BY DEF States
  <2>5. m_enable \in [Interfaces -> BOOLEAN] /\ bootTime \in Nat
    OBVIOUS
  <2>6. QED
    BY <2>1, <2>2, <2>3, <2>4, <2>5, SignType DEF TypeOK
<1>2. LoopState /\ StatusIsChecked /\ JumpIsChecked
  BY DEF LoopState, StatusIsChecked, JumpIsChecked
<1>3. RequestPending /\ UpgradePending /\ ActiveSet /\ RetryBound
  BY DEF RequestPending, UpgradePending, ActiveSet, RetryBound
<1>4. ActiveInterfaceSet /\ AckedUpgradeIsDurable
  BY DEF ActiveInterfaceSet, AckedUpgradeIsDurable
<1>5. QED
  BY <1>1, <1>2, <1>3, <1>4 DEF IndInv

\* An intact partition passes sm_fw_is_valid.
LEMMA IntactIsValid == Intact => IsValid(main, mainInfo)
BY DEF Intact, IsValid

LEMMA AckedIsValid ==
  AckedUpgradeIsDurable /\ reply.cmd = "FW_INFO" /\ reply.ok
    => IsValid(main, mainInfo)
BY IntactIsValid DEF AckedUpgradeIsDurable, IsValid

LEMMA StepInit == IndInv /\ ProcessInit => IndInv'
<1> SUFFICES ASSUME IndInv, ProcessInit PROVE IndInv'
  OBVIOUS
<1> USE BootAssumption
<1>1. TypeOK'
  <2>1. m_timeout' \in [dur : 0..BootTimeMax \cup {UpgradeTime},
                        expired : BOOLEAN]
    BY EffectiveTimeBounded, TimerType DEF IndInv, TypeOK, ProcessInit
  <2>2. /\ m_main_sign' \in Signatures /\ mainInfo' \in Signatures
        /\ main' \in Partitions /\ sub' \in Partitions
        /\ subInfo' = subInfo /\ m_status' \in {"VALID", "INVALID"}
    BY PartitionType
    DEF IndInv, TypeOK, ProcessInit, InitFlagSet, InitMainValid,
        InitFormatSub, InitRollback
  <2>3. bootTime' \in Nat /\ m_enable' \in [Interfaces -> BOOLEAN]
    BY DEF IndInv, TypeOK, ProcessInit, BootTimeDefault
  <2>4. m_sub_sign' \in Signatures /\ m_state' \in States
    BY DEF IndInv, TypeOK, ProcessInit, States
  <2>5. QED
    BY <2>1, <2>2, <2>3, <2>4 DEF IndInv, TypeOK, ProcessInit, envVars
<1>2. LoopState' /\ RequestPending' /\ UpgradePending' /\ ActiveSet'
      /\ RetryBound' /\ ActiveInterfaceSet'
  BY DEF IndInv, LoopState, RequestPending, UpgradePending, ActiveSet,
         RetryBound, ActiveInterfaceSet, ProcessInit, envVars
<1>3. StatusIsChecked'
  BY DEF IndInv, TypeOK, LoopState, StatusIsChecked, ProcessInit, InitFlagSet, InitMainValid,
         InitFormatSub, InitRollback, envVars, IsValid
<1>4. JumpIsChecked'
  BY DEF IndInv, JumpIsChecked, ProcessInit, envVars
<1>5. AckedUpgradeIsDurable'
  BY AckedIsValid
  DEF IndInv, AckedUpgradeIsDurable, ProcessInit, InitFlagSet, InitMainValid,
      InitFormatSub, InitRollback, envVars, Intact
<1>6. QED
  BY <1>1, <1>2, <1>3, <1>4, <1>5 DEF IndInv

LEMMA StepPreparing == IndInv /\ ProcessPreparing => IndInv'
<1> SUFFICES ASSUME IndInv, ProcessPreparing PROVE IndInv'
  OBVIOUS
<1> USE BootAssumption DEF IndInv, ProcessPreparing, envVars
<1>1. TypeOK'
  BY PartitionType, TimerType
  DEF TypeOK, States
<1>2. LoopState' /\ RequestPending' /\ UpgradePending' /\ ActiveSet'
      /\ RetryBound' /\ ActiveInterfaceSet'
  BY DEF TypeOK, LoopState, RequestPending, UpgradePending, ActiveSet,
         RetryBound, ActiveInterfaceSet, CheckWait, CheckUpgrade, Interfaces
<1>3. StatusIsChecked' /\ JumpIsChecked'
  BY DEF TypeOK, LoopState, StatusIsChecked, JumpIsChecked, IsValid, CheckWait,
         CheckUpgrade
<1>4. AckedUpgradeIsDurable'
  BY DEF AckedUpgradeIsDurable, UpgradePending, RequestPending, Intact
<1>5. QED
  BY <1>1, <1>2, <1>3, <1>4

LEMMA StepWaitingTimer == IndInv /\ WaitingTimer => IndInv'
<1> SUFFICES ASSUME IndInv, WaitingTimer PROVE IndInv'
  OBVIOUS
<1> USE BootAssumption DEF IndInv, WaitingTimer, nvVars
<1>1. TypeOK'
  <2>1. m_timeout.dur \in 0..BootTimeMax \cup {UpgradeTime}
    BY DEF TypeOK
  <2>2. m_timeout' \in [dur : 0..BootTimeMax \cup {UpgradeTime},
                        expired : BOOLEAN]
    BY <2>1, TimerType DEF TypeOK
  <2>3. m_retry' \in 0..MaxRetry /\ power' \in {"boot", "app", "reset"}
    BY DEF TypeOK, RetryBound
  <2>4. m_state' \in States /\ loop' \in 0..CheckUpgrade
    BY DEF TypeOK, States, CheckUpgrade
  <2>5. QED
    BY <2>2, <2>3, <2>4 DEF TypeOK
<1>2. LoopState' /\ RequestPending' /\ UpgradePending' /\ ActiveSet'
      /\ RetryBound' /\ ActiveInterfaceSet'
  BY DEF TypeOK, LoopState, RequestPending, UpgradePending, ActiveSet,
         RetryBound, ActiveInterfaceSet, CheckWait, CheckUpgrade, Interfaces
<1>3. StatusIsChecked' /\ JumpIsChecked'
  BY DEF TypeOK, LoopState, StatusIsChecked, JumpIsChecked, IsValid, CheckWait,
         CheckUpgrade
<1>4. AckedUpgradeIsDurable'
  BY DEF AckedUpgradeIsDurable, UpgradePending, RequestPending, Intact
<1>5. QED
  BY <1>1, <1>2, <1>3, <1>4

LEMMA StepUpgradingTimer == IndInv /\ UpgradingTimer => IndInv'
<1> SUFFICES ASSUME IndInv, UpgradingTimer PROVE IndInv'
  OBVIOUS
<1> USE BootAssumption DEF IndInv, UpgradingTimer, nvVars, envVars
<1>1. TypeOK'
  BY DEF TypeOK, States, CheckWait, CheckUpgrade
<1>2. LoopState' /\ RequestPending' /\ UpgradePending' /\ ActiveSet'
      /\ RetryBound' /\ ActiveInterfaceSet'
  BY DEF TypeOK, LoopState, RequestPending, UpgradePending, ActiveSet,
         RetryBound, ActiveInterfaceSet, CheckWait, CheckUpgrade, Interfaces
<1>3. StatusIsChecked' /\ JumpIsChecked'
  BY DEF TypeOK, LoopState, StatusIsChecked, JumpIsChecked, IsValid, CheckWait,
         CheckUpgrade
<1>4. AckedUpgradeIsDurable'
  BY DEF AckedUpgradeIsDurable, UpgradePending, RequestPending, Intact
<1>5. QED
  BY <1>1, <1>2, <1>3, <1>4

LEMMA StepFinish == IndInv /\ ProcessFinish => IndInv'
<1> SUFFICES ASSUME IndInv, ProcessFinish PROVE IndInv'
  OBVIOUS
<1> USE BootAssumption DEF IndInv, ProcessFinish, ramVars, nvVars
<1>1. TypeOK'
  BY DEF TypeOK, States
<1>2. LoopState' /\ RequestPending' /\ UpgradePending' /\ ActiveSet'
      /\ RetryBound' /\ ActiveInterfaceSet'
  BY DEF TypeOK, LoopState, RequestPending, UpgradePending, ActiveSet,
         RetryBound, ActiveInterfaceSet, CheckWait, CheckUpgrade, Interfaces
<1>3. StatusIsChecked' /\ JumpIsChecked'
  BY DEF TypeOK, LoopState, StatusIsChecked, JumpIsChecked, IsValid, CheckWait,
         CheckUpgrade
<1>4. AckedUpgradeIsDurable'
  BY DEF AckedUpgradeIsDurable, UpgradePending, RequestPending, Intact
<1>5. QED
  BY <1>1, <1>2, <1>3, <1>4

LEMMA StepFailure == IndInv /\ ProcessFailure => IndInv'
<1> SUFFICES ASSUME IndInv, ProcessFailure PROVE IndInv'
  OBVIOUS
<1> USE BootAssumption DEF IndInv, ProcessFailure, ramVars, nvVars
<1>1. TypeOK'
  BY DEF TypeOK, States
<1>2. LoopState' /\ RequestPending' /\ UpgradePending' /\ ActiveSet'
      /\ RetryBound' /\ ActiveInterfaceSet'
  BY DEF TypeOK, LoopState, RequestPending, UpgradePending, ActiveSet,
         RetryBound, ActiveInterfaceSet, CheckWait, CheckUpgrade, Interfaces
<1>3. StatusIsChecked' /\ JumpIsChecked'
  BY DEF TypeOK, LoopState, StatusIsChecked, JumpIsChecked, IsValid, CheckWait,
         CheckUpgrade
<1>4. AckedUpgradeIsDurable'
  BY DEF AckedUpgradeIsDurable, UpgradePending, RequestPending, Intact
<1>5. QED
  BY <1>1, <1>2, <1>3, <1>4

LEMMA StepTimerExpires == IndInv /\ TimerExpires => IndInv'
<1> SUFFICES ASSUME IndInv, TimerExpires PROVE IndInv'
  OBVIOUS
<1> USE BootAssumption DEF IndInv, TimerExpires, nvVars, envVars
<1>1. TypeOK'
  BY DEF TypeOK, States
<1>2. LoopState' /\ RequestPending' /\ UpgradePending' /\ ActiveSet'
      /\ RetryBound' /\ ActiveInterfaceSet'
  BY DEF TypeOK, LoopState, RequestPending, UpgradePending, ActiveSet,
         RetryBound, ActiveInterfaceSet, CheckWait, CheckUpgrade, Interfaces
<1>3. StatusIsChecked' /\ JumpIsChecked'
  BY DEF TypeOK, LoopState, StatusIsChecked, JumpIsChecked, IsValid, CheckWait,
         CheckUpgrade
<1>4. AckedUpgradeIsDurable'
  BY DEF AckedUpgradeIsDurable, UpgradePending, RequestPending, Intact
<1>5. QED
  BY <1>1, <1>2, <1>3, <1>4

LEMMA StepRestart == IndInv /\ Restart => IndInv'
<1> SUFFICES ASSUME IndInv, Restart PROVE IndInv'
  OBVIOUS
<1> USE BootAssumption DEF IndInv, Restart, FreshRam
<1>1. TypeOK'
  <2>1. m_timeout' \in [dur : 0..BootTimeMax \cup {UpgradeTime},
                        expired : BOOLEAN]
    BY TimerType DEF BootTimeMax
  <2>2. flag' \in BOOLEAN /\ bootTime' \in Nat
    BY DEF TypeOK
  <2>3. /\ m_state' \in States /\ loop' \in 0..CheckUpgrade
        /\ m_retry' \in 0..MaxRetry /\ m_status' \in {"VALID", "INVALID"}
        /\ m_enable' \in [Interfaces -> BOOLEAN]
        /\ m_boot_if_active' \in 0..NumIf
    BY DEF States, CheckUpgrade
  <2>4. QED
    BY <2>1, <2>2, <2>3, SignType DEF TypeOK
<1>2. LoopState' /\ RequestPending' /\ UpgradePending' /\ ActiveSet'
      /\ RetryBound' /\ ActiveInterfaceSet'
  BY DEF TypeOK, LoopState, RequestPending, UpgradePending, ActiveSet,
         RetryBound, ActiveInterfaceSet, CheckWait, CheckUpgrade, Interfaces
<1>3. StatusIsChecked' /\ JumpIsChecked'
  BY DEF TypeOK, LoopState, StatusIsChecked, JumpIsChecked, IsValid, CheckWait,
         CheckUpgrade
<1>4. AckedUpgradeIsDurable'
  BY DEF AckedUpgradeIsDurable, UpgradePending, RequestPending, Intact
<1>5. QED
  BY <1>1, <1>2, <1>3, <1>4

LEMMA StepPowerLoss == IndInv /\ PowerLoss => IndInv'
<1> SUFFICES ASSUME IndInv, PowerLoss PROVE IndInv'
  OBVIOUS
<1> USE BootAssumption DEF IndInv, PowerLoss, ramVars, nvVars
<1>1. TypeOK'
  BY DEF TypeOK, States
<1>2. LoopState' /\ RequestPending' /\ UpgradePending' /\ ActiveSet'
      /\ RetryBound' /\ ActiveInterfaceSet'
  BY DEF TypeOK, LoopState, RequestPending, UpgradePending, ActiveSet,
         RetryBound, ActiveInterfaceSet, CheckWait, CheckUpgrade, Interfaces
<1>3. StatusIsChecked' /\ JumpIsChecked'
  BY DEF TypeOK, LoopState, StatusIsChecked, JumpIsChecked, IsValid, CheckWait,
         CheckUpgrade
<1>4. AckedUpgradeIsDurable'
  BY DEF AckedUpgradeIsDurable, UpgradePending, RequestPending, Intact
<1>5. QED
  BY <1>1, <1>2, <1>3, <1>4

LEMMA StepLossPreparing == IndInv /\ PowerLossInPreparing => IndInv'
<1> SUFFICES ASSUME IndInv, PowerLossInPreparing PROVE IndInv'
  OBVIOUS
<1> USE BootAssumption DEF IndInv, PowerLossInPreparing, ramVars
<1>1. TypeOK'
  BY PartitionType
  DEF TypeOK, States
<1>2. LoopState' /\ RequestPending' /\ UpgradePending' /\ ActiveSet'
      /\ RetryBound' /\ ActiveInterfaceSet'
  BY DEF TypeOK, LoopState, RequestPending, UpgradePending, ActiveSet,
         RetryBound, ActiveInterfaceSet, CheckWait, CheckUpgrade, Interfaces
<1>3. StatusIsChecked' /\ JumpIsChecked'
  BY DEF TypeOK, LoopState, StatusIsChecked, JumpIsChecked, IsValid, CheckWait,
         CheckUpgrade
<1>4. AckedUpgradeIsDurable'
  BY DEF AckedUpgradeIsDurable, UpgradePending, RequestPending, Intact
<1>5. QED
  BY <1>1, <1>2, <1>3, <1>4

LEMMA StepLossInit == IndInv /\ PowerLossInInit => IndInv'
<1> SUFFICES ASSUME IndInv, PowerLossInInit PROVE IndInv'
  OBVIOUS
<1> USE BootAssumption DEF IndInv, PowerLossInInit, ramVars
<1>1. TypeOK'
  BY PartitionType
  DEF TypeOK, States
<1>2. LoopState' /\ RequestPending' /\ UpgradePending' /\ ActiveSet'
      /\ RetryBound' /\ ActiveInterfaceSet'
  BY DEF TypeOK, LoopState, RequestPending, UpgradePending, ActiveSet,
         RetryBound, ActiveInterfaceSet, CheckWait, CheckUpgrade, Interfaces
<1>3. StatusIsChecked' /\ JumpIsChecked'
  BY DEF TypeOK, LoopState, StatusIsChecked, JumpIsChecked, IsValid, CheckWait,
         CheckUpgrade
<1>4. AckedUpgradeIsDurable'
  BY AckedIsValid
  DEF AckedUpgradeIsDurable, UpgradePending, RequestPending, Intact
<1>5. QED
  BY <1>1, <1>2, <1>3, <1>4

LEMMA StepLossUpgrading == IndInv /\ PowerLossInUpgrading => IndInv'
<1> SUFFICES ASSUME IndInv, PowerLossInUpgrading PROVE IndInv'
  OBVIOUS
<1> USE BootAssumption DEF IndInv, PowerLossInUpgrading, ramVars
<1>1. TypeOK'
  <2>1. main' \in Partitions
    BY PartitionType DEF TypeOK, Cells
  <2>2. mainInfo' \in Signatures
    BY SignType DEF TypeOK
  <2>3. QED
    BY <2>1, <2>2 DEF TypeOK
<1>2. LoopState' /\ RequestPending' /\ UpgradePending' /\ ActiveSet'
      /\ RetryBound' /\ ActiveInterfaceSet'
  BY DEF TypeOK, LoopState, RequestPending, UpgradePending, ActiveSet,
         RetryBound, ActiveInterfaceSet, CheckWait, CheckUpgrade, Interfaces
<1>3. StatusIsChecked' /\ JumpIsChecked'
  BY DEF TypeOK, LoopState, StatusIsChecked, JumpIsChecked, IsValid, CheckWait,
         CheckUpgrade
<1>4. AckedUpgradeIsDurable'
  BY DEF AckedUpgradeIsDurable, UpgradePending, RequestPending, Intact
<1>5. QED
  BY <1>1, <1>2, <1>3, <1>4

LEMMA StepQuiet == IndInv /\ GoQuiet => IndInv'
<1> SUFFICES ASSUME IndInv, GoQuiet PROVE IndInv'
  OBVIOUS
<1> USE BootAssumption DEF IndInv, GoQuiet, ramVars, nvVars
<1>1. TypeOK'
  BY DEF TypeOK, States
<1>2. LoopState' /\ RequestPending' /\ UpgradePending' /\ ActiveSet'
      /\ RetryBound' /\ ActiveInterfaceSet'
  BY DEF TypeOK, LoopState, RequestPending, UpgradePending, ActiveSet,
         RetryBound, ActiveInterfaceSet, CheckWait, CheckUpgrade, Interfaces
<1>3. StatusIsChecked' /\ JumpIsChecked'
  BY DEF TypeOK, LoopState, StatusIsChecked, JumpIsChecked, IsValid, CheckWait,
         CheckUpgrade
<1>4. AckedUpgradeIsDurable'
  BY DEF AckedUpgradeIsDurable, UpgradePending, RequestPending, Intact
<1>5. QED
  BY <1>1, <1>2, <1>3, <1>4

-----------------------------------------------------------------------------
\* The handlers an interface may run while it is polled.


LEMMA ReplyType ==
  ASSUME NEW c \in {"REQUEST", "FW_INFO", "SEGMENT", "ABORT"},
         NEW r \in BOOLEAN, NEW v \in Images \cup {NoImage},
         Answer(c, r, v)
  PROVE  reply' \in Replies /\ reply'.cmd = c /\ reply'.ok = r
         /\ reply'.image = v
BY DEF Answer, Replies

\* A handler that runs outside an upgrade can only accept a request or fail
\* the loader, and touches neither the main partition nor its signature.
LEMMA OutsideUpgrade ==
  ASSUME NEW i \in Interfaces, InterfaceProcess(i), m_state # "UPGRADING"
  PROVE  /\ m_state' \in {m_state, "PREPARING", "FAILURE"}
         /\ UNCHANGED <<main, mainInfo, m_status, m_retry>>
<1> USE DEF nvVars
<1>1. CASE NoEvent
  BY <1>1 DEF NoEvent
<1>2. CASE RequestUpgrade(i)
  BY <1>2 DEF RequestUpgrade
<1>3. ASSUME NEW k \in Segments, NEW v \in Images, NewSegment(k, v)
      PROVE  /\ m_state' \in {m_state, "PREPARING", "FAILURE"}
             /\ UNCHANGED <<main, mainInfo, m_status, m_retry>>
  BY <1>3 DEF NewSegment
<1>4. ASSUME NEW v \in Images, FwInfo(v)
      PROVE  /\ m_state' \in {m_state, "PREPARING", "FAILURE"}
             /\ UNCHANGED <<main, mainInfo, m_status, m_retry>>
  BY <1>4 DEF FwInfo, FwInfoUnexpected, FwInfoInvalid, FwInfoValid
<1>5. CASE Abort
  BY <1>5 DEF Abort
<1>6. QED
  BY <1>1, <1>2, <1>3, <1>4, <1>5 DEF InterfaceProcess

\* Outside an upgrade no handler acknowledges a firmware; a disabled
\* interface changes nothing at all.
LEMMA OutsideUpgradeReply ==
  ASSUME NEW i \in Interfaces, InterfaceProcess(i), m_state # "UPGRADING"
  PROVE  /\ reply'.cmd = "FW_INFO" /\ reply'.ok => reply' = reply
         /\ ~m_enable[i] => UNCHANGED <<reply, m_enable, m_state>>
         /\ m_state' = "PREPARING" /\ m_state # "PREPARING"
              => /\ reply'.cmd = "REQUEST" /\ reply'.ok
                 /\ m_enable' = [j \in Interfaces |-> j = i]
         /\ m_state = "PREPARING" /\ m_enable' # m_enable
              => m_state' # "PREPARING"
<1> USE DEF Answer
<1>1. CASE NoEvent
  BY <1>1 DEF NoEvent
<1>2. CASE m_enable[i] /\ RequestUpgrade(i)
  BY <1>2 DEF RequestUpgrade
<1>3. CASE m_enable[i] /\ \E k \in Segments, v \in Images : NewSegment(k, v)
  BY <1>3 DEF NewSegment
<1>4. CASE m_enable[i] /\ \E v \in Images : FwInfo(v)
  BY <1>4 DEF FwInfo, FwInfoUnexpected, FwInfoInvalid, FwInfoValid
<1>5. CASE m_enable[i] /\ Abort
  BY <1>5 DEF Abort
<1>6. QED
  BY <1>1, <1>2, <1>3, <1>4, <1>5 DEF InterfaceProcess

LEMMA PollType ==
  ASSUME IndInv, NEW i \in Interfaces, InterfaceProcess(i),
         UNCHANGED <<flag, power, target, quiet>>,
         m_boot_if_active' \in 0..NumIf, loop' \in 0..CheckUpgrade
  PROVE  TypeOK'
<1> USE BootAssumption DEF IndInv, nvVars
<1>1. CASE NoEvent
  BY <1>1 DEF TypeOK, NoEvent
<1>2. CASE RequestUpgrade(i)
  <2>1. reply' \in Replies
    BY <1>2, ReplyType DEF RequestUpgrade
  <2>2. /\ m_state' \in States /\ m_enable' \in [Interfaces -> BOOLEAN]
        /\ UNCHANGED <<m_status, m_retry, m_timeout, m_new_firmware,
                       m_main_sign, m_sub_sign, nvVars>>
    BY <1>2 DEF TypeOK, RequestUpgrade, States
  <2>3. QED
    BY <2>1, <2>2 DEF TypeOK
<1>3. ASSUME NEW k \in Segments, NEW v \in Images, NewSegment(k, v)
      PROVE  TypeOK'
  <2>1. m_timeout' \in [dur : 0..BootTimeMax \cup {UpgradeTime},
                        expired : BOOLEAN]
    BY <1>3, TimerType DEF TypeOK, NewSegment
  <2>2. main' \in Partitions
    <3>1. /\ [main EXCEPT ![k] = v] \in Partitions
          /\ [main EXCEPT ![k] = "TORN"] \in Partitions
      BY PartitionType DEF TypeOK, Cells
    <3>2. QED
      BY <1>3, <3>1 DEF TypeOK, NewSegment
  <2>3. reply' \in Replies
    BY <1>3, ReplyType DEF NewSegment
  <2>4. QED
    BY <1>3, <2>1, <2>2, <2>3 DEF TypeOK, NewSegment
<1>4. ASSUME NEW v \in Images, FwInfo(v)
      PROVE  TypeOK'
  <2> PICK f \in UninitFirst :
        \/ FwInfoUnexpected(v)
        \/ FwInfoInvalid(v, [image |-> v, first |-> f])
        \/ FwInfoValid(v, [image |-> v, first |-> f])
    BY <1>4 DEF FwInfo
  <2> DEFINE sign == [image |-> v, first |-> f]
  <2>1. sign \in Signatures
    BY SignType
  <2>2. m_timeout' \in [dur : 0..BootTimeMax \cup {UpgradeTime},
                        expired : BOOLEAN]
    BY TimerType DEF TypeOK, FwInfoUnexpected, FwInfoInvalid, FwInfoValid
  <2>3. /\ m_new_firmware' \in Signatures /\ m_main_sign' \in Signatures
        /\ mainInfo' \in Signatures
    BY <2>1 DEF TypeOK, FwInfoUnexpected, FwInfoInvalid, FwInfoValid
  <2>4. reply' \in Replies /\ m_state' \in States
    BY ReplyType DEF FwInfoUnexpected, FwInfoInvalid, FwInfoValid, States
  <2>5. QED
    BY <1>4, <2>2, <2>3, <2>4 DEF TypeOK, FwInfo
<1>5. CASE Abort
  BY <1>5, ReplyType DEF TypeOK, Abort, States
<1>6. QED
  BY <1>1, <1>2, <1>3, <1>4, <1>5 DEF InterfaceProcess

LEMMA StepWaitingPoll ==
  ASSUME IndInv, NEW i \in Interfaces, WaitingPoll(i)
  PROVE  IndInv'
<1> USE BootAssumption DEF IndInv, WaitingPoll, WaitingPolled
<1>0. InterfaceProcess(i)
  OBVIOUS
<1>1. TypeOK'
  BY <1>0, PollType DEF TypeOK, CheckWait, CheckUpgrade, Interfaces
<1>2. m_state \in {"WAITING", "PREPARING", "FAILURE"}
      /\ m_state' \in {"WAITING", "PREPARING", "FAILURE"}
      /\ UNCHANGED <<main, mainInfo, m_status, m_retry>>
  <2>1. m_state \in {"WAITING", "PREPARING", "FAILURE"}
    BY DEF LoopState, Interfaces, CheckWait
  <2>2. QED
    BY <1>0, <2>1, OutsideUpgrade
<1>3. RequestPending'
  <2> SUFFICES ASSUME m_state' = "PREPARING"
               PROVE  /\ reply'.cmd = "REQUEST" /\ reply'.ok
                      /\ \A j \in Interfaces : j >= loop' => ~m_enable'[j]
    BY DEF RequestPending
  <2>1. \A j \in Interfaces : j >= loop' => j > i
    BY DEF Interfaces, CheckWait
  <2>2. CASE m_state = "PREPARING"
    <3>1. loop = i
      BY <2>2
    <3>2. ~m_enable[i]
      BY <2>2, <3>1 DEF RequestPending, Interfaces
    <3>3. UNCHANGED <<reply, m_enable>>
      BY <1>0, <1>2, <3>2, OutsideUpgradeReply
    <3>4. QED
      BY <2>1, <2>2, <3>1, <3>3 DEF RequestPending, Interfaces
  <2>3. CASE m_state # "PREPARING"
    <3>1. /\ reply'.cmd = "REQUEST" /\ reply'.ok
          /\ m_enable' = [j \in Interfaces |-> j = i]
      BY <1>0, <1>2, <2>3, OutsideUpgradeReply
    <3>2. ASSUME NEW j \in Interfaces, j # i PROVE ~m_enable'[j]
      BY <3>1, <3>2, Zenon
    <3>3. \A j \in Interfaces : j >= loop' => j # i
      BY <2>1 DEF Interfaces
    <3>4. QED
      BY <3>1, <3>2, <3>3
  <2>4. QED
    BY <2>2, <2>3
<1>4. AckedUpgradeIsDurable'
  BY <1>0, <1>2, OutsideUpgradeReply DEF AckedUpgradeIsDurable, Intact
<1>5. LoopState' /\ UpgradePending' /\ ActiveSet' /\ RetryBound'
      /\ ActiveInterfaceSet'
  BY <1>2 DEF LoopState, UpgradePending, ActiveSet, RetryBound,
     ActiveInterfaceSet, Interfaces, CheckWait, CheckUpgrade
<1>6. StatusIsChecked' /\ JumpIsChecked'
  BY <1>2 DEF StatusIsChecked, JumpIsChecked, IsValid, Interfaces, CheckWait,
     CheckUpgrade, LoopState
<1>7. QED
  BY <1>1, <1>3, <1>4, <1>5, <1>6

LEMMA StepUpgradingPoll == IndInv /\ UpgradingPoll => IndInv'
<1> SUFFICES ASSUME IndInv, UpgradingPoll PROVE IndInv'
  OBVIOUS
<1> USE BootAssumption DEF IndInv, UpgradingPoll, UpgradingPolled
<1>0. m_boot_if_active \in Interfaces /\ InterfaceProcess(m_boot_if_active)
  BY DEF TypeOK, ActiveInterfaceSet, Interfaces
<1>1. TypeOK'
  BY <1>0, PollType DEF TypeOK, CheckUpgrade, CheckWait, Interfaces
<1>2. m_state' \in {"UPGRADING", "FINISH", "FAILURE"} /\ UNCHANGED m_retry
  BY <1>0 DEF InterfaceProcess, NoEvent, RequestUpgrade, NewSegment, FwInfo,
     FwInfoUnexpected, FwInfoInvalid, FwInfoValid, Abort, nvVars
<1>3. /\ m_state' = "FINISH" => IsValid(main, mainInfo)'
      /\ reply'.cmd = "FW_INFO" /\ reply'.ok
           => /\ m_state' = "FINISH"
              /\ mainInfo'.image = reply'.image
              /\ mainInfo'.image \in Images
  BY <1>0 DEF InterfaceProcess, NoEvent, RequestUpgrade, NewSegment, FwInfo,
     FwInfoUnexpected, FwInfoInvalid, FwInfoValid, Abort, nvVars, Answer,
     UpgradePending, IsValid
<1>4. QED
  BY <1>1, <1>2, <1>3 DEF LoopState, StatusIsChecked, JumpIsChecked,
     RequestPending, UpgradePending, ActiveSet, RetryBound,
     ActiveInterfaceSet, AckedUpgradeIsDurable, IsValid, Intact, CheckWait,
     CheckUpgrade

LEMMA StepIndInv == IndInv /\ [Next]_vars => IndInv'
<1> SUFFICES ASSUME IndInv, [Next]_vars PROVE IndInv'
  OBVIOUS
<1>1. CASE Next
  BY <1>1, StepInit, StepPreparing, StepWaitingPoll, StepWaitingTimer,
     StepUpgradingPoll, StepUpgradingTimer, StepFinish, StepFailure,
     StepTimerExpires, StepRestart, StepPowerLoss, StepLossPreparing,
     StepLossInit, StepLossUpgrading, StepQuiet
  DEF Next, Process
<1>2. CASE UNCHANGED vars
  BY <1>2 DEF vars, ramVars, nvVars, envVars, IndInv, TypeOK, LoopState,
     StatusIsChecked, JumpIsChecked, RequestPending, UpgradePending,
     ActiveSet, RetryBound, ActiveInterfaceSet, AckedUpgradeIsDurable,
     IsValid, Intact
<1>3. QED
  BY <1>1, <1>2

\* The strengthening is an invariant of the loader.
THEOREM IndInvHolds == Spec => []IndInv
<1>1. QED
  BY InitIndInv, StepIndInv, PTL DEF Spec

\* Type correctness, for every value of the constants.
THEOREM TypeCorrect == Spec => []TypeOK
<1>1. IndInv => TypeOK
  BY DEF IndInv
<1>2. QED
  BY <1>1, IndInvHolds, PTL

\* The loader hands over only to an application whose CRC it has checked
\* (sm_bootloader_init, handle_finish_download), whatever masters send and
\* whenever power fails.
THEOREM JumpSafety == Spec => []JumpOnlyToIntactApp
<1>1. IndInv => JumpOnlyToIntactApp
  BY DEF IndInv, JumpIsChecked, JumpOnlyToIntactApp, IsValid, Intact
<1>2. QED
  BY <1>1, IndInvHolds, PTL

\* A firmware acknowledged to its master survives resets and power losses.
THEOREM AckSafety == Spec => []AckedUpgradeIsDurable
<1>1. IndInv => AckedUpgradeIsDurable
  BY DEF IndInv
<1>2. QED
  BY <1>1, IndInvHolds, PTL

\* m_boot_if_active is set wherever sm_bootloader_process dereferences it.
THEOREM ActiveSafety == Spec => []ActiveInterfaceSet
<1>1. IndInv => ActiveInterfaceSet
  BY DEF IndInv
<1>2. QED
  BY <1>1, IndInvHolds, PTL

\* An intact application is erased or overwritten only in an upgrade that an
\* interface acknowledged.
THEOREM EraseSafety == Spec => EraseNeedsRequest
<1> DEFINE Allowed ==
      Intact /\ main' # main
        => \/ m_state = "UPGRADING"
           \/ m_state = "PREPARING" /\ reply.cmd = "REQUEST" /\ reply.ok
<1>1. IndInv /\ [Next]_vars => [Allowed]_vars
  <2> SUFFICES ASSUME IndInv, Next, Intact, main' # main,
                      m_state # "UPGRADING"
               PROVE  m_state = "PREPARING" /\ reply.cmd = "REQUEST"
                      /\ reply.ok
    OBVIOUS
  <2>1. IsValid(main, mainInfo)
    BY IntactIsValid
  <2>2. m_state = "PREPARING"
    <3>1. ASSUME NEW i \in Interfaces, WaitingPoll(i) PROVE FALSE
      BY <3>1, OutsideUpgrade DEF WaitingPoll, WaitingPolled
    <3>2. ~UpgradingPoll
      BY DEF UpgradingPoll, UpgradingPolled
    <3>3. QED
      BY <2>1, <3>1, <3>2 DEF Next, Process, ProcessInit, InitFlagSet,
         InitMainValid, InitFormatSub, InitRollback, ProcessPreparing,
         WaitingTimer, UpgradingTimer, ProcessFinish, ProcessFailure,
         TimerExpires, Restart, PowerLoss, PowerLossInPreparing,
         PowerLossInInit, PowerLossInUpgrading, GoQuiet, nvVars
  <2>3. QED
    BY <2>2 DEF IndInv, RequestPending
<1>2. QED
  BY <1>1, IndInvHolds, PTL DEF Spec, EraseNeedsRequest
=============================================================================
