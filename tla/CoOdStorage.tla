---------------------------- MODULE CoOdStorage ----------------------------
(***************************************************************************)
(* The parameters a CANopen node keeps in flash (CO_OD_storage.c with       *)
(* CO_OD_sign.c and CO_FLASH.c): two sections and a signature that holds the *)
(* CRC of each and a command for each.  A start (CO_OD_STORAGE_init) loads   *)
(* the sections the signature vouches for, and the main application writes   *)
(* the firmware's defaults over the rest; the loader writes nothing.  A flash *)
(* write erases first, and power may fail at any point.                      *)
(*                                                                          *)
(* The application's own calls are not in the repository: it is taken to use *)
(* the public functions as the start does, a section before the signature.    *)
(* A CRC is the content it was computed from.  The boot setting at the head of *)
(* the application section, which these functions read but never write, and   *)
(* the version number, which nothing compares in this build, are left out.    *)
(***************************************************************************)
EXTENDS Naturals

CONSTANTS Values,       \* the whole contents each section may have
          Default,      \* the firmware's own contents of each section
          Torn, NoCrc,  \* an erased or half-written section; and signature
          None,
          MaxCalls,     \* bound on what the application asks for
          MaxTrouble    \* bound on power cuts and writes that fail

Section == {"comm", "app"}

\* A command is the bits it has of the two a section's takes in func: NO_ACTION
\* has none, and erased flash, 0xFF, has both.
Command == SUBSET {"STORE_PARA", "RESTORE_PARA"}
NO_ACTION == {}
ErasedCommand == {"STORE_PARA", "RESTORE_PARA"}

ASSUME StorageAssumption ==
  /\ Default \in [Section -> Values["comm"] \cup Values["app"]]
  /\ \A s \in Section : Default[s] \in Values[s] /\ Torn \notin Values[s]
  /\ \A s \in Section : NoCrc \notin Values[s] /\ None \notin Values[s]
  /\ NoCrc # Torn /\ None \notin Section
  /\ MaxCalls \in Nat /\ MaxTrouble \in Nat

VARIABLES flash,     \* the sections and the signature in flash
          sign,      \* p_this->sign, the signature in RAM
          temp,      \* comm_para and app_para, the sections in RAM
          op,        \* the object dictionary's operating data
          phase,     \* how far the start is, "up", "off" or in while(1)
          main,      \* is_main_app of this start
          valid,     \* sign_is_valid
          outdated,  \* sign_in_flash_outdated
          failed,    \* sum_err
          writing,   \* what is being written, "crc" between the two writes
          storing,   \* the section the application stores, or None
          promised,  \* history: what the next start has to come up with
          calls, troubles

storage == <<flash, sign, temp, op, phase, main, valid, outdated, failed,
             writing, storing, promised, calls, troubles>>

NoPromise == [s \in Section |-> None]
NoCommand == [s \in Section |-> NO_ACTION]

\* The signature as erased flash reads.
NoSign == [func |-> [s \in Section |-> ErasedCommand], crc |-> [s \in Section |-> NoCrc]]

StorageTypeOK ==
  /\ flash.comm \in Values["comm"] \cup {Torn} /\ flash.app \in Values["app"] \cup {Torn}
  /\ \A g \in {sign, flash.sign} :
       /\ g.func \in [Section -> Command]
       /\ \A s \in Section : g.crc[s] \in Values[s] \cup {NoCrc}
  /\ \A s \in Section : /\ temp[s] \in Values[s] \cup {Torn}
                        /\ op[s] \in Values[s] \cup {Torn, None}
                        /\ promised[s] \in Values[s] \cup {None}
  /\ phase \in {"off", "comm", "app", "sign", "up", "stuck"}
  /\ {main, valid, outdated, failed} \subseteq BOOLEAN
  /\ writing \in Section \cup {"none", "crc", "sign"}
  /\ storing \in Section \cup {None}
  /\ calls \in 0..MaxCalls /\ troubles \in 0..MaxTrouble

\* co_check_crc16_from_data_in_flash_is_valid, of the signature in flash.
Vouches(f) == \A s \in Section : f.sign.crc[s] = f[s]

\* A new board has blank flash; a used one was stored or reset to defaults; on
\* one that a loader started first the application may have stored the defaults
\* it found in RAM, and left the command that erased flash has.
StorageInit ==
  /\ \/ flash = [comm |-> Torn, app |-> Torn, sign |-> NoSign]
     \/ \E c \in Values["comm"], a \in Values["app"] :
          flash = [comm |-> c, app |-> a,
                   sign |-> [func |-> NoCommand, crc |-> [comm |-> c, app |-> a]]]
     \/ flash = [comm |-> Default["comm"], app |-> Default["app"],
                 sign |-> [func |-> NoSign.func, crc |-> Default]]
  /\ sign = NoSign /\ temp = Default /\ op = NoPromise
  /\ phase = "off" /\ main = FALSE /\ valid = FALSE /\ outdated = FALSE
  /\ failed = FALSE /\ writing = "none" /\ storing = None
  /\ promised = IF Vouches(flash) THEN [s \in Section |-> flash[s]] ELSE NoPromise
  /\ calls = 0 /\ troubles = 0

-----------------------------------------------------------------------------
\* The start.

\* Mutation: the signature is believed for one section alone.
MutSignIsValid(f) == f.sign.crc["comm"] = f["comm"]

SignIsValid(f) == Vouches(f)

\* CO_OD_STORAGE_init up to co_process_when_reset: RAM has the firmware's
\* defaults, the signature comes from flash.
PowerOn(m) ==
  /\ phase = "off"
  /\ phase' = "comm" /\ main' = m
  /\ temp' = Default /\ op' = NoPromise
  /\ sign' = flash.sign
  /\ valid' = SignIsValid(flash)
  /\ outdated' = FALSE /\ failed' = FALSE
  /\ UNCHANGED <<flash, writing, storing, promised, calls, troubles>>

AfterSection(s) == IF s = "comm" THEN "app" ELSE "sign"

\* co_process_when_reset takes the section as the flash has it ..
Loads(s) == valid /\ (sign.func[s] = NO_ACTION \/ ~main)

\* .. or writes the defaults over it, if the bit for that is among the command's,
\* as it is among those of a command never written; with STORE_PARA alone it
\* does neither.
Restores(s) == main /\ (valid => "RESTORE_PARA" \in sign.func[s])

LoadSection(s) ==
  /\ phase = s /\ writing = "none" /\ Loads(s)
  /\ temp' = [temp EXCEPT ![s] = flash[s]]
  /\ phase' = AfterSection(s)
  /\ UNCHANGED <<flash, sign, op, main, valid, outdated, failed, writing, storing,
                 promised, calls, troubles>>

SkipSection(s) ==
  /\ phase = s /\ writing = "none" /\ ~Loads(s) /\ ~Restores(s)
  /\ phase' = AfterSection(s)
  /\ UNCHANGED <<flash, sign, temp, op, main, valid, outdated, failed, writing,
                 storing, promised, calls, troubles>>

\* The first half of CO_FLASH_erase_and_write_to_flash: after it the flash has
\* neither the old content nor the new.
Erase(t) ==
  /\ writing' = t
  /\ flash' = [flash EXCEPT ![t] = IF t = "sign" THEN NoSign ELSE Torn]

RestoreSection(s) ==
  /\ phase = s /\ writing = "none" /\ ~Loads(s) /\ Restores(s)
  /\ Erase(s)
  /\ outdated' = TRUE
  /\ UNCHANGED <<sign, temp, op, phase, main, valid, failed, storing, promised, calls,
                 troubles>>

\* Mutation: the CRCs of the new signature are those of the old one.
MutRenewed == [sign EXCEPT !.func = NoCommand]

\* The signature of what RAM has now, no command pending.
Renewed == [sign EXCEPT !.func = NoCommand, !.crc = temp]

\* co_copy_temp_data_to_operating_data, the end of the start; its parameters and
\* local variables are gone.
Copy == /\ op' = temp /\ phase' = "up"
        /\ main' = FALSE /\ valid' = FALSE /\ outdated' = FALSE

\* A write that failed stops the start in while(1); else the signature is
\* saved if a section was.
SignStage ==
  /\ phase = "sign" /\ writing = "none"
  /\ \/ failed /\ phase' = "stuck"
        /\ UNCHANGED <<flash, sign, op, writing, main, valid, outdated>>
     \/ ~failed /\ outdated /\ sign' = Renewed /\ Erase("sign")
        /\ UNCHANGED <<op, phase, main, valid, outdated>>
     \/ ~failed /\ ~outdated /\ Copy /\ UNCHANGED <<flash, sign, writing>>
  /\ UNCHANGED <<temp, failed, storing, promised, calls, troubles>>

-----------------------------------------------------------------------------
\* The application, in its one thread.

Quiet == phase = "up" /\ writing = "none"

\* A parameter changes, say by an SDO download.
SetPara(s) ==
  /\ Quiet /\ calls < MaxCalls
  /\ \E v \in Values[s] \ {temp[s]} :
       temp' = [temp EXCEPT ![s] = v] /\ op' = [op EXCEPT ![s] = v]
  /\ calls' = calls + 1
  /\ UNCHANGED <<flash, sign, phase, main, valid, outdated, failed, writing, storing,
                 promised, troubles>>

\* CO_OD_STORAGE_save_comm_para_to_flash or ..save_app_para..; ..
Store(s) ==
  /\ Quiet /\ calls < MaxCalls
  /\ Erase(s) /\ storing' = s
  /\ calls' = calls + 1
  /\ UNCHANGED <<sign, temp, op, phase, main, valid, outdated, failed, promised,
                 troubles>>

\* .. then CO_OD_STORAGE_update_crc16_comm/app_from_data_in_ram and
\* CO_OD_STORAGE_save_sign_to_flash.
StoreSign ==
  /\ phase = "up" /\ writing = "crc"
  /\ sign' = [sign EXCEPT !.crc[storing] = temp[storing]]
  /\ Erase("sign")
  /\ UNCHANGED <<temp, op, phase, main, valid, outdated, failed, storing, promised,
                 calls, troubles>>

\* Mutation: a command for one section wipes the other's.
MutSetFunc(g, s, c) == [g EXCEPT !.func = [x \in Section |-> IF x = s THEN c ELSE NO_ACTION]]

\* CO_OD_SIGN_set_func.
SetFunc(g, s, c) == [g EXCEPT !.func[s] = c]

\* A command the header names, for the next start: set_func and
\* save_sign_to_flash.
Order(s, c) ==
  /\ Quiet /\ calls < MaxCalls /\ c # ErasedCommand /\ sign.func[s] # c
  /\ sign' = SetFunc(sign, s, c)
  /\ Erase("sign") /\ storing' = None
  /\ promised' = [promised EXCEPT ![s] =
                    IF c = {"RESTORE_PARA"} /\ Vouches(flash) THEN Default[s] ELSE None]
  /\ calls' = calls + 1
  /\ UNCHANGED <<temp, op, phase, main, valid, outdated, failed, troubles>>

-----------------------------------------------------------------------------
\* The second half of CO_FLASH_erase_and_write_to_flash, and what follows it.

SectionWritten(s) ==
  /\ writing = s /\ s \in Section
  /\ flash' = [flash EXCEPT ![s] = temp[s]]
  /\ IF phase = "up" THEN writing' = "crc" /\ UNCHANGED phase
                     ELSE writing' = "none" /\ phase' = AfterSection(s)
  /\ UNCHANGED <<sign, temp, op, main, valid, outdated, failed, storing, promised,
                 calls, troubles>>

\* What comes of storing the section s: what was stored if its command is
\* NO_ACTION, the default if a bit says restore.
Owed(s) == CASE sign.func[s] = NO_ACTION           -> temp[s]
             [] "RESTORE_PARA" \in sign.func[s]    -> Default[s]
             [] OTHER                              -> None

\* What the next start has to come up with: nothing certain, unless the
\* signature vouches for both sections; after a start, what it came up with.
Promises(f) ==
  CASE ~Vouches(f)                     -> NoPromise
    [] Vouches(f) /\ phase = "sign"    -> temp
    [] Vouches(f) /\ phase # "sign" /\ storing \in Section ->
         [promised EXCEPT ![storing] = Owed(storing)]
    [] OTHER                           -> promised

SignWritten ==
  /\ writing = "sign"
  /\ flash' = [flash EXCEPT !.sign = sign]
  /\ promised' = Promises(flash')
  /\ IF phase = "up" THEN UNCHANGED <<phase, op, main, valid, outdated>> ELSE Copy
  /\ writing' = "none" /\ storing' = None
  /\ UNCHANGED <<sign, temp, failed, calls, troubles>>

\* What is in flash of a write that is cut short or fails: of a signature, whose
\* first byte is func and whose last are the CRCs, a part may be there.
LeftOver ==
  \/ UNCHANGED flash
  \/ writing = "sign" /\ flash' = [flash EXCEPT !.sign.func = sign.func]
  \/ writing = "sign" /\ flash' = [flash EXCEPT !.sign = [sign EXCEPT !.crc["app"] = NoCrc]]

\* The write or the comparison after it fails.
WriteFails ==
  /\ writing \in Section \cup {"sign"} /\ troubles < MaxTrouble
  /\ CASE phase = "up"      -> UNCHANGED <<phase, failed>>
       [] phase \in Section -> failed' = TRUE /\ phase' = AfterSection(phase)
       [] phase = "sign"    -> phase' = "stuck" /\ UNCHANGED failed
  /\ writing' = "none" /\ storing' = None
  /\ promised' = NoPromise
  /\ troubles' = troubles + 1
  /\ LeftOver
  /\ UNCHANGED <<sign, temp, op, main, valid, outdated, calls>>

\* What is in flash is all written and signed.
Settled == writing = "none" /\ ~outdated

\* The node is reset or loses power, and forgets its RAM; a cut between the
\* first write of a save and the last takes both sections' promises.
Down ==
  /\ phase' = "off" /\ writing' = "none" /\ storing' = None
  /\ promised' = IF Settled THEN promised ELSE NoPromise
  /\ temp' = Default /\ op' = NoPromise /\ sign' = NoSign
  /\ valid' = FALSE /\ outdated' = FALSE /\ failed' = FALSE /\ main' = FALSE
  /\ LeftOver
  /\ UNCHANGED calls

PowerCut == phase # "off" /\ troubles < MaxTrouble /\ troubles' = troubles + 1 /\ Down

\* An ordinary reset, of a node that is up or that hangs in while(1).
Reset == (Quiet \/ phase = "stuck") /\ UNCHANGED troubles /\ Down

Start == \/ \E m \in BOOLEAN : PowerOn(m)
         \/ \E s \in Section : LoadSection(s) \/ SkipSection(s) \/ RestoreSection(s)
         \/ SignStage

Write == (\E s \in Section : SectionWritten(s)) \/ SignWritten \/ StoreSign

Application == \E s \in Section : SetPara(s) \/ Store(s) \/ \E c \in Command : Order(s, c)

StorageNext == Start \/ Write \/ Application \/ WriteFails \/ PowerCut \/ Reset

StorageSpec == StorageInit /\ [][StorageNext]_storage

-----------------------------------------------------------------------------
ComesUp == phase # "up" /\ phase' = "up"

\* A node runs on whole parameters: what a cut or a failed write left in flash
\* never becomes operating data (co_check_sign_is_valid).
RunsOnWhole == phase = "up" => \A s \in Section : op[s] \in Values[s]

\* What was stored under a command of NO_ACTION, with the signature good and no
\* write cut short since, is what the next start comes up with, through resets,
\* commands for the other section and starts of the loader.  Where the restore
\* bit is set it is the default, whatever was stored: because it was ordered, or
\* because the board was new, a loader started it and the command in flash is
\* the erased one, which a store leaves as it is (co_process_when_reset tests
\* with &, CO_OD_storage.c:70 and :81).
StartKeepsPromises ==
  [][ ComesUp =>
        \A s \in Section : promised[s] # None /\ (main \/ sign'.func[s] = NO_ACTION)
                              => op'[s] = promised[s] ]_storage

\* A start of the main application over unusable parameters leaves usable
\* ones, the defaults, and no command; one of the loader leaves the flash as it
\* is.
StartHeals ==
  [][ /\ ComesUp /\ ~valid /\ main =>
           op' = Default /\ Vouches(flash') /\ flash'.sign.func = NoCommand
      /\ phase # "up" /\ ~main => flash' = flash ]_storage

\* A start comes up with what was promised, or with the defaults when there is
\* nothing usable (co_process_when_reset, co_od_init_from_flash).
StartIsSound == StartKeepsPromises /\ StartHeals
=============================================================================
