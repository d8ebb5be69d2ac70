------------------------- MODULE CoOdStorageProofs -------------------------
(***************************************************************************)
(* What CoOdStorage promises, proved for all contents the sections may have, *)
(* any number of calls and any number of cuts and failed writes.              *)
(***************************************************************************)
EXTENDS CoOdStorage, TLAPS

Content == Values["comm"] \cup Values["app"] \cup {Torn, NoCrc, None}
Signature == [func : [Section -> Command], crc : [Section -> Content]]

Shapes ==
  /\ flash \in [comm : Content, app : Content, sign : Signature]
  /\ sign \in Signature
  /\ temp \in [Section -> Content]
  /\ op \in [Section -> Content]
  /\ promised \in [Section -> Content]
  /\ main \in BOOLEAN /\ valid \in BOOLEAN /\ outdated \in BOOLEAN /\ failed \in BOOLEAN

\* Where a write may be under way.
Stages ==
  /\ phase \in {"off", "comm", "app", "sign", "up", "stuck"}
  /\ writing \in {"none", "crc", "comm", "app", "sign"}
  /\ storing \in {"comm", "app", None}
  /\ phase \in {"off", "stuck"} => writing = "none"
  /\ phase \in {"comm", "app", "sign"} => writing \in {"none", phase}
  /\ phase # "up" => storing = None
  /\ phase = "sign" /\ writing = "sign" => ~failed
  /\ phase = "up" => ~valid /\ ~outdated /\ ~failed
  /\ writing = "crc" => storing \in Section
  /\ phase = "up" /\ writing \in Section => storing = writing

\* A CRC is that of a whole section, or of none; a section is whole or torn.
Crcs == \A s \in Section : /\ flash[s] \in Values[s] \cup {Torn}
                           /\ sign.crc[s] \in Values[s] \cup {NoCrc}
                           /\ flash.sign.crc[s] \in Values[s] \cup {NoCrc}

Wholes == \A s \in Section : temp[s] \in Values[s] /\ (phase = "up" => op[s] \in Values[s])

\* A section that a start believes in and has not come to is whole.
Believed ==
  /\ phase = "comm" /\ writing = "none" /\ valid => flash.comm \in Values["comm"]
  /\ phase \in {"comm", "app"} /\ writing # "app" /\ valid => flash.app \in Values["app"]

WholeInv == Shapes /\ Stages /\ Crcs /\ Wholes /\ Believed

LEMMA SectionIs == Section = {"comm", "app"} /\ "sign" \notin Section
  BY DEF Section

\* An erased signature, and no command, have the shape of what they are.
LEMMA SignShapes ==
  /\ NoSign \in Signature /\ NoSign.crc = [s \in Section |-> NoCrc]
  /\ NoCommand \in [Section -> Command]
  /\ \A s \in Section : NoCommand[s] = NO_ACTION /\ NoSign.func[s] = ErasedCommand
  <1>1. NO_ACTION \in Command /\ ErasedCommand \in Command
    BY DEF NO_ACTION, ErasedCommand, Command
  <1> QED
    BY <1>1 DEF NoSign, NoCommand, Signature, Content

LEMMA WholeInit == StorageInit => WholeInv
  <1> SUFFICES ASSUME StorageInit PROVE WholeInv
    OBVIOUS
  <1> USE StorageAssumption
  <1>1. NoSign \in Signature /\ NoCommand \in [Section -> Command]
    BY SignShapes
  <1>2. flash \in [comm : Content, app : Content, sign : Signature]
    <2>1. CASE flash = [comm |-> Torn, app |-> Torn, sign |-> NoSign]
      BY <1>1, <2>1 DEF Content
    <2>2. CASE \E c \in Values["comm"], a \in Values["app"] :
                 flash = [comm |-> c, app |-> a,
                          sign |-> [func |-> NoCommand, crc |-> [comm |-> c, app |-> a]]]
      <3>1. PICK c \in Values["comm"], a \in Values["app"] :
                 flash = [comm |-> c, app |-> a,
                          sign |-> [func |-> NoCommand, crc |-> [comm |-> c, app |-> a]]]
        BY <2>2
      <3>2. [func |-> NoCommand, crc |-> [comm |-> c, app |-> a]] \in Signature
        BY <1>1 DEF Signature, Content, Section
      <3> QED
        BY <3>1, <3>2 DEF Content
    <2>3. CASE flash = [comm |-> Default["comm"], app |-> Default["app"],
                        sign |-> [func |-> NoSign.func, crc |-> Default]]
      <3>1. [func |-> NoSign.func, crc |-> Default] \in Signature
        BY <1>1 DEF Signature, Content
      <3> QED
        BY <2>3, <3>1 DEF Content, Section
    <2> QED
      BY <2>1, <2>2, <2>3 DEF StorageInit
  <1>5. NoPromise \in [Section -> Content] /\ Default \in [Section -> Content]
    BY DEF NoPromise, Content
  <1>6. [s \in Section |-> flash[s]] \in [Section -> Content]
    BY <1>2 DEF Section
  <1>7. Shapes
    BY <1>1, <1>2, <1>5, <1>6 DEF StorageInit, Shapes
  <1>3. Stages /\ Believed
    BY DEF StorageInit, Stages, Believed, Section
  <1>4. Crcs /\ Wholes
    BY DEF StorageInit, Crcs, Wholes, NoSign, Section
  <1> QED
    BY <1>7, <1>3, <1>4 DEF WholeInv

\* Erasing leaves the shape of the flash, and nothing of the part it erases.
LEMMA Erasing ==
  ASSUME Shapes, NEW x \in {"comm", "app", "sign"}, Erase(x)
  PROVE  /\ flash' \in [comm : Content, app : Content, sign : Signature]
         /\ writing' = x
         /\ x # "sign" => flash'.sign = flash.sign
         /\ x # "comm" => flash'.comm = flash.comm
         /\ x # "app" => flash'.app = flash.app
         /\ x = "sign" => flash'.sign = NoSign
         /\ x \in Section => flash'[x] = Torn
  <1>1. NoSign \in Signature /\ Torn \in Content
    BY SignShapes DEF Content
  <1> QED
    BY <1>1 DEF Erase, Shapes, Section

LEMMA WholePowerOn == ASSUME WholeInv, NEW m \in BOOLEAN, PowerOn(m) PROVE WholeInv'
  <1> USE StorageAssumption DEF PowerOn
  <1>1. Default \in [Section -> Content] /\ NoPromise \in [Section -> Content]
    BY DEF NoPromise, Content
  <1>2. SignIsValid(flash) \in BOOLEAN /\ flash.sign \in Signature
    BY DEF SignIsValid, Vouches, WholeInv, Shapes
  <1>3. Shapes'
    BY <1>1, <1>2 DEF WholeInv, Shapes
  <1>4. Stages' /\ Crcs' /\ Wholes'
    BY DEF WholeInv, Stages, Crcs, Wholes, Section
  <1>5. SignIsValid(flash) => \A s \in Section : flash[s] \in Values[s]
    BY DEF SignIsValid, Vouches, WholeInv, Shapes, Crcs, Content, Section
  <1>6. Believed'
    BY <1>5 DEF Believed, Section
  <1> QED
    BY <1>3, <1>4, <1>6 DEF WholeInv

LEMMA WholeLoad == ASSUME WholeInv, NEW s \in Section, LoadSection(s) \/ SkipSection(s)
                   PROVE WholeInv'
  <1> USE StorageAssumption
  <1>1. LoadSection(s) => flash[s] \in Values[s] /\ flash[s] \in Content
    BY DEF LoadSection, Loads, WholeInv, Believed, Shapes, Section
  <1>2. Shapes'
    BY <1>1 DEF LoadSection, SkipSection, WholeInv, Shapes, Section
  <1>3. Stages'
    BY DEF LoadSection, SkipSection, WholeInv, Stages, AfterSection, Section
  <1>4. Crcs' /\ Believed'
    BY DEF LoadSection, SkipSection, WholeInv, Crcs, Believed, AfterSection, Section
  <1>5. Wholes'
    BY <1>1 DEF LoadSection, SkipSection, WholeInv, Wholes, Shapes, Stages, AfterSection, Section
  <1> QED
    BY <1>2, <1>3, <1>4, <1>5 DEF WholeInv

LEMMA WholeRestore == ASSUME WholeInv, NEW s \in Section, RestoreSection(s) PROVE WholeInv'
  <1>1. /\ flash' \in [comm : Content, app : Content, sign : Signature]
        /\ writing' = s /\ flash'.sign = flash.sign /\ flash'[s] = Torn
        /\ s # "app" => flash'.app = flash.app
        /\ s # "comm" => flash'.comm = flash.comm
    BY Erasing, SectionIs DEF RestoreSection, WholeInv
  <1>2. Shapes' /\ Stages'
    BY <1>1 DEF RestoreSection, WholeInv, Shapes, Stages, Section
  <1>3. Crcs' /\ Wholes' /\ Believed'
    BY <1>1 DEF RestoreSection, WholeInv, Crcs, Wholes, Believed, Section
  <1> QED
    BY <1>2, <1>3 DEF WholeInv

LEMMA WholeSignStage == ASSUME WholeInv, SignStage PROVE WholeInv'
  <1> USE StorageAssumption
  <1>1. CASE phase = "sign" /\ writing = "none" /\ ~failed /\ outdated
    <2>1. /\ flash' \in [comm : Content, app : Content, sign : Signature]
          /\ writing' = "sign" /\ flash'.sign = NoSign
          /\ flash'.comm = flash.comm /\ flash'.app = flash.app
          /\ sign' = Renewed
          /\ UNCHANGED <<op, phase, main, valid, outdated, temp, failed, storing, promised>>
      BY <1>1, Erasing DEF SignStage, WholeInv
    <2>2. Renewed \in Signature /\ Renewed.crc = temp
      BY SignShapes DEF Renewed, Signature, WholeInv, Shapes
    <2>3. Shapes' /\ Stages' /\ Wholes' /\ Believed'
      BY <1>1, <2>1, <2>2 DEF WholeInv, Shapes, Stages, Wholes, Believed, Section
    <2>4. Crcs'
      BY <2>1, <2>2 DEF WholeInv, Wholes, Crcs, NoSign, Section
    <2> QED
      BY <2>3, <2>4 DEF WholeInv
  <1>2. CASE phase = "sign" /\ writing = "none" /\ ~(~failed /\ outdated)
    BY <1>2 DEF SignStage, Copy, WholeInv, Shapes, Stages, Crcs, Wholes, Believed, Section
  <1> QED
    BY <1>1, <1>2 DEF SignStage

LEMMA WholeApplication ==
  ASSUME WholeInv, NEW s \in Section,
         SetPara(s) \/ Store(s) \/ \E c \in Command : Order(s, c)
  PROVE  WholeInv'
  <1> USE StorageAssumption
  <1>1. CASE SetPara(s)
    <2>1. PICK v \in Values[s] : temp' = [temp EXCEPT ![s] = v] /\ op' = [op EXCEPT ![s] = v]
      BY <1>1 DEF SetPara
    <2>2. Shapes'
      BY <1>1, <2>1 DEF SetPara, WholeInv, Shapes, Content, Section
    <2>3. Wholes'
      BY <1>1, <2>1 DEF SetPara, WholeInv, Wholes, Shapes, Section
    <2>4. Stages' /\ Crcs' /\ Believed'
      BY <1>1 DEF SetPara, Quiet, WholeInv, Stages, Crcs, Believed, Section
    <2> QED
      BY <2>2, <2>3, <2>4 DEF WholeInv
  <1>2. CASE Store(s)
    <2>1. /\ flash' \in [comm : Content, app : Content, sign : Signature]
          /\ writing' = s /\ flash'.sign = flash.sign /\ flash'[s] = Torn
          /\ s # "app" => flash'.app = flash.app
          /\ s # "comm" => flash'.comm = flash.comm
      BY <1>2, Erasing, SectionIs DEF Store, WholeInv
    <2> QED
      BY <1>2, <2>1 DEF Store, Quiet, WholeInv, Shapes, Stages, Crcs, Wholes, Believed, Section
  <1>3. ASSUME NEW c \in Command, Order(s, c) PROVE WholeInv'
    <2>1. /\ flash' \in [comm : Content, app : Content, sign : Signature]
          /\ writing' = "sign" /\ flash'.sign = NoSign
          /\ flash'.comm = flash.comm /\ flash'.app = flash.app
      BY <1>3, Erasing DEF Order, WholeInv
    <2>2. SetFunc(sign, s, c) \in Signature /\ SetFunc(sign, s, c).crc = sign.crc
      BY DEF SetFunc, Signature, WholeInv, Shapes
    <2>3. promised' \in [Section -> Content]
      BY <1>3 DEF Order, WholeInv, Shapes, Content
    <2>4. Shapes' /\ Stages'
      BY <1>3, <2>1, <2>2, <2>3 DEF Order, Quiet, WholeInv, Shapes, Stages, Section
    <2>5. Crcs' /\ Wholes' /\ Believed'
      BY <1>3, <2>1, <2>2 DEF Order, Quiet, WholeInv, Crcs, Wholes, Believed, NoSign, Section
    <2> QED
      BY <2>4, <2>5 DEF WholeInv
  <1> QED
    BY <1>1, <1>2, <1>3

LEMMA WholeStoreSign == ASSUME WholeInv, StoreSign PROVE WholeInv'
  <1>1. /\ flash' \in [comm : Content, app : Content, sign : Signature]
        /\ writing' = "sign" /\ flash'.sign = NoSign
        /\ flash'.comm = flash.comm /\ flash'.app = flash.app
    BY Erasing DEF StoreSign, WholeInv
  <1>2. storing \in Section
    BY DEF StoreSign, WholeInv, Stages
  <1>3. /\ sign' \in Signature
        /\ \A s \in Section : sign'.crc[s] \in {sign.crc[s], temp[s]}
    BY <1>2 DEF StoreSign, WholeInv, Shapes, Signature
  <1>4. Shapes' /\ Stages' /\ Wholes' /\ Believed'
    BY <1>1, <1>3 DEF StoreSign, WholeInv, Shapes, Stages, Wholes, Believed, Section
  <1>5. Crcs'
    BY <1>1, <1>3 DEF WholeInv, Crcs, Wholes, NoSign, Section
  <1> QED
    BY <1>4, <1>5 DEF WholeInv

LEMMA WholeSectionWritten == ASSUME WholeInv, NEW s \in Section, SectionWritten(s)
                             PROVE  WholeInv'
  <1>1. /\ flash' \in [comm : Content, app : Content, sign : Signature]
        /\ flash'.sign = flash.sign /\ flash'[s] = temp[s]
        /\ \A x \in Section : x # s => flash'[x] = flash[x]
    BY DEF SectionWritten, WholeInv, Shapes, Section
  <1>2. Shapes' /\ Stages'
    BY <1>1 DEF SectionWritten, WholeInv, Shapes, Stages, AfterSection, Section
  <1>3. Crcs' /\ Wholes'
    BY <1>1 DEF SectionWritten, WholeInv, Crcs, Wholes, Stages, AfterSection, Section
  <1>4. Believed'
    BY <1>1 DEF SectionWritten, WholeInv, Wholes, Stages, Believed, AfterSection, Section
  <1> QED
    BY <1>2, <1>3, <1>4 DEF WholeInv

\* A promise is of a whole section's shape.
LEMMA PromiseShape == ASSUME WholeInv, NEW f PROVE Promises(f) \in [Section -> Content]
  <1>1. NoPromise \in [Section -> Content]
    BY DEF NoPromise, Content
  <1>2. \A s \in Section : Owed(s) \in Content
    BY StorageAssumption DEF Owed, WholeInv, Shapes, Content
  <1> QED
    BY <1>1, <1>2 DEF Promises, WholeInv, Shapes

LEMMA WholeSignWritten == ASSUME WholeInv, SignWritten PROVE WholeInv'
  <1>1. /\ flash' \in [comm : Content, app : Content, sign : Signature]
        /\ flash'.sign = sign /\ flash'.comm = flash.comm /\ flash'.app = flash.app
    BY DEF SignWritten, WholeInv, Shapes
  <1>2. promised' \in [Section -> Content]
    BY PromiseShape DEF SignWritten
  <1>3. phase \in {"up", "sign"}
    BY DEF SignWritten, WholeInv, Stages
  <1>4. CASE phase = "up"
    BY <1>1, <1>2, <1>4 DEF SignWritten, WholeInv, Shapes, Stages, Crcs, Wholes, Believed, Section
  <1>5. CASE phase = "sign"
    <2>1. /\ op' = temp /\ phase' = "up" /\ writing' = "none" /\ storing' = None
          /\ main' = FALSE /\ valid' = FALSE /\ outdated' = FALSE
          /\ UNCHANGED <<sign, temp, failed>>
      BY <1>5 DEF SignWritten, Copy
    <2>2. ~failed
      BY <1>5 DEF SignWritten, WholeInv, Stages
    <2> QED
      BY <1>1, <1>2, <2>1, <2>2 DEF WholeInv, Shapes, Stages, Crcs, Wholes, Believed, Section
  <1> QED
    BY <1>3, <1>4, <1>5

\* A write cut short leaves the sections as they are, and a signature's CRCs
\* whole or missing.
LEMMA Leaving ==
  ASSUME WholeInv, LeftOver
  PROVE  /\ flash' \in [comm : Content, app : Content, sign : Signature]
         /\ flash'.comm = flash.comm /\ flash'.app = flash.app
         /\ \A s \in Section : flash'.sign.crc[s] \in Values[s] \cup {NoCrc}
  <1>1. CASE UNCHANGED flash
    BY <1>1 DEF WholeInv, Shapes, Crcs
  <1>2. CASE flash' = [flash EXCEPT !.sign.func = sign.func]
    BY <1>2 DEF WholeInv, Shapes, Crcs, Signature
  <1>3. CASE flash' = [flash EXCEPT !.sign = [sign EXCEPT !.crc["app"] = NoCrc]]
    <2>1. [sign EXCEPT !.crc["app"] = NoCrc] \in Signature
      BY DEF WholeInv, Shapes, Signature, Content
    <2>2. \A s \in Section : [sign EXCEPT !.crc["app"] = NoCrc].crc[s] \in Values[s] \cup {NoCrc}
      BY DEF WholeInv, Shapes, Crcs, Signature
    <2> QED
      BY <1>3, <2>1, <2>2 DEF WholeInv, Shapes
  <1> QED
    BY <1>1, <1>2, <1>3 DEF LeftOver

LEMMA WholeTrouble == ASSUME WholeInv, WriteFails \/ Down PROVE WholeInv'
  <1> USE StorageAssumption
  <1>1. /\ NoPromise \in [Section -> Content] /\ Default \in [Section -> Content]
        /\ NoSign \in Signature
    BY SignShapes DEF NoPromise, Content
  <1>4. /\ flash' \in [comm : Content, app : Content, sign : Signature]
        /\ flash'.comm = flash.comm /\ flash'.app = flash.app
        /\ \A s \in Section : flash'.sign.crc[s] \in Values[s] \cup {NoCrc}
    BY Leaving DEF WriteFails, Down
  <1>2. CASE WriteFails
    <2>1. Shapes'
      BY <1>1, <1>2, <1>4 DEF WriteFails, WholeInv, Shapes, Stages, Section
    <2>2. Stages'
      BY <1>2, <1>4 DEF WriteFails, WholeInv, Stages, AfterSection, Section
    <2>3. Crcs' /\ Wholes'
      BY <1>2, <1>4 DEF WriteFails, WholeInv, Crcs, Wholes, Stages, AfterSection, Section
    <2>4. Believed'
      BY <1>2, <1>4 DEF WriteFails, WholeInv, Stages, Believed, AfterSection, Section
    <2> QED
      BY <2>1, <2>2, <2>3, <2>4 DEF WholeInv
  <1>3. CASE Down
    <2>1. Shapes'
      BY <1>1, <1>3, <1>4 DEF Down, WholeInv, Shapes
    <2>2. Stages' /\ Believed'
      BY <1>3, <1>4 DEF Down, WholeInv, Stages, Believed, Section
    <2>3. Crcs' /\ Wholes'
      BY <1>3, <1>4 DEF Down, WholeInv, Crcs, Wholes, NoSign, Section
    <2> QED
      BY <2>1, <2>2, <2>3 DEF WholeInv
  <1> QED
    BY <1>2, <1>3

LEMMA WholeNext == WholeInv /\ [StorageNext]_storage => WholeInv'
  <1> SUFFICES ASSUME WholeInv, [StorageNext]_storage PROVE WholeInv'
    OBVIOUS
  <1>1. CASE Start
    BY <1>1, WholePowerOn, WholeLoad, WholeRestore, WholeSignStage DEF Start
  <1>2. CASE Write
    BY <1>2, WholeSectionWritten, WholeSignWritten, WholeStoreSign DEF Write
  <1>3. CASE Application
    BY <1>3, WholeApplication DEF Application
  <1>4. CASE WriteFails \/ PowerCut \/ Reset
    BY <1>4, WholeTrouble DEF PowerCut, Reset
  <1>5. CASE UNCHANGED storage
    BY <1>5 DEF storage, WholeInv, Shapes, Stages, Crcs, Wholes, Believed
  <1> QED
    BY <1>1, <1>2, <1>3, <1>4, <1>5 DEF StorageNext

\* The node runs on whole parameters, whatever is cut short where
\* (CO_OD_STORAGE_init, co_process_when_reset).
THEOREM StorageRunsOnWhole == StorageSpec => []RunsOnWhole
  <1>1. WholeInv => RunsOnWhole
    BY DEF WholeInv, Wholes, RunsOnWhole
  <1> QED
    BY <1>1, WholeInit, WholeNext, PTL DEF StorageSpec

-----------------------------------------------------------------------------
(* What a start does with what was promised, and with unusable parameters.   *)

Starting == phase \in {"comm", "app", "sign"}

\* The start has not come to the section s yet, or is at it.
Ahead(s) == phase = "comm" \/ (phase = "app" /\ s = "app")
Behind(s) == Starting /\ ~Ahead(s)

\* The signature g and the promise about s agree on what the next start does.
Agreed(s, g) ==
  /\ g.func[s] = NO_ACTION => flash[s] = promised[s]
  /\ "RESTORE_PARA" \in g.func[s] => promised[s] = Default[s]
  /\ g.func[s] = NO_ACTION \/ "RESTORE_PARA" \in g.func[s]

\* With nothing half written, a promise is kept by what is in flash.
Settles(s) ==
  Settled => Vouches(flash) /\ (phase = "off" \/ sign = flash.sign) /\ Agreed(s, flash.sign)

\* While the application writes, by what RAM has, if the write ends well.
Saves(s) ==
  phase = "up" /\ writing # "none" /\ s # storing => Agreed(s, sign)

\* During a start, by what it will find, and then by what it has taken.
Takes(s) ==
  /\ Starting => valid
  /\ Ahead(s) => IF writing = s THEN promised[s] = Default[s] ELSE Agreed(s, sign)
  /\ Behind(s) /\ (main \/ sign.func[s] = NO_ACTION) => temp[s] = promised[s]

\* Where the start, or the application's write, is.
Progress ==
  /\ outdated => main /\ phase # "off"
  /\ \A s \in Section : Ahead(s) => temp[s] = Default[s]
  /\ phase = "up" /\ writing \in {"crc", "sign"} /\ storing \in Section =>
       flash[storing] = temp[storing]
  /\ phase \in Section /\ writing = phase => main /\ outdated
  /\ phase = "sign" /\ writing = "sign" => main /\ sign.func = NoCommand /\ sign.crc = temp

\* A start without a usable signature has the defaults, and puts them in flash.
Heals ==
  Starting /\ ~valid =>
    /\ temp = Default
    /\ main => \A s \in Section : Behind(s) => outdated /\ (failed \/ flash[s] = Default[s])

StartInv ==
  Progress /\ Heals
  /\ \A s \in Section : promised[s] # None => Settles(s) /\ Saves(s) /\ Takes(s)

-----------------------------------------------------------------------------
(* The start's invariant holds.                                              *)

LEMMA DefaultIs == Default \in [Section -> Content] /\ \A s \in Section : Default[s] \in Values[s]
  BY StorageAssumption DEF Content

LEMMA StartInit == StorageInit => StartInv
  <1> SUFFICES ASSUME StorageInit PROVE StartInv
    OBVIOUS
  <1> USE StorageAssumption
  <1>1. Progress /\ Heals
    BY DEF StorageInit, Progress, Heals, Starting, Ahead, Behind, Section
  <1>2. ASSUME NEW s \in Section, promised[s] # None
        PROVE  Settles(s) /\ Saves(s) /\ Takes(s)
    <2>1. Vouches(flash) /\ promised = [x \in Section |-> flash[x]] /\ phase = "off"
      BY <1>2 DEF StorageInit, NoPromise
    <2>2. \/ flash.sign.func[s] = NO_ACTION
          \/ flash[s] = Default[s] /\ flash.sign.func[s] = ErasedCommand
      <3>1. CASE flash = [comm |-> Torn, app |-> Torn, sign |-> NoSign]
        BY <2>1, <3>1 DEF Vouches, NoSign, Section
      <3> QED
        BY <3>1, SignShapes DEF StorageInit, Section
    <2>3. Agreed(s, flash.sign)
      BY <2>1, <2>2 DEF Agreed, NO_ACTION, ErasedCommand
    <2> QED
      BY <2>1, <2>3, <1>2 DEF Settles, Saves, Takes, Starting, Ahead, Behind
  <1> QED
    BY <1>1, <1>2 DEF StartInv

LEMMA StartPowerOn == ASSUME WholeInv, StartInv, NEW m \in BOOLEAN, PowerOn(m) PROVE StartInv'
  <1>1. Progress' /\ Heals'
    BY DEF PowerOn, WholeInv, Stages, Progress, Heals, Starting, Ahead, Behind, Section
  <1>2. ASSUME NEW s \in Section, promised'[s] # None
        PROVE  Settles(s)' /\ Saves(s)' /\ Takes(s)'
    <2>1. Settles(s) /\ Settled /\ writing = "none" /\ ~outdated' /\ promised[s] # None
      BY <1>2 DEF StartInv, PowerOn, WholeInv, Stages, Settled, Progress
    <2> QED
      BY <1>2, <2>1 DEF PowerOn, SignIsValid, Settles, Saves, Takes, Agreed, Settled, Vouches,
                  Starting, Ahead, Behind, Section
  <1> QED
    BY <1>1, <1>2 DEF StartInv

LEMMA StartLoad == ASSUME WholeInv, StartInv, NEW x \in Section, LoadSection(x)
                   PROVE  StartInv'
  <1>1. Progress'
    BY DEF StartInv, LoadSection, WholeInv, Shapes, Stages, Progress, AfterSection,
           Ahead, Section
  <1>2. Heals'
    BY DEF StartInv, LoadSection, Loads, Heals, Starting
  <1>3. ASSUME NEW s \in Section, promised'[s] # None
        PROVE  Settles(s)' /\ Saves(s)' /\ Takes(s)'
    <2>1. Settles(s) /\ Saves(s) /\ Takes(s) /\ writing = "none" /\ valid
      BY <1>3 DEF StartInv, LoadSection, Loads
    <2>2. Settles(s)' /\ Saves(s)'
      BY <2>1 DEF LoadSection, Settles, Saves, Agreed, Settled, AfterSection, Vouches, Section
    <2>3. Takes(s)'
      BY <2>1 DEF LoadSection, Loads, Takes, Agreed, AfterSection, Starting, Ahead, Behind,
                  WholeInv, Shapes, Section
    <2> QED
      BY <2>2, <2>3
  <1> QED
    BY <1>1, <1>2, <1>3 DEF StartInv

LEMMA StartSkip == ASSUME WholeInv, StartInv, NEW x \in Section, SkipSection(x)
                   PROVE  StartInv'
  <1>1. Progress'
    BY DEF StartInv, SkipSection, WholeInv, Shapes, Stages, Progress, AfterSection,
           Ahead, Section
  <1>2. Heals'
    BY DEF StartInv, SkipSection, Restores, Heals, AfterSection, Starting, Ahead, Behind, Section,
           WholeInv, Shapes
  <1>3. ASSUME NEW s \in Section, promised'[s] # None
        PROVE  Settles(s)' /\ Saves(s)' /\ Takes(s)'
    <2>1. Settles(s) /\ Saves(s) /\ Takes(s) /\ writing = "none" /\ promised[s] # None
      BY <1>3 DEF StartInv, SkipSection
    <2>2. Settles(s)' /\ Saves(s)'
      BY <2>1 DEF SkipSection, Settles, Saves, Agreed, Settled, AfterSection, Vouches, Section
    <2>3. Takes(s)'
      BY <2>1 DEF SkipSection, Loads, Restores, Takes, Agreed, AfterSection, Starting, Ahead, Behind,
                  WholeInv, Shapes, Section, Signature, Command
    <2> QED
      BY <2>2, <2>3
  <1> QED
    BY <1>1, <1>2, <1>3 DEF StartInv

LEMMA StartRestore == ASSUME WholeInv, StartInv, NEW x \in Section, RestoreSection(x)
                      PROVE  StartInv'
  <1>1. /\ flash' \in [comm : Content, app : Content, sign : Signature]
        /\ writing' = x /\ flash'.sign = flash.sign /\ flash'[x] = Torn
        /\ x # "app" => flash'.app = flash.app
        /\ x # "comm" => flash'.comm = flash.comm
    BY Erasing, SectionIs DEF RestoreSection, WholeInv
  <1>2. /\ main /\ outdated' /\ phase = x /\ writing = "none"
        /\ valid => "RESTORE_PARA" \in sign.func[x] /\ sign.func[x] # NO_ACTION
        /\ UNCHANGED <<sign, temp, op, phase, main, valid, failed, storing, promised>>
    BY DEF RestoreSection, Restores, NO_ACTION
  <1>3. Progress'
    BY <1>1, <1>2 DEF StartInv, Progress, Ahead, Section
  <1>4. Heals'
    BY <1>1, <1>2 DEF StartInv, Heals, Starting, Ahead, Behind, Section
  <1>5. ASSUME NEW s \in Section, promised'[s] # None
        PROVE  Settles(s)' /\ Saves(s)' /\ Takes(s)'
    <2>1. Settles(s) /\ Saves(s) /\ Takes(s)
      BY <1>2, <1>5 DEF StartInv
    <2>2. Settles(s)' /\ Saves(s)'
      BY <1>2, <2>1 DEF Settles, Saves, Settled, Section
    <2>3. Takes(s)'
      BY <1>1, <1>2, <2>1 DEF Takes, Agreed, Starting, Ahead, Behind, Section
    <2> QED
      BY <2>2, <2>3
  <1> QED
    BY <1>3, <1>4, <1>5 DEF StartInv
\* A signature that is renewed leaves no command.
LEMMA StartSignStage == ASSUME WholeInv, StartInv, SignStage PROVE StartInv'
  <1>1. CASE phase = "sign" /\ writing = "none" /\ ~failed /\ outdated
    <2>1. /\ flash'.sign = NoSign /\ flash'.comm = flash.comm /\ flash'.app = flash.app
          /\ writing' = "sign" /\ sign' = Renewed
          /\ UNCHANGED <<op, phase, main, valid, outdated, temp, failed, storing, promised>>
      BY <1>1, Erasing DEF SignStage, WholeInv
    <2>2. Renewed.func = NoCommand /\ Renewed.crc = temp
      BY DEF Renewed, WholeInv, Shapes, Signature
    <2>3. Progress'
      BY <1>1, <2>1, <2>2 DEF StartInv, Progress, Ahead, Section
    <2>4. Heals'
      BY <1>1, <2>1 DEF StartInv, Heals, Starting, Ahead, Behind, Section
    <2>5. ASSUME NEW s \in Section, promised'[s] # None
          PROVE  Settles(s)' /\ Saves(s)' /\ Takes(s)'
      <3>1. Takes(s) /\ main
        BY <1>1, <2>1, <2>5 DEF StartInv, Progress
      <3> QED
        BY <1>1, <2>1, <3>1 DEF Settles, Saves, Takes, Settled, Starting, Ahead, Behind
    <2> QED
      BY <2>3, <2>4, <2>5 DEF StartInv
  <1>2. CASE phase = "sign" /\ writing = "none" /\ failed
    <2>1. phase' = "stuck" /\ failed
          /\ UNCHANGED <<flash, sign, temp, op, writing, main, valid, outdated, storing, promised>>
      BY <1>2 DEF SignStage
    <2>2. Progress' /\ Heals'
      BY <1>2, <2>1 DEF StartInv, Progress, Heals, Starting, Ahead, Behind, Section
    <2>3. ASSUME NEW s \in Section, promised'[s] # None
          PROVE  Settles(s)' /\ Saves(s)' /\ Takes(s)'
      <3>1. Settles(s)
        BY <2>1, <2>3 DEF StartInv
      <3> QED
        BY <1>2, <2>1, <3>1 DEF Settles, Saves, Takes, Agreed, Settled, Vouches, Starting, Ahead, Behind
    <2> QED
      BY <2>2, <2>3 DEF StartInv
  <1>3. CASE phase = "sign" /\ writing = "none" /\ ~failed /\ ~outdated
    <2>1. /\ phase' = "up" /\ main' = FALSE /\ valid' = FALSE /\ outdated' = FALSE
          /\ UNCHANGED <<flash, sign, temp, writing, failed, storing, promised>>
      BY <1>3 DEF SignStage, Copy
    <2>2. Progress' /\ Heals'
      BY <1>3, <2>1 DEF Progress, Heals, Starting, Ahead, Section
    <2>3. ASSUME NEW s \in Section, promised'[s] # None
          PROVE  Settles(s)' /\ Saves(s)' /\ Takes(s)'
      <3>1. Settles(s)
        BY <2>1, <2>3 DEF StartInv
      <3> QED
        BY <1>3, <2>1, <3>1 DEF Settles, Saves, Takes, Agreed, Settled, Vouches, Starting, Ahead, Behind
    <2> QED
      BY <2>2, <2>3 DEF StartInv
  <1> QED
    BY <1>1, <1>2, <1>3 DEF SignStage, WholeInv, Shapes

LEMMA StartApplication ==
  ASSUME WholeInv, StartInv, NEW x \in Section,
         SetPara(x) \/ Store(x) \/ \E c \in Command : Order(x, c)
  PROVE  StartInv'
  <1>1. phase = "up" /\ writing = "none" /\ ~outdated /\ phase' = "up" /\ ~outdated'
    BY DEF SetPara, Store, Order, Quiet, WholeInv, Stages
  <1>2. Heals'
    BY <1>1 DEF Heals, Starting
  <1>3. CASE SetPara(x)
    <2>1. UNCHANGED <<flash, sign, phase, writing, outdated, storing, promised>>
      BY <1>3 DEF SetPara
    <2>2. Progress'
      BY <1>1, <2>1 DEF Progress, Ahead, Section
    <2>3. ASSUME NEW s \in Section, promised'[s] # None
          PROVE  Settles(s)' /\ Saves(s)' /\ Takes(s)'
      <3>1. Settles(s)
        BY <2>1, <2>3 DEF StartInv
      <3> QED
        BY <1>1, <2>1, <3>1 DEF Settles, Saves, Takes, Agreed, Settled, Vouches, Starting, Ahead, Behind
    <2> QED
      BY <1>2, <2>2, <2>3 DEF StartInv
  <1>4. CASE Store(x)
    <2>1. /\ writing' = x /\ storing' = x
          /\ UNCHANGED <<sign, phase, outdated, promised>>
          /\ \A s \in Section : s # x => flash'[s] = flash[s]
      BY <1>4, Erasing, SectionIs DEF Store, WholeInv, Section
    <2>2. Progress'
      BY <1>1, <2>1 DEF Progress, Ahead, Section
    <2>3. ASSUME NEW s \in Section, promised'[s] # None
          PROVE  Settles(s)' /\ Saves(s)' /\ Takes(s)'
      <3>1. Agreed(s, sign)
        BY <1>1, <2>1, <2>3 DEF StartInv, Settles, Settled
      <3> QED
        BY <1>1, <2>1, <3>1 DEF Settles, Saves, Takes, Agreed, Settled, Starting, Ahead, Behind, Section
    <2> QED
      BY <1>2, <2>2, <2>3 DEF StartInv
  <1>5. ASSUME NEW c \in Command, Order(x, c) PROVE StartInv'
    <2>1. /\ writing' = "sign" /\ storing' = None
          /\ UNCHANGED <<temp, phase, outdated>>
          /\ sign' = SetFunc(sign, x, c)
          /\ flash'.comm = flash.comm /\ flash'.app = flash.app
      BY <1>5, Erasing DEF Order, WholeInv
    <2>2. /\ sign'.func[x] = c
          /\ \A s \in Section : s # x => sign'.func[s] = sign.func[s]
      BY <2>1 DEF SetFunc, WholeInv, Shapes, Signature
    <2>3. Progress'
      BY <1>1, <2>1, StorageAssumption DEF Progress, Ahead, Section
    <2>4. ASSUME NEW s \in Section, promised'[s] # None
          PROVE  Settles(s)' /\ Saves(s)' /\ Takes(s)'
      <3>1. CASE s = x
        <4>1. c = {"RESTORE_PARA"} /\ promised'[x] = Default[x]
          BY <1>5, <2>4, <3>1 DEF Order, WholeInv, Shapes
        <4> QED
          BY <1>1, <2>1, <2>2, <3>1, <4>1
             DEF Settles, Saves, Takes, Agreed, Settled, Starting, Ahead, Behind, NO_ACTION
      <3>2. CASE s # x
        <4>1. promised'[s] = promised[s]
          BY <1>5, <3>2 DEF Order, WholeInv, Shapes
        <4>2. Agreed(s, sign)
          BY <1>1, <2>4, <4>1 DEF StartInv, Settles, Settled
        <4> QED
          BY <1>1, <2>1, <2>2, <3>2, <4>1, <4>2
             DEF Settles, Saves, Takes, Agreed, Settled, Starting, Ahead, Behind, Section
      <3> QED
        BY <3>1, <3>2
    <2> QED
      BY <1>2, <2>3, <2>4 DEF StartInv
  <1> QED
    BY <1>3, <1>4, <1>5

LEMMA StartStoreSign == ASSUME WholeInv, StartInv, StoreSign PROVE StartInv'
  <1>1. /\ flash'.sign = NoSign /\ flash'.comm = flash.comm /\ flash'.app = flash.app
        /\ writing = "crc" /\ writing' = "sign" /\ phase = "up"
        /\ UNCHANGED <<temp, phase, outdated, storing, promised>>
    BY Erasing DEF StoreSign, WholeInv
  <1>2. sign'.func = sign.func /\ storing \in Section /\ ~outdated
    BY <1>1 DEF StoreSign, WholeInv, Stages, Shapes, Signature
  <1>3. Progress' /\ Heals'
    BY <1>1, <1>2 DEF StartInv, Progress, Heals, Starting, Ahead, Section
  <1>4. ASSUME NEW s \in Section, promised'[s] # None
        PROVE  Settles(s)' /\ Saves(s)' /\ Takes(s)'
    <2>1. Saves(s)
      BY <1>1, <1>4 DEF StartInv
    <2> QED
      BY <1>1, <1>2, <2>1 DEF Settles, Saves, Takes, Agreed, Settled, Starting, Ahead, Behind, Section
  <1> QED
    BY <1>3, <1>4 DEF StartInv

LEMMA StartSectionWritten == ASSUME WholeInv, StartInv, NEW x \in Section, SectionWritten(x)
                             PROVE  StartInv'
  <1>1. /\ flash' \in [comm : Content, app : Content, sign : Signature]
        /\ flash'.sign = flash.sign /\ flash'[x] = temp[x]
        /\ \A s \in Section : s # x => flash'[s] = flash[s]
        /\ writing = x
        /\ UNCHANGED <<sign, temp, op, main, valid, outdated, failed, storing, promised>>
    BY DEF SectionWritten, WholeInv, Shapes, Section
  <1>2. CASE phase = "up"
    <2>1. writing' = "crc" /\ phase' = "up" /\ storing = x /\ ~outdated
      BY <1>1, <1>2 DEF SectionWritten, WholeInv, Stages, Section
    <2>2. Progress' /\ Heals'
      BY <1>1, <2>1 DEF Progress, Heals, Starting, Ahead, Section
    <2>3. ASSUME NEW s \in Section, promised'[s] # None
          PROVE  Settles(s)' /\ Saves(s)' /\ Takes(s)'
      <3>1. Saves(s)
        BY <1>1, <2>3 DEF StartInv
      <3> QED
        BY <1>1, <1>2, <2>1, <3>1 DEF Settles, Saves, Takes, Agreed, Settled, Starting, Ahead, Behind, Section
    <2> QED
      BY <2>2, <2>3 DEF StartInv
  <1>3. CASE phase # "up"
    <2>1. phase = x /\ writing' = "none" /\ phase' = AfterSection(x)
      BY <1>1, <1>3 DEF SectionWritten, WholeInv, Stages, Section
    <2>2. main /\ outdated /\ Ahead(x) /\ temp[x] = Default[x]
      BY <1>1, <2>1 DEF StartInv, Progress, Ahead, Section
    <2>3. Progress'
      BY <1>1, <2>1, <2>2 DEF StartInv, Progress, AfterSection, Ahead, Section
    <2>4. Heals'
      BY <1>1, <2>1, <2>2 DEF StartInv, Heals, AfterSection, Starting, Ahead, Behind, Section
    <2>5. ASSUME NEW s \in Section, promised'[s] # None
          PROVE  Settles(s)' /\ Saves(s)' /\ Takes(s)'
      <3>1. Takes(s)
        BY <1>1, <2>5 DEF StartInv
      <3>2. Settles(s)' /\ Saves(s)'
        BY <1>1, <2>1, <2>2 DEF Settles, Saves, Settled, AfterSection
      <3>3. Takes(s)'
        BY <1>1, <2>1, <2>2, <3>1 DEF Takes, Agreed, AfterSection, Starting, Ahead, Behind, Section
      <3> QED
        BY <3>2, <3>3
    <2> QED
      BY <2>3, <2>4, <2>5 DEF StartInv
  <1> QED
    BY <1>2, <1>3

\* The promises made when a signature is written are kept by what is in flash.
LEMMA StartSignWritten == ASSUME WholeInv, StartInv, SignWritten PROVE StartInv'
  <1>1. /\ flash' \in [comm : Content, app : Content, sign : Signature]
        /\ flash'.sign = sign /\ flash'.comm = flash.comm /\ flash'.app = flash.app
        /\ writing = "sign" /\ writing' = "none" /\ storing' = None
        /\ promised' = Promises(flash') /\ sign' = sign /\ temp' = temp
        /\ phase' = "up" /\ ~outdated'
    BY DEF SignWritten, Copy, WholeInv, Shapes, Stages
  <1>2. Progress' /\ Heals'
    BY <1>1, StorageAssumption DEF Progress, Heals, Starting, Ahead, Section
  <1>3. ASSUME NEW s \in Section, promised'[s] # None
        PROVE  Settles(s)' /\ Saves(s)' /\ Takes(s)'
    <2>1. Vouches(flash')
      BY <1>1, <1>3 DEF Promises, NoPromise
    <2>2. Agreed(s, sign)'
      <3>1. CASE phase = "sign"
        <4>1. promised' = temp /\ sign.func = NoCommand /\ sign.crc = temp
          BY <1>1, <2>1, <3>1 DEF Promises, StartInv, Progress
        <4>2. flash'[s] = temp[s]
          BY <1>1, <2>1, <4>1 DEF Vouches
        <4> QED
          BY <1>1, <4>1, <4>2, SignShapes DEF Agreed, NO_ACTION
      <3>2. CASE phase = "up" /\ storing \in Section /\ s = storing
        <4>1. promised'[s] = Owed(s)
          BY <1>1, <2>1, <3>2 DEF Promises, WholeInv, Shapes
        <4>2. flash'[s] = temp[s]
          BY <1>1, <3>2 DEF StartInv, Progress, Section
        <4> QED
          BY <1>1, <1>3, <3>2, <4>1, <4>2 DEF Agreed, Owed, NO_ACTION
      <3>3. CASE phase = "up" /\ ~(storing \in Section /\ s = storing)
        <4>1. promised'[s] = promised[s] /\ s # storing
          BY <1>1, <2>1, <3>3 DEF Promises, WholeInv, Shapes
        <4>2. Agreed(s, sign)
          BY <1>1, <1>3, <3>3, <4>1 DEF StartInv, Saves
        <4> QED
          BY <1>1, <4>1, <4>2 DEF Agreed, Section
      <3> QED
        BY <1>1, <3>1, <3>2, <3>3 DEF WholeInv, Stages
    <2> QED
      BY <1>1, <2>1, <2>2 DEF Settles, Saves, Takes, Agreed, Starting, Ahead, Behind
  <1> QED
    BY <1>2, <1>3 DEF StartInv

LEMMA StartTrouble == ASSUME WholeInv, StartInv, WriteFails \/ Down PROVE StartInv'
  <1>1. CASE WriteFails
    <2>1. promised' = NoPromise
      BY <1>1 DEF WriteFails
    <2>2. /\ writing # "none" /\ writing' = "none" /\ storing' = None
          /\ UNCHANGED <<sign, temp, main, valid, outdated>>
          /\ \A s \in Section : flash'[s] = flash[s]
      BY <1>1, SectionIs, Leaving DEF WriteFails, Section
    <2>3. CASE phase = "up"
      BY <1>1, <2>1, <2>2, <2>3 DEF WriteFails, NoPromise, StartInv, Progress, Heals, Starting, Ahead, Section
    <2>4. CASE phase \in Section
      <3>1. failed' = TRUE /\ phase' = AfterSection(phase) /\ writing = phase
        BY <1>1, <2>2, <2>4, SectionIs DEF WriteFails, WholeInv, Stages, Section
      <3>2. main /\ outdated
        BY <2>4, <3>1 DEF StartInv, Progress
      <3>3. Progress' /\ Heals'
        BY <2>2, <2>4, <3>1, <3>2 DEF StartInv, Progress, Heals, AfterSection, Starting, Ahead, Behind, Section
      <3> QED
        BY <2>1, <3>3 DEF StartInv, NoPromise
    <2>5. CASE phase = "sign"
      <3>1. phase' = "stuck"
        BY <1>1, <2>5 DEF WriteFails, Section
      <3>2. Progress' /\ Heals'
        BY <2>2, <3>1 DEF StartInv, Progress, Heals, Starting, Ahead, Section
      <3> QED
        BY <2>1, <3>2 DEF StartInv, NoPromise
    <2> QED
      BY <2>2, <2>3, <2>4, <2>5 DEF WholeInv, Stages, Section
  <1>2. CASE Down
    <2>1. Progress' /\ Heals'
      BY <1>2 DEF Down, Progress, Heals, Starting, Ahead, Section
    <2>2. ASSUME NEW s \in Section, promised'[s] # None
          PROVE  Settles(s)' /\ Saves(s)' /\ Takes(s)'
      <3>1. Settled /\ Settles(s) /\ promised' = promised /\ flash' = flash
        BY <1>2, <2>2 DEF Down, LeftOver, Settled, NoPromise, StartInv
      <3> QED
        BY <1>2, <3>1 DEF Down, Settles, Saves, Takes, Agreed, Vouches, Starting, Ahead, Behind
    <2> QED
      BY <2>1, <2>2 DEF StartInv
  <1> QED
    BY <1>1, <1>2

LEMMA StartNext == WholeInv /\ StartInv /\ [StorageNext]_storage => StartInv'
  <1> SUFFICES ASSUME WholeInv, StartInv, [StorageNext]_storage PROVE StartInv'
    OBVIOUS
  <1>1. CASE Start
    BY <1>1, StartPowerOn, StartLoad, StartSkip, StartRestore, StartSignStage DEF Start
  <1>2. CASE Write
    BY <1>2, StartSectionWritten, StartSignWritten, StartStoreSign DEF Write
  <1>3. CASE Application
    BY <1>3, StartApplication DEF Application
  <1>4. CASE WriteFails \/ PowerCut \/ Reset
    BY <1>4, StartTrouble DEF PowerCut, Reset
  <1>5. CASE UNCHANGED storage
    BY <1>5 DEF storage, StartInv, Progress, Heals, Settles, Saves, Takes, Agreed, Vouches, Settled,
                Starting, Ahead, Behind
  <1> QED
    BY <1>1, <1>2, <1>3, <1>4, <1>5 DEF StorageNext
\* A start ends without a write, or with that of its signature.
LEMMA EndOfStart ==
  ASSUME WholeInv, StartInv, StorageNext, ComesUp
  PROVE  /\ op' = temp /\ sign' = sign /\ phase = "sign"
         /\ \/ flash' = flash /\ ~outdated
            \/ /\ writing = "sign" /\ main /\ ~failed
               /\ sign.crc = temp /\ sign.func = NoCommand
               /\ flash'.sign = sign /\ flash'.comm = flash.comm /\ flash'.app = flash.app
  <1>1. ~Application /\ ~StoreSign
    BY DEF ComesUp, Application, SetPara, Store, Order, Quiet, StoreSign
  <1>2. ~PowerCut /\ ~Reset
    BY DEF ComesUp, PowerCut, Reset, Down
  <1>3. ~WriteFails
    BY DEF ComesUp, WriteFails, WholeInv, Stages, AfterSection, Section
  <1>4. ~(\E s \in Section : SectionWritten(s) \/ LoadSection(s) \/ SkipSection(s) \/ RestoreSection(s))
    BY DEF ComesUp, SectionWritten, LoadSection, SkipSection, RestoreSection, AfterSection,
           WholeInv, Stages, Section
  <1>5. ~(\E m \in BOOLEAN : PowerOn(m))
    BY DEF ComesUp, PowerOn
  <1>6. SignStage \/ SignWritten
    BY <1>1, <1>2, <1>3, <1>4, <1>5 DEF StorageNext, Start, Write
  <1>7. CASE SignStage
    BY <1>7 DEF SignStage, Copy, ComesUp
  <1>8. CASE SignWritten
    <2>1. phase = "sign" /\ writing = "sign"
      BY <1>8 DEF SignWritten, ComesUp, WholeInv, Stages
    <2>2. main /\ ~failed /\ sign.crc = temp /\ sign.func = NoCommand
      BY <2>1 DEF WholeInv, Stages, StartInv, Progress
    <2> QED
      BY <1>8, <2>1, <2>2 DEF SignWritten, Copy, WholeInv, Shapes
  <1> QED
    BY <1>6, <1>7, <1>8

LEMMA StartKeeps ==
  ASSUME WholeInv, StartInv, StorageNext, ComesUp,
         NEW s \in Section, promised[s] # None, main \/ sign'.func[s] = NO_ACTION
  PROVE  op'[s] = promised[s]
  <1>1. Takes(s)
    BY DEF StartInv
  <1>2. Behind(s)
    BY EndOfStart DEF Behind, Starting, Ahead
  <1> QED
    BY <1>1, <1>2, EndOfStart DEF Takes

LEMMA StartWrites ==
  ASSUME WholeInv, StartInv, StorageNext, ComesUp, ~valid, main
  PROVE  op' = Default /\ Vouches(flash') /\ flash'.sign.func = NoCommand
  <1>1. Starting /\ \A s \in Section : Behind(s)
    BY EndOfStart DEF Behind, Starting, Ahead
  <1>2. temp = Default /\ outdated /\ \A s \in Section : failed \/ flash[s] = Default[s]
    BY <1>1, SectionIs DEF StartInv, Heals
  <1>3. /\ ~failed /\ sign.crc = temp /\ sign.func = NoCommand
        /\ flash'.sign = sign /\ flash'.comm = flash.comm /\ flash'.app = flash.app
    BY <1>2, EndOfStart
  <1>4. op' = Default
    BY <1>2, EndOfStart
  <1>5. Vouches(flash')
    BY <1>2, <1>3 DEF Vouches, Section
  <1> QED
    BY <1>3, <1>4, <1>5

\* The start of the loader writes nothing.
LEMMA LoaderWritesNothing ==
  ASSUME WholeInv, StartInv, StorageNext, phase # "up", ~main
  PROVE  flash' = flash
  <1>1. ~Application /\ ~StoreSign
    BY DEF Application, SetPara, Store, Order, Quiet, StoreSign
  <1>2. writing = "none" /\ ~outdated
    BY SectionIs DEF WholeInv, Stages, StartInv, Progress, Section
  <1>3. ~Write /\ ~WriteFails
    BY <1>1, <1>2, SectionIs DEF Write, SectionWritten, SignWritten, WriteFails, Section
  <1>4. CASE Start
    BY <1>2, <1>4 DEF Start, PowerOn, LoadSection, SkipSection, RestoreSection, Restores, SignStage, Copy
  <1>5. CASE PowerCut \/ Reset
    BY <1>2, <1>5 DEF PowerCut, Reset, Down, LeftOver
  <1> QED
    BY <1>1, <1>3, <1>4, <1>5 DEF StorageNext

\* A start comes up with what was stored or was to be restored, through power
\* cuts, failed writes, commands and starts of the loader; the main
\* application puts unusable parameters right, and the loader writes nothing
\* (CO_OD_STORAGE_init, co_process_when_reset).
THEOREM StorageStartIsSound == StorageSpec => StartIsSound
  <1>1. StorageInit => WholeInv /\ StartInv
    BY WholeInit, StartInit
  <1>2. WholeInv /\ StartInv /\ [StorageNext]_storage => (WholeInv /\ StartInv)'
    BY WholeNext, StartNext
  <1>3. WholeInv /\ StartInv /\ [StorageNext]_storage =>
          [ ComesUp =>
              \A s \in Section : promised[s] # None /\ (main \/ sign'.func[s] = NO_ACTION)
                                    => op'[s] = promised[s] ]_storage
    BY StartKeeps DEF storage
  <1>4. WholeInv /\ StartInv /\ [StorageNext]_storage =>
          [ /\ ComesUp /\ ~valid /\ main =>
                 op' = Default /\ Vouches(flash') /\ flash'.sign.func = NoCommand
            /\ phase # "up" /\ ~main => flash' = flash ]_storage
    BY StartWrites, LoaderWritesNothing DEF storage
  <1>5. StorageSpec => StartKeepsPromises
    BY <1>1, <1>2, <1>3, PTL DEF StorageSpec, StartKeepsPromises
  <1>6. StorageSpec => StartHeals
    BY <1>1, <1>2, <1>4, PTL DEF StorageSpec, StartHeals
  <1> QED
    BY <1>5, <1>6 DEF StartIsSound
=============================================================================
