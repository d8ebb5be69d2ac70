---------------------------- MODULE CoSdoProofs ----------------------------
(***************************************************************************)
(* The SDO server against any client, for every object dictionary and every *)
(* set of frames: no segment leaves its sub-object.                         *)
(*                                                                         *)
(* Then an SDO client that waits for its answers, and its server: no success is *)
(* reported that is not true, no received frame is overwritten, and the    *)
(* pair implements the atomic transfer of SdoTransfer.                     *)
(*                                                                         *)
(* Patient and WholeObjects are hypotheses of the theorems.  Without the   *)
(* first the answer to one transfer can be taken for that of the next, and *)
(* without the second a download can leave a part of its object as it was. *)
(*                                                                         *)
(* Last a client that gives up while the server is still at work, on a bus *)
(* that is prompt: late answers are taken for those to a newer transfer,   *)
(* but no byte is stored at another place than its own.                    *)
(***************************************************************************)
EXTENDS CoSdo, CoSdoAnyClient, SequenceTheorems, TLAPS

----------------------------------------------------------------------------
(* The server against any client.                                            *)

\* A memory whose buffers have the lengths of their sub-objects.
Memory(m) ==
  /\ m \in [Buffers -> [Objects -> Seq(Byte)]]
  /\ \A b \in Buffers, o \in Objects : Len(m[b][o]) = ObjLen[o]

\* A server whose segmented transfer lies inside its object.
InObject(s) ==
  s.state \in {"DOWNLOAD_SEGMENTED", "UPLOAD_SEGMENTED"} =>
    s.offset <= s.len /\ s.len <= ObjLen[s.obj]

\* The invariant that carries the proof: the next segment is read from and
\* written to buffers whose length is known.
IndInv == AnyTypeOK /\ Memory(mem) /\ InObject(srv)

----------------------------------------------------------------------------
(* Sequences of bytes.                                                      *)

\* A slice that lies inside a sequence is a sequence of the same bytes.
LEMMA SliceType ==
  ASSUME NEW b \in Seq(Byte), NEW m \in Nat, NEW n \in Nat, m + n <= Len(b)
  PROVE  Slice(b, m, n) \in Seq(Byte)
<1>1. SubSeq(b, m + 1, m + n) = [i \in 1..n |-> b[i + m]]
  OBVIOUS
<1>2. \A i \in 1..n : b[i + m] \in Byte
  OBVIOUS
<1>3. [i \in 1..n |-> b[i + m]] \in Seq(Byte)
  BY <1>2
<1>4. QED
  BY <1>1, <1>3 DEF Slice

LEMMA TransLenType == ASSUME NEW n \in Nat PROVE TransLen(n) \in Nat
BY DEF TransLen

LEMMA StrayType == Stray \in Byte
BY DEF Stray, Byte

\* Copying a frame's bytes into a buffer leaves a buffer of the same length.
LEMMA CopyType ==
  ASSUME NEW b \in Seq(Byte), NEW off \in Nat, NEW d \in Seq(Byte), NEW n \in Nat
  PROVE  /\ Copy(b, off, d, n) \in Seq(Byte)
         /\ Len(Copy(b, off, d, n)) = Len(b)
<1> DEFINE x(k) == IF k - off \in 1..n
                   THEN IF k - off <= Len(d) THEN d[k - off] ELSE Stray
                   ELSE b[k]
<1>1. \A k \in 1..Len(b) : x(k) \in Byte
  BY StrayType
<1>2. Copy(b, off, d, n) = [k \in 1..Len(b) |-> x(k)]
  BY DEF Copy
<1> HIDE DEF x
<1>3. QED
  BY <1>1, <1>2

LEMMA PlainType ==
  ASSUME NEW cs \in Specifiers
  PROVE  Plain(cs) \in Frame
BY DEF Plain, Frame, Muxes

LEMMA AbortFrameType == AbortFrame \in Frame
BY PlainType DEF AbortFrame, Specifiers

----------------------------------------------------------------------------
(* The building blocks of the server's handlers keep the record's type.      *)

LEMMA AbortedType ==
  ASSUME NEW s \in Servers, NEW st \in Statuses
  PROVE  Aborted(s, st) \in Servers /\ Aborted(s, st).state = "IDLE"
BY DEF Aborted, Servers, ServerStates

\* A first message that is accepted names a sub-object of the dictionary.
LEMMA EnteredType ==
  ASSUME srv \in Servers, FirstMsg => FirstMsgOK(srv.rx)
  PROVE  /\ Entered \in Servers
         /\ Entered.offset = srv.offset /\ Entered.len = srv.len
         /\ ~FirstMsg => Entered.state = srv.state /\ Entered.obj = srv.obj
         /\ FirstMsg => Entered.state \in {"DOWNLOAD_INITIATE_RSP", "UPLOAD_INITIATE_RSP"}
<1> DEFINE s == IF srv.new THEN [srv EXCEPT !.timer = FALSE] ELSE srv
<1>1. s \in Servers /\ s.offset = srv.offset /\ s.len = srv.len
      /\ s.state = srv.state /\ s.obj = srv.obj
  BY DEF Servers
<1>2. CASE FirstMsg
  <2>1. srv.rx.mux \in Objects
    BY <1>2, ObjectAssumption DEF FirstMsgOK
  <2>2. Entered = [s EXCEPT !.obj = srv.rx.mux,
                            !.state = IF srv.rx.cs = "DOWNLOAD_INITIATE"
                                      THEN "DOWNLOAD_INITIATE_RSP"
                                      ELSE "UPLOAD_INITIATE_RSP"]
    BY <1>2 DEF Entered
  <2>3. QED
    BY <1>1, <1>2, <2>1, <2>2 DEF Servers, ServerStates
<1>3. CASE ~FirstMsg
  BY <1>1, <1>3 DEF Entered
<1>4. QED
  BY <1>2, <1>3

LEMMA ReturnType ==
  ASSUME NEW s \in Servers, Return(s)
  PROVE  /\ srv' \in Servers
         /\ srv'.state = s.state /\ srv'.offset = s.offset
         /\ srv'.len = s.len /\ srv'.obj = s.obj
BY DEF Return, Servers, ServerStates, Statuses

LEMMA ArmedType ==
  ASSUME NEW s \in Servers
  PROVE  /\ Armed(s) \in Servers
         /\ Armed(s).state = s.state /\ Armed(s).offset = s.offset
         /\ Armed(s).len = s.len /\ Armed(s).obj = s.obj
BY DEF Armed, Servers

LEMMA BegunType ==
  ASSUME NEW s \in Servers
  PROVE  /\ Begun(s) \in Servers
         /\ Begun(s).state = s.state /\ Begun(s).offset = 0
         /\ Begun(s).len = s.len /\ Begun(s).obj = s.obj
BY DEF Begun, Servers

\* Sending a frame keeps the wires' type.
LEMMA SendType ==
  ASSUME NEW f \in Frame, ServerSend(f),
         toServer \in Seq(Frame), toClient \in Seq(Frame)
  PROVE  toServer' \in Seq(Frame) /\ toClient' \in Seq(Frame)
BY DEF ServerSend, wires

----------------------------------------------------------------------------
(* The buffers.                                                              *)

LEMMA ObjLenType == ASSUME NEW o \in Objects PROVE ObjLen[o] \in Nat
BY ObjectAssumption

LEMMA ItfType == ASSUME NEW o \in Objects PROVE Itf(o) \in Buffers
BY DEF Itf, Buffers

\* Writing one buffer with a value of its length.
LEMMA StoreType ==
  ASSUME NEW m, Memory(m), NEW b \in Buffers, NEW o \in Objects,
         NEW v \in Seq(Byte), Len(v) = ObjLen[o]
  PROVE  Memory([m EXCEPT ![b][o] = v])
<1>1. [m EXCEPT ![b][o] = v] \in [Buffers -> [Objects -> Seq(Byte)]]
  BY DEF Memory
<1>2. ASSUME NEW c \in Buffers, NEW p \in Objects
      PROVE  Len([m EXCEPT ![b][o] = v][c][p]) = ObjLen[p]
  BY DEF Memory
<1>3. QED
  BY <1>1, <1>2 DEF Memory

\* Copying the data of a frame into a buffer.
LEMMA FillType ==
  ASSUME NEW m, Memory(m), NEW o \in Objects, NEW off \in Nat,
         NEW d \in Seq(Byte), NEW n \in Nat
  PROVE  Memory([m EXCEPT ![Itf(o)][o] = Copy(m[Itf(o)][o], off, d, n)])
<1>1. Itf(o) \in Buffers
  BY ItfType
<1>2. m[Itf(o)][o] \in Seq(Byte) /\ Len(m[Itf(o)][o]) = ObjLen[o]
  BY <1>1 DEF Memory
<1> DEFINE v == Copy(m[Itf(o)][o], off, d, n)
<1>3. v \in Seq(Byte) /\ Len(v) = ObjLen[o]
  BY <1>2, CopyType
<1> HIDE DEF v
<1>4. Memory([m EXCEPT ![Itf(o)][o] = v])
  BY <1>1, <1>3, StoreType
<1>5. QED
  BY <1>4 DEF v

LEMMA CommitType ==
  ASSUME NEW m, Memory(m), NEW o \in Objects
  PROVE  Memory(Commit(m, o))
<1>1. "data" \in Buffers /\ m["temp"][o] \in Seq(Byte) /\ Len(m["temp"][o]) = ObjLen[o]
  BY DEF Memory, Buffers
<1> DEFINE v == m["temp"][o]
<1>2. v \in Seq(Byte) /\ Len(v) = ObjLen[o]
  BY <1>1
<1> HIDE DEF v
<1>3. Memory([m EXCEPT !["data"][o] = v])
  BY <1>1, <1>2, StoreType
<1>4. QED
  BY <1>3 DEF Commit, v

LEMMA CopyShadowType ==
  ASSUME NEW o \in Objects, Memory(mem)
  PROVE  Memory(CopyShadow(o))
<1> DEFINE v == mem["shadow"][o]
           t == IF o \in Temp THEN v ELSE mem["temp"][o]
           m == [mem EXCEPT !["temp"][o] = t]
           d == IF o \in Temp \cap AfterReset THEN mem["data"][o] ELSE v
<1>1. /\ v \in Seq(Byte) /\ Len(v) = ObjLen[o]
      /\ t \in Seq(Byte) /\ Len(t) = ObjLen[o]
      /\ d \in Seq(Byte) /\ Len(d) = ObjLen[o]
      /\ "temp" \in Buffers /\ "data" \in Buffers
  BY DEF Memory, Buffers
<1>2. CopyShadow(o) = [m EXCEPT !["data"][o] = d]
  <2>1. CopyShadow(o) =
          [mem EXCEPT !["temp"][o] = IF o \in Temp THEN v ELSE @,
                      !["data"][o] = IF o \in Temp \cap AfterReset THEN @ ELSE v]
    BY DEF CopyShadow
  <2>2. m["data"][o] = mem["data"][o]
    BY DEF Memory, Buffers
  <2>3. QED
    BY <2>1, <2>2, Zenon
<1> HIDE DEF t, d, v
<1>3. Memory(m)
  BY <1>1, StoreType
<1> HIDE DEF m
<1>4. Memory([m EXCEPT !["data"][o] = d])
  BY <1>1, <1>3, StoreType
<1>5. QED
  BY <1>2, <1>4, Zenon

\* What the history records is a value of bytes.
LEMMA ConfirmedType ==
  ASSUME NEW o \in Objects, NEW m, Memory(m), NEW n \in Nat,
         Confirmed(o, m, n), accepted \subseteq Download
  PROVE  accepted' \subseteq Download
<1>1. m[Itf(o)][o] \in Seq(Byte) /\ Len(m[Itf(o)][o]) = ObjLen[o]
  BY ItfType DEF Memory
<1>2. ObjLen[o] \in Nat
  BY ObjLenType
<1>3. Smaller(n, ObjLen[o]) \in Nat /\ Smaller(n, ObjLen[o]) <= ObjLen[o]
  BY <1>2 DEF Smaller
<1>4. SubSeq(m[Itf(o)][o], 1, Smaller(n, ObjLen[o])) \in Seq(Byte)
  <2>1. Slice(m[Itf(o)][o], 0, Smaller(n, ObjLen[o])) \in Seq(Byte)
    BY <1>1, <1>3, SliceType
  <2>2. 0 + 1 = 1 /\ 0 + Smaller(n, ObjLen[o]) = Smaller(n, ObjLen[o])
    BY <1>3
  <2>3. QED
    BY <2>1, <2>2 DEF Slice
<1> DEFINE v == SubSeq(m[Itf(o)][o], 1, Smaller(n, ObjLen[o]))
<1>5. accepted' = accepted \cup {[obj |-> o, data |-> v]}
  BY DEF Confirmed
<1> HIDE DEF v
<1>6. v \in Seq(Byte)
  BY <1>4 DEF v
<1>7. [obj |-> o, data |-> v] \in Download
  BY <1>6 DEF Download
<1>8. QED
  BY <1>5, <1>7

----------------------------------------------------------------------------
(* The ends that the handlers share.                                        *)

\* What IndInv says, part by part.
LEMMA IndInvParts ==
  IndInv <=> /\ srv \in Servers /\ InObject(srv) /\ Memory(mem)
             /\ accepted \subseteq Download
             /\ toServer \in Seq(Frame) /\ toClient \in Seq(Frame)
BY DEF IndInv, AnyTypeOK, ServerTypeOK, Memory

\* A handler that only returns.
LEMMA ReturnOnly ==
  ASSUME IndInv, NEW s \in Servers, InObject(s), Return(s),
         Memory(mem'), accepted' \subseteq Download,
         toServer' \in Seq(Frame), toClient' \in Seq(Frame)
  PROVE  IndInv'
<1>1. srv' \in Servers /\ InObject(srv')
  BY ReturnType DEF InObject
<1>2. QED
  BY <1>1 DEF IndInv, AnyTypeOK, ServerTypeOK, Memory

LEMMA RespondAbortType ==
  ASSUME IndInv, NEW s \in Servers, NEW st \in Statuses, Respond_Abort(s, st)
  PROVE  IndInv'
<1>1. srv' \in Servers /\ srv'.state = "IDLE"
  <2>1. Aborted(s, st) \in Servers /\ Aborted(s, st).state = "IDLE"
    BY AbortedType
  <2>2. srv' = [Aborted(s, st) EXCEPT !.tx = AbortFrame]
    BY DEF Respond_Abort
  <2>3. QED
    BY <2>1, <2>2, AbortFrameType DEF Servers
<1>2. InObject(srv')
  BY <1>1 DEF InObject
<1>3. toServer' \in Seq(Frame) /\ toClient' \in Seq(Frame)
  <2>1. ServerSend(AbortFrame)
    BY DEF Respond_Abort
  <2>2. QED
    BY <2>1, SendType, AbortFrameType, IndInvParts
<1>4. mem' = mem /\ accepted' = accepted
  BY DEF Respond_Abort
<1>5. QED
  BY <1>1, <1>2, <1>3, <1>4 DEF IndInv, AnyTypeOK, ServerTypeOK, Memory

LEMMA CompletedType ==
  ASSUME IndInv, NEW s \in Servers, InObject(s), NEW m, Memory(m), Completed(s, m)
  PROVE  IndInv'
<1>1. CASE s.obj \in Ext
  <2>1. /\ Return(Armed([s EXCEPT !.internal = TRUE]))
        /\ mem' = m /\ accepted' = accepted
        /\ toServer' = toServer /\ toClient' = toClient
    BY <1>1 DEF Completed, wires
  <2> DEFINE t == [s EXCEPT !.internal = TRUE]
  <2>2. t \in Servers /\ InObject(t)
    BY DEF Servers, InObject
  <2>3. Armed(t) \in Servers /\ InObject(Armed(t))
    BY <2>2, ArmedType DEF InObject
  <2>4. QED
    BY <2>1, <2>3, ReturnOnly, IndInvParts
<1>2. CASE s.obj \notin Ext
  <2> DEFINE t == [s EXCEPT !.state = "IDLE"]
  <2>1. /\ Return(t)
        /\ mem' = Commit(m, s.obj)
        /\ Confirmed(s.obj, m, s.len)
        /\ ServerSend(s.tx)
    BY <1>2 DEF Completed
  <2>2. t \in Servers /\ InObject(t)
    BY DEF Servers, ServerStates, InObject
  <2>3. s.obj \in Objects /\ s.len \in Nat /\ s.tx \in Frame
    BY DEF Servers
  <2>4. Memory(mem')
    BY <2>1, <2>3, CommitType
  <2>5. accepted' \subseteq Download
    BY <2>1, <2>3, ConfirmedType, IndInvParts
  <2>6. toServer' \in Seq(Frame) /\ toClient' \in Seq(Frame)
    BY <2>1, <2>3, SendType, IndInvParts
  <2> HIDE DEF t
  <2>7. QED
    BY <2>1, <2>2, <2>4, <2>5, <2>6, ReturnOnly
<1>3. QED
  BY <1>1, <1>2

\* What a handler that Reached its state may assume of Entered.
LEMMA ReachedType ==
  ASSUME IndInv, NEW st, Reached(st)
  PROVE  /\ Entered \in Servers /\ Entered.state = st
         /\ InObject(Entered)
         /\ st \in {"DOWNLOAD_SEGMENTED", "UPLOAD_SEGMENTED"} =>
              /\ Entered.obj = srv.obj /\ Entered.len = srv.len
              /\ Entered.offset = srv.offset /\ srv.state = st
<1>1. srv \in Servers /\ InObject(srv)
  BY IndInvParts
<1>2. FirstMsg => FirstMsgOK(srv.rx)
  BY DEF Reached
<1>3. Entered.state = st
  BY DEF Reached
<1>4. QED
  BY <1>1, <1>2, <1>3, EnteredType DEF InObject

----------------------------------------------------------------------------
(* The handlers.                                                            *)

LEMMA InitIndInv == AnyInit => IndInv
<1> SUFFICES ASSUME AnyInit PROVE IndInv
  OBVIOUS
<1>1. srv \in Servers /\ srv.state = "IDLE"
  <2> DEFINE some == CHOOSE o \in Objects : TRUE
  <2>1. some \in Objects
    BY ObjectAssumption
  <2>2. srv = [state |-> "IDLE", status |-> "idle",
               rx |-> AbortFrame, new |-> FALSE, tx |-> AbortFrame,
               timer |-> FALSE, internal |-> FALSE, obj |-> some,
               offset |-> 0, len |-> 0, toggle |-> 0, fault |-> FALSE]
    BY DEF AnyInit, ServerInit
  <2> HIDE DEF some
  <2>3. "IDLE" \in ServerStates /\ "idle" \in Statuses /\ AbortFrame \in Frame
    BY AbortFrameType DEF ServerStates, Statuses
  <2>4. QED
    BY <2>1, <2>2, <2>3 DEF Servers
<1>2. Memory(mem)
  <2>1. ASSUME NEW o \in Objects
        PROVE  Payload(0, ObjLen[o]) \in Seq(Byte) /\ Len(Payload(0, ObjLen[o])) = ObjLen[o]
    <3>1. \A k \in 1..ObjLen[o] : <<0, k>> \in Byte
      BY ObjLenType DEF Byte
    <3>2. QED
      BY <3>1, ObjLenType DEF Payload
  <2>2. mem = [b \in Buffers |-> [o \in Objects |-> Payload(0, ObjLen[o])]]
    BY DEF AnyInit, ServerInit
  <2>3. QED
    BY <2>1, <2>2 DEF Memory
<1>3. QED
  BY <1>1, <1>2, IndInvParts DEF AnyInit, ServerInit, InObject

\* A frame that arrives changes only the slot.
LEMMA ReceiveIndInv ==
  ASSUME IndInv, AnyRequest
  PROVE  IndInv'
<1>1. PICK f \in Requests : ServerReceive(f)
  BY DEF AnyRequest
<1>2. f \in Frame
  BY RequestAssumption
<1>3. srv' \in Servers /\ InObject(srv')
  BY <1>1, <1>2, IndInvParts DEF ServerReceive, Servers, InObject
<1>4. mem' = mem /\ accepted' = {} /\ toServer' = toServer /\ toClient' = <<>>
  BY DEF AnyRequest
<1>5. QED
  BY <1>3, <1>4 DEF IndInv, AnyTypeOK, ServerTypeOK, Memory

\* The calls that end without an answer.
LEMMA SilentIndInv ==
  ASSUME IndInv, ServerTimeout \/ ServerNothing \/ ClientAbort
  PROVE  IndInv'
<1>1. srv \in Servers /\ InObject(srv)
  BY IndInvParts
<1>2. mem' = mem /\ accepted' = accepted /\ toServer' = toServer /\ toClient' = toClient
  BY DEF ServerTimeout, ServerNothing, ClientAbort, wires
<1>3. srv' \in Servers /\ InObject(srv')
  <2>1. CASE ServerTimeout
    BY <1>1, <2>1, AbortedType DEF ServerTimeout, Statuses, InObject
  <2>2. CASE ServerNothing
    BY <1>1, <2>2, ReturnType DEF ServerNothing, InObject
  <2>3. CASE ClientAbort
    BY <1>1, <2>3 DEF ClientAbort, Servers, ServerStates, Statuses, InObject
  <2>4. QED
    BY <2>1, <2>2, <2>3
<1>4. QED
  BY <1>2, <1>3 DEF IndInv, AnyTypeOK, ServerTypeOK, Memory

\* The calls that answer with an abort.
LEMMA RefusalIndInv ==
  ASSUME IndInv,
         \/ RefuseFirstMsg \/ DownloadInitiateRefused \/ DownloadSegmentRefused
         \/ ConfirmAbort \/ UploadSegmentRefused
  PROVE  IndInv'
<1>1. "abort" \in Statuses /\ "idle" \in Statuses
  BY DEF Statuses
<1>2. CASE RefuseFirstMsg
  BY <1>1, <1>2, RespondAbortType, IndInvParts DEF RefuseFirstMsg
<1>3. CASE DownloadInitiateRefused
  <2> DEFINE s == [Begun(Entered) EXCEPT
                     !.len = IF srv.rx.s THEN TransLen(srv.rx.size) ELSE @]
  <2>1. Begun(Entered) \in Servers
    BY <1>3, ReachedType, BegunType DEF DownloadInitiateRefused
  <2>2. TransLen(srv.rx.size) \in Nat
    BY TransLenType, IndInvParts DEF Servers, Frame
  <2>3. s \in Servers
    BY <2>1, <2>2 DEF Servers
  <2>4. Respond_Abort(s, "idle")
    BY <1>3 DEF DownloadInitiateRefused
  <2> HIDE DEF s
  <2>5. QED
    BY <1>1, <2>3, <2>4, RespondAbortType
<1>4. CASE DownloadSegmentRefused
  BY <1>1, <1>4, ReachedType, RespondAbortType DEF DownloadSegmentRefused
<1>5. CASE ConfirmAbort
  BY <1>1, <1>5, ReachedType, RespondAbortType DEF ConfirmAbort, Answer, Asked
<1>6. CASE UploadSegmentRefused
  BY <1>1, <1>6, ReachedType, RespondAbortType DEF UploadSegmentRefused
<1>7. QED
  BY <1>2, <1>3, <1>4, <1>5, <1>6

LEMMA DownloadInitiateIndInv ==
  ASSUME IndInv, DownloadInitiate
  PROVE  IndInv'
<1> DEFINE n == TransLen(srv.rx.size)
           answer == [Plain("DOWNLOAD_INITIATE") EXCEPT !.mux = srv.rx.mux]
           s == [Begun(Entered) EXCEPT !.len = n, !.tx = answer,
                                       !.state = "DOWNLOAD_SEGMENTED"]
<1>1. srv.rx \in Frame
  BY IndInvParts DEF Servers
<1>2. n \in Nat /\ answer \in Frame
  <2>1. n \in Nat
    BY <1>1, TransLenType DEF Frame
  <2>2. answer \in Frame
    BY <1>1, PlainType DEF Frame, Specifiers
  <2>3. QED
    BY <2>1, <2>2
<1>3. Entered \in Servers
  BY ReachedType DEF DownloadInitiate
<1>4. n <= ObjLen[Entered.obj]
  BY DEF DownloadInitiate, Fits
<1>5. Return(Armed(s)) /\ ServerSend(answer) /\ mem' = mem /\ accepted' = accepted
  BY DEF DownloadInitiate
<1> HIDE DEF n, answer
<1>6. s \in Servers /\ InObject(s)
  <2> DEFINE b == Begun(Entered)
  <2>1. b \in Servers /\ b.offset = 0 /\ b.obj = Entered.obj
    BY <1>3, BegunType
  <2> HIDE DEF b
  <2>2. s = [b EXCEPT !.len = n, !.tx = answer, !.state = "DOWNLOAD_SEGMENTED"]
    BY DEF b
  <2>3. s \in Servers
    BY <1>2, <2>1, <2>2 DEF Servers, ServerStates
  <2>4. s.offset = 0 /\ s.len = n /\ s.obj = Entered.obj
    BY <2>1, <2>2 DEF Servers
  <2>5. QED
    BY <1>2, <1>4, <2>3, <2>4 DEF InObject
<1>7. Armed(s) \in Servers /\ InObject(Armed(s))
  BY <1>6, ArmedType DEF InObject
<1> HIDE DEF s
<1>8. toServer' \in Seq(Frame) /\ toClient' \in Seq(Frame)
  BY <1>2, <1>5, SendType, IndInvParts
<1>9. QED
  BY <1>5, <1>7, <1>8, ReturnOnly, IndInvParts

LEMMA DownloadExpeditedIndInv ==
  ASSUME IndInv, DownloadExpedited
  PROVE  IndInv'
<1> DEFINE n == srv.rx.size
           answer == [Plain("DOWNLOAD_INITIATE") EXCEPT !.mux = srv.rx.mux]
           s == [Begun(Entered) EXCEPT !.len = n, !.offset = n, !.tx = answer]
           m == [mem EXCEPT ![Itf(s.obj)][s.obj] =
                   Copy(mem[Itf(s.obj)][s.obj], 0, srv.rx.data, n)]
<1>1. srv.rx \in Frame
  BY IndInvParts DEF Servers
<1>2. n \in Nat /\ answer \in Frame /\ srv.rx.data \in Seq(Byte)
  BY <1>1, PlainType DEF Frame, Specifiers
<1>3. Entered \in Servers /\ Entered.state = "DOWNLOAD_INITIATE_RSP"
  BY ReachedType DEF DownloadExpedited
<1>4. Completed(s, m)
  BY DEF DownloadExpedited
<1> HIDE DEF n, answer
<1>5. s \in Servers /\ InObject(s) /\ s.obj \in Objects
  <2>1. Begun(Entered) \in Servers /\ Begun(Entered).state = "DOWNLOAD_INITIATE_RSP"
    BY <1>3, BegunType
  <2>2. QED
    BY <1>2, <2>1 DEF Servers, InObject
<1> HIDE DEF s
<1>6. Memory(m)
  BY <1>2, <1>5, FillType, IndInvParts
<1> HIDE DEF m
<1>7. QED
  BY <1>4, <1>5, <1>6, CompletedType

\* The length of the next segment never leads beyond the transfer's length.
LEMMA SegmentLenType ==
  ASSUME srv \in Servers, srv.offset <= srv.len
  PROVE  SegmentLen(srv) \in Nat /\ srv.offset + SegmentLen(srv) <= srv.len
BY DEF SegmentLen, LastSegment, SegmentBytes, Servers

LEMMA FlipType == ASSUME NEW t \in {0, 1} PROVE Flip(t) \in {0, 1}
BY DEF Flip

LEMMA DownloadSegmentIndInv ==
  ASSUME IndInv, DownloadSegment
  PROVE  IndInv'
<1> DEFINE n == SegmentLen(srv)
           o == srv.obj
           answer == [Plain("DOWNLOAD_SEGMENT") EXCEPT !.t = srv.toggle]
           s == [Entered EXCEPT !.offset = srv.offset + n, !.tx = answer]
           m == [mem EXCEPT ![Itf(o)][o] =
                   Copy(mem[Itf(o)][o], srv.offset, srv.rx.data, n)]
<1>1. srv \in Servers /\ srv.rx \in Frame
  BY IndInvParts DEF Servers
<1>2. /\ o \in Objects /\ srv.offset \in Nat /\ srv.rx.data \in Seq(Byte)
      /\ srv.toggle \in {0, 1}
  BY <1>1 DEF Frame, Servers
<1>3. /\ Entered \in Servers /\ Entered.state = "DOWNLOAD_SEGMENTED"
      /\ Entered.obj = srv.obj /\ Entered.len = srv.len
      /\ srv.state = "DOWNLOAD_SEGMENTED"
  BY ReachedType DEF DownloadSegment
<1>4. srv.offset <= srv.len /\ srv.len <= ObjLen[srv.obj]
  BY <1>3, IndInvParts DEF InObject
<1>5. n \in Nat /\ srv.offset + n <= srv.len
  BY <1>1, <1>4, SegmentLenType
<1>6. answer \in Frame
  BY <1>2, PlainType DEF Frame, Specifiers
<1>7. IF LastSegment(srv)
      THEN Completed(s, m)
      ELSE /\ Return(Armed([s EXCEPT !.toggle = Flip(srv.toggle)]))
           /\ mem' = m
           /\ ServerSend(answer)
           /\ UNCHANGED accepted
  BY DEF DownloadSegment
<1>8. Memory(m)
  BY <1>2, <1>5, FillType, IndInvParts
<1> HIDE DEF n, answer, m
<1>9. s \in Servers /\ InObject(s)
  <2> DEFINE next == srv.offset + n
  <2>1. next \in Nat /\ next <= srv.len
    BY <1>2, <1>5
  <2>2. s = [Entered EXCEPT !.offset = next, !.tx = answer]
    OBVIOUS
  <2> HIDE DEF s, next
  <2>3. s \in Servers /\ s.offset = next /\ s.len = srv.len /\ s.obj = srv.obj
    BY <1>3, <1>6, <2>1, <2>2 DEF Servers
  <2>4. QED
    BY <1>4, <2>1, <2>3 DEF InObject
<1> DEFINE t == [s EXCEPT !.toggle = Flip(srv.toggle)]
<1>10. t \in Servers /\ InObject(t)
  BY <1>2, <1>9, FlipType DEF Servers, InObject
<1> HIDE DEF s
<1>11. Armed(t) \in Servers /\ InObject(Armed(t))
  BY <1>10, ArmedType DEF InObject
<1>12. CASE LastSegment(srv)
  BY <1>7, <1>8, <1>9, <1>12, CompletedType
<1>13. CASE ~LastSegment(srv)
  <2>1. Return(Armed(t)) /\ mem' = m /\ ServerSend(answer) /\ accepted' = accepted
    BY <1>7, <1>13
  <2> HIDE DEF t
  <2>2. toServer' \in Seq(Frame) /\ toClient' \in Seq(Frame)
    BY <1>6, <2>1, SendType, IndInvParts
  <2>3. QED
    BY <1>8, <1>11, <2>1, <2>2, ReturnOnly, IndInvParts
<1>14. QED
  BY <1>12, <1>13

\* confirm_func has answered, or is still at work.
LEMMA ConfirmIndInv ==
  ASSUME IndInv,
         \/ ConfirmPending
         \/ \E a \in {"success", "copy_and_success"} : ConfirmSuccess(a)
         \/ ConfirmThroughNull
  PROVE  IndInv'
<1>1. CASE ConfirmPending
  <2>1. Entered \in Servers /\ InObject(Entered)
    BY <1>1, ReachedType DEF ConfirmPending, Answer, Asked
  <2>2. QED
    BY <1>1, <2>1, ReturnOnly, IndInvParts DEF ConfirmPending, wires
<1>2. ASSUME NEW a \in {"success", "copy_and_success"}, ConfirmSuccess(a)
      PROVE  IndInv'
  <2> DEFINE s == [Entered EXCEPT !.internal = FALSE, !.timer = FALSE, !.state = "IDLE"]
  <2>1. Entered \in Servers
    BY <1>2, ReachedType DEF ConfirmSuccess, Answer, Asked
  <2>2. s \in Servers /\ InObject(s)
    BY <2>1 DEF Servers, ServerStates, InObject
  <2>3. Entered.obj \in Objects /\ srv.len \in Nat /\ srv.tx \in Frame
    BY <2>1, IndInvParts DEF Servers
  <2>4. /\ Return(s) /\ Confirmed(Entered.obj, mem, srv.len) /\ ServerSend(srv.tx)
        /\ mem' = IF a = "copy_and_success" THEN CopyShadow(Entered.obj) ELSE mem
    BY <1>2 DEF ConfirmSuccess
  <2> HIDE DEF s
  <2>5. Memory(mem')
    BY <2>3, <2>4, CopyShadowType, IndInvParts
  <2>6. accepted' \subseteq Download
    BY <2>3, <2>4, ConfirmedType, IndInvParts
  <2>7. toServer' \in Seq(Frame) /\ toClient' \in Seq(Frame)
    BY <2>3, <2>4, SendType, IndInvParts
  <2>8. QED
    BY <2>2, <2>4, <2>5, <2>6, <2>7, ReturnOnly
<1>3. CASE ConfirmThroughNull
  <2>1. Entered \in Servers /\ InObject(Entered)
    BY <1>3, ReachedType DEF ConfirmThroughNull, Asked
  <2>2. srv' = [Entered EXCEPT !.fault = TRUE]
    BY <1>3 DEF ConfirmThroughNull
  <2>3. srv' \in Servers /\ InObject(srv')
    BY <2>1, <2>2 DEF Servers, InObject
  <2>4. QED
    BY <1>3, <2>3, IndInvParts
    DEF ConfirmThroughNull, wires, IndInv, AnyTypeOK, ServerTypeOK, Memory
<1>4. QED
  BY <1>1, <1>2, <1>3

LEMMA UploadInitiateIndInv ==
  ASSUME IndInv, UploadInitiate
  PROVE  IndInv'
<1> DEFINE n == ObjLen[Entered.obj]
           answer == [Plain("UPLOAD_INITIATE") EXCEPT !.mux = srv.rx.mux, !.s = TRUE,
                                                      !.size = n]
           b == Begun(Entered)
           s == [b EXCEPT !.len = n, !.tx = answer, !.state = "UPLOAD_SEGMENTED"]
<1>1. srv.rx \in Frame
  BY IndInvParts DEF Servers
<1>2. Entered \in Servers /\ Entered.obj \in Objects
  BY ReachedType DEF UploadInitiate, Servers
<1>3. n \in Nat
  BY <1>2, ObjLenType
<1>4. b \in Servers /\ b.offset = 0 /\ b.obj = Entered.obj
  BY <1>2, BegunType
<1>5. Return(Armed(s)) /\ ServerSend(answer) /\ mem' = mem /\ accepted' = accepted
  BY DEF UploadInitiate
<1> HIDE DEF b
<1>6. answer \in Frame
  BY <1>1, <1>3, PlainType DEF Frame, Specifiers
<1> HIDE DEF answer
<1>7. s \in Servers /\ s.offset = 0 /\ s.len = n /\ s.obj = Entered.obj
  BY <1>3, <1>4, <1>6 DEF Servers, ServerStates
<1> HIDE DEF s
<1>8. Armed(s) \in Servers /\ InObject(Armed(s))
  BY <1>3, <1>7, ArmedType DEF InObject
<1>9. toServer' \in Seq(Frame) /\ toClient' \in Seq(Frame)
  BY <1>5, <1>6, SendType, IndInvParts
<1>10. QED
  BY <1>5, <1>8, <1>9, ReturnOnly, IndInvParts

LEMMA UploadExpeditedIndInv ==
  ASSUME IndInv, UploadExpedited
  PROVE  IndInv'
<1> DEFINE n == ObjLen[Entered.obj]
           answer == [Plain("UPLOAD_INITIATE") EXCEPT
                        !.mux = srv.rx.mux, !.e = TRUE, !.s = TRUE, !.size = Announced(n),
                        !.data = mem["data"][Entered.obj]]
           b == Begun(Entered)
           s == [b EXCEPT !.len = n, !.offset = n, !.tx = answer, !.state = "IDLE"]
<1>1. srv.rx \in Frame
  BY IndInvParts DEF Servers
<1>2. Entered \in Servers /\ Entered.obj \in Objects
  BY ReachedType DEF UploadExpedited, Servers
<1>3. n \in Nat /\ n <= 4
  BY <1>2, ObjLenType DEF UploadExpedited, ExpeditedBytes
<1>4. b \in Servers
  BY <1>2, BegunType
<1>5. Return(s) /\ ServerSend(answer) /\ mem' = mem /\ accepted' = accepted
  BY DEF UploadExpedited
<1> HIDE DEF b
<1>6. answer \in Frame
  <2>1. mem["data"][Entered.obj] \in Seq(Byte)
    BY <1>2, IndInvParts DEF Memory, Buffers
  <2>2. Announced(n) \in Nat
    BY <1>3 DEF Announced, ExpeditedBytes
  <2> HIDE DEF n
  <2>3. QED
    BY <1>1, <2>1, <2>2, PlainType DEF Frame, Specifiers
<1> HIDE DEF answer
<1>7. s \in Servers /\ s.state = "IDLE"
  BY <1>3, <1>4, <1>6 DEF Servers, ServerStates
<1> HIDE DEF s
<1>8. toServer' \in Seq(Frame) /\ toClient' \in Seq(Frame)
  BY <1>5, <1>6, SendType, IndInvParts
<1>9. QED
  BY <1>5, <1>7, <1>8, ReturnOnly, IndInvParts DEF InObject

LEMMA UploadSegmentIndInv ==
  ASSUME IndInv, UploadSegment
  PROVE  IndInv'
<1> DEFINE n == SegmentLen(srv)
           last == LastSegment(srv)
           answer == [Plain("UPLOAD_SEGMENT") EXCEPT !.t = srv.toggle, !.c = last,
                                                     !.data = Outgoing]
           next == srv.offset + n
           s == [Entered EXCEPT !.offset = next, !.tx = answer,
                                !.toggle = Flip(srv.toggle)]
           done == [s EXCEPT !.state = "IDLE"]
<1>1. srv \in Servers
  BY IndInvParts
<1>2. srv.obj \in Objects /\ srv.offset \in Nat /\ srv.len \in Nat /\ srv.toggle \in {0, 1}
  BY <1>1 DEF Servers
<1>3. /\ Entered \in Servers /\ Entered.state = "UPLOAD_SEGMENTED"
      /\ Entered.obj = srv.obj /\ Entered.len = srv.len
      /\ srv.state = "UPLOAD_SEGMENTED"
  BY ReachedType DEF UploadSegment
<1>4. srv.offset <= srv.len /\ srv.len <= ObjLen[srv.obj]
  BY <1>3, IndInvParts DEF InObject
<1>5. n \in Nat /\ next \in Nat /\ next <= srv.len
  BY <1>1, <1>2, <1>4, SegmentLenType
<1>6. Outgoing \in Seq(Byte)
  <2>1. mem["data"][srv.obj] \in Seq(Byte) /\ Len(mem["data"][srv.obj]) = ObjLen[srv.obj]
    BY <1>2, IndInvParts DEF Memory, Buffers
  <2>2. srv.offset + n <= Len(mem["data"][srv.obj])
    BY <1>2, <1>4, <1>5, <2>1, ObjLenType
  <2>3. QED
    BY <1>2, <1>5, <2>1, <2>2, SliceType DEF Outgoing
<1>7. last \in BOOLEAN
  BY DEF LastSegment
<1>8. /\ Return(IF last THEN done ELSE Armed(s)) /\ ServerSend(answer)
      /\ mem' = mem /\ accepted' = accepted
  BY DEF UploadSegment
<1> HIDE DEF last, n
<1>9. answer \in Frame
  BY <1>2, <1>6, <1>7, PlainType DEF Frame, Specifiers
<1> HIDE DEF answer, next
<1>10. s \in Servers /\ s.offset = next /\ s.len = srv.len /\ s.obj = srv.obj
  BY <1>2, <1>3, <1>5, <1>9, FlipType DEF Servers
<1> HIDE DEF s
<1>11. Armed(s) \in Servers /\ InObject(Armed(s))
  BY <1>4, <1>5, <1>10, ArmedType DEF InObject
<1>12. done \in Servers /\ InObject(done)
  BY <1>10 DEF Servers, ServerStates, InObject
<1> HIDE DEF done
<1>13. toServer' \in Seq(Frame) /\ toClient' \in Seq(Frame)
  BY <1>8, <1>9, SendType, IndInvParts
<1>14. QED
  BY <1>8, <1>11, <1>12, <1>13, ReturnOnly, IndInvParts

\* Every way a call of CO_SDOserver_process can go.
LEMMA ServerIndInv ==
  ASSUME IndInv, ServerProcess
  PROVE  IndInv'
<1>1. CASE ServerTimeout \/ ServerNothing
  BY <1>1, SilentIndInv
<1>2. CASE ServerStep
  BY <1>2, SilentIndInv, RefusalIndInv, DownloadInitiateIndInv,
     DownloadExpeditedIndInv, DownloadSegmentIndInv, ConfirmIndInv,
     UploadInitiateIndInv, UploadExpeditedIndInv, UploadSegmentIndInv
  DEF ServerStep
<1>3. QED
  BY <1>1, <1>2 DEF ServerProcess

----------------------------------------------------------------------------
(* The theorems.                                                            *)

LEMMA StutterIndInv == ASSUME IndInv, UNCHANGED anyVars PROVE IndInv'
BY DEF anyVars, serverVars, wires, IndInv, AnyTypeOK, ServerTypeOK, Memory, InObject

\* The invariant holds in every state, whatever frames arrive and in whatever
\* order: CO_SDOserver_process and the reception into its slot preserve it.
THEOREM IndInvHolds == AnySpec => []IndInv
<1>1. IndInv /\ [AnyNext]_anyVars => IndInv'
  <2> SUFFICES ASSUME IndInv, [AnyNext]_anyVars PROVE IndInv'
    OBVIOUS
  <2>1. CASE AnyRequest
    BY <2>1, ReceiveIndInv
  <2>2. CASE ServerProcess
    BY <2>2, ServerIndInv
  <2>3. CASE UNCHANGED anyVars
    BY <2>3, StutterIndInv
  <2>4. QED
    BY <2>1, <2>2, <2>3 DEF AnyNext
<1>2. QED
  BY <1>1, InitIndInv, PTL DEF AnySpec

\* The record of the server (CO_SDO), its buffers and its answers are always
\* of their types.
THEOREM TypeCorrect == AnySpec => []AnyTypeOK
BY IndInvHolds, PTL DEF IndInv

\* No sequence of frames makes a segmented transfer of CO_SDOserver.c touch a
\* byte beyond its sub-object.
THEOREM TransferSafety == AnySpec => []TransferInObject
<1>1. IndInv => TransferInObject
  BY DEF IndInv, InObject, TransferInObject
<1>2. QED
  BY <1>1, IndInvHolds, PTL

----------------------------------------------------------------------------
(* The pair: hypotheses.                                                     *)

\* Applications that read and write whole objects.
WholeObjects == \A o \in Objects : ClientLens[o] \subseteq {ObjLen[o]}

----------------------------------------------------------------------------
(* The inductive invariant: the transfer is handed from one side to the      *)
(* other, and whoever has it knows how far it has come.                      *)

\* The client has sent a request and waits for the answer.
Waiting == cli.state \in {"DOWNLOAD_INITIATE_RSP", "DOWNLOAD_SEGMENTED",
                          "UPLOAD_INITIATE_RSP", "UPLOAD_SEGMENTED"}

\* The transfer is in one place: on a wire, in a slot, or with the extension.
OnePlace ==
  /\ Len(toServer) <= 1 /\ Len(toClient) <= 1
  /\ toServer # <<>> => toClient = <<>> /\ ~srv.new /\ ~srv.internal /\ ~cli.new
  /\ toClient # <<>> => ~srv.new /\ ~srv.internal /\ ~cli.new
  /\ srv.new => ~srv.internal /\ ~cli.new
  /\ srv.internal => ~cli.new
  /\ ~Waiting => NothingUnderWay

\* What the client knows of its transfer.
ClientFits(c) ==
  /\ c.internal <=> c.state \in {"DOWNLOAD_INITIATE_REQ", "UPLOAD_INITIATE_REQ"}
  /\ c.status = "busy" <=> c.state # "IDLE"
  /\ c.state # "IDLE" => /\ c.id > 0
                         /\ c.size \in ClientLens[c.mux]
                         /\ Len(c.buf) = c.size
                         /\ ~c.upload => c.buf = Payload(c.id, c.size)
  /\ c.state \in {"DOWNLOAD_INITIATE_REQ", "DOWNLOAD_INITIATE_RSP", "DOWNLOAD_SEGMENTED"}
       => ~c.upload
  /\ c.state \in {"UPLOAD_INITIATE_REQ", "UPLOAD_INITIATE_RSP", "UPLOAD_SEGMENTED"}
       => c.upload
  /\ c.state \in {"DOWNLOAD_INITIATE_RSP", "UPLOAD_INITIATE_RSP"}
       => c.toggle = 0 /\ c.offset = 0
  /\ c.state \in {"DOWNLOAD_INITIATE_RSP", "DOWNLOAD_SEGMENTED"} => c.len = c.size
  /\ c.state = "DOWNLOAD_SEGMENTED" =>
       c.mux \in Objects /\ c.len > ExpeditedBytes /\ c.offset <= c.len
  /\ c.state = "UPLOAD_SEGMENTED" =>
       c.mux \in Objects /\ c.len = c.size /\ c.offset < c.len

\* An upload has read the object as it is, as far as it has come.
ReadSoFar ==
  cli.state = "UPLOAD_SEGMENTED" =>
    \A k \in 1..cli.offset : cli.buf[k] = mem["data"][cli.mux][k]

\* The server between two calls.
ServerSound ==
  /\ ~srv.fault
  /\ ~srv.internal => srv.state \in {"IDLE", "DOWNLOAD_SEGMENTED", "UPLOAD_SEGMENTED"}

\* The first n bytes of the client's download are in the server's buffer.
Filled(n) == \A k \in 1..n : mem[Itf(cli.mux)][cli.mux][k] = <<cli.id, k>>

\* The server has come as far as off in the client's transfer, or has given
\* it up.
ServerAt(st, off, t) ==
  \/ srv.state = "IDLE"
  \/ /\ srv.state = st /\ srv.obj = cli.mux /\ srv.len = cli.size
     /\ srv.offset = off /\ srv.toggle = t

\* The request the client has sent and waits for the answer to.
Asks(f) ==
  /\ cli.state = "DOWNLOAD_INITIATE_RSP" =>
       /\ f.cs = "DOWNLOAD_INITIATE" /\ f.mux = cli.mux /\ f.s
       /\ f.e <=> cli.size <= ExpeditedBytes
       /\ f.size = IF f.e THEN Announced(cli.size) ELSE cli.size
       /\ f.e => f.data = Payload(cli.id, cli.size)
  /\ cli.state = "UPLOAD_INITIATE_RSP" => f.cs = "UPLOAD_INITIATE" /\ f.mux = cli.mux
  /\ cli.state = "DOWNLOAD_SEGMENTED" => \E off \in Nat :
       /\ f.cs = "DOWNLOAD_SEGMENT" /\ f.t = cli.toggle
       /\ off < cli.size
       /\ cli.offset = off + SegmentSize(off)
       /\ f.c <=> cli.size <= off + SegmentBytes
       /\ f.data = NextBytes(off)
       /\ ServerAt("DOWNLOAD_SEGMENTED", off, cli.toggle)
       /\ Filled(off)
  /\ cli.state = "UPLOAD_SEGMENTED" =>
       /\ f.cs = "UPLOAD_SEGMENT" /\ f.t = cli.toggle
       /\ ServerAt("UPLOAD_SEGMENTED", cli.offset, cli.toggle)

\* The client's download is confirmed.
Stored == [obj |-> cli.mux, data |-> Payload(cli.id, cli.size)] \in accepted

\* An answer the client waits for: a refusal, or the one to its request.
Replies(f) ==
  \/ f.cs = "ABORT"
  \/ /\ cli.state = "DOWNLOAD_INITIATE_RSP"
     /\ f.cs = "DOWNLOAD_INITIATE" /\ f.mux = cli.mux /\ cli.mux \in Objects
     /\ IF cli.size <= ExpeditedBytes THEN cli.size # 0 /\ Stored
        ELSE ServerAt("DOWNLOAD_SEGMENTED", 0, 0)
  \/ /\ cli.state = "DOWNLOAD_SEGMENTED"
     /\ f.cs = "DOWNLOAD_SEGMENT" /\ f.t = cli.toggle
     /\ IF cli.size <= cli.offset THEN Stored
        ELSE /\ ServerAt("DOWNLOAD_SEGMENTED", cli.offset, Flip(cli.toggle))
             /\ Filled(cli.offset)
  \/ /\ cli.state = "UPLOAD_INITIATE_RSP"
     /\ f.cs = "UPLOAD_INITIATE" /\ f.mux = cli.mux /\ cli.mux \in Objects /\ f.s
     /\ f.e <=> cli.size <= ExpeditedBytes
     /\ IF f.e THEN f.size = Announced(cli.size) /\ f.data = mem["data"][cli.mux]
        ELSE f.size = cli.size /\ ServerAt("UPLOAD_SEGMENTED", 0, 0)
  \/ /\ cli.state = "UPLOAD_SEGMENTED"
     /\ f.cs = "UPLOAD_SEGMENT" /\ f.t = cli.toggle
     /\ f.c <=> LastToCome
     /\ f.data = Slice(mem["data"][cli.mux], cli.offset,
                       Smaller(cli.len - cli.offset, SegmentBytes))
     /\ ~f.c => ServerAt("UPLOAD_SEGMENTED", cli.offset + SegmentBytes, Flip(cli.toggle))

\* The extension has the whole download and has not answered yet.
Confirming ==
  /\ cli.mux \in Ext /\ srv.obj = cli.mux /\ srv.len = cli.size
  /\ Filled(cli.size)
  /\ \/ /\ cli.state = "DOWNLOAD_INITIATE_RSP" /\ srv.state = "DOWNLOAD_INITIATE_RSP"
        /\ cli.size \in 1..ExpeditedBytes
        /\ srv.tx.cs = "DOWNLOAD_INITIATE" /\ srv.tx.mux = cli.mux
     \/ /\ cli.state = "DOWNLOAD_SEGMENTED" /\ srv.state = "DOWNLOAD_SEGMENTED"
        /\ cli.size <= cli.offset
        /\ srv.tx.cs = "DOWNLOAD_SEGMENT" /\ srv.tx.t = cli.toggle

\* Wherever the transfer is, it is there as the client expects it.
Handed ==
  /\ toServer # <<>> => Asks(Head(toServer))
  /\ srv.new => Asks(srv.rx)
  /\ srv.internal => Confirming
  /\ toClient # <<>> => Replies(Head(toClient))
  /\ cli.new => Replies(cli.rx)

PairInv ==
  /\ TypeOK /\ IndInv
  /\ OnePlace /\ ClientFits(cli) /\ ReadSoFar /\ ServerSound /\ Handed
  /\ DownloadSuccessIsStored /\ AcceptedIsOneTransfer /\ UploadSuccessIsCurrent

----------------------------------------------------------------------------
(* Frames and bytes.                                                         *)

\* What a wire of one frame looks like, and what is left when it is gone.
LEMMA OneFrame ==
  ASSUME NEW w \in Seq(Frame), Len(w) <= 1, w # <<>>
  PROVE  Head(w) \in Frame /\ Tail(w) = <<>>
<1>1. Head(w) \in Frame /\ Tail(w) \in Seq(Frame) /\ Len(Tail(w)) = Len(w) - 1
  BY HeadTailProperties
<1>2. Len(Tail(w)) = 0
  BY <1>1, LenProperties, EmptySeq
<1>3. QED
  BY <1>1, <1>2, EmptySeq

\* Sending on an empty wire leaves the frame that is sent.
LEMMA Sent ==
  ASSUME NEW f \in Frame
  PROVE  /\ Append(<<>>, f) \in Seq(Frame) /\ Len(Append(<<>>, f)) = 1
         /\ Append(<<>>, f) # <<>> /\ Head(Append(<<>>, f)) = f
<1>1. <<>> \in Seq(Frame) /\ Len(<<>>) = 0
  BY EmptySeq
<1>2. QED
  BY <1>1, AppendProperties, HeadTailAppend

\* The bytes of a download are a sequence of as many bytes as it has.
LEMMA PayloadType ==
  ASSUME NEW i \in Nat, NEW n \in Nat
  PROVE  /\ Payload(i, n) \in Seq(Byte) /\ Len(Payload(i, n)) = n
         /\ \A k \in 1..n : Payload(i, n)[k] = <<i, k>>
<1>1. \A k \in 1..n : <<i, k>> \in Byte
  BY DEF Byte
<1>2. QED
  BY <1>1 DEF Payload

\* The bytes of a slice.
LEMMA SliceBytes ==
  ASSUME NEW b \in Seq(Byte), NEW off \in Nat, NEW n \in Nat, off + n <= Len(b)
  PROVE  /\ Slice(b, off, n) \in Seq(Byte) /\ Len(Slice(b, off, n)) = n
         /\ \A k \in 1..n : Slice(b, off, n)[k] = b[off + k]
<1>1. \A k \in off + 1 .. off + n : b[k] \in Byte
  OBVIOUS
<1>2. off + 1 \in Int /\ off + n \in Int
  OBVIOUS
<1>3. /\ Len(SubSeq(b, off + 1, off + n)) = IF off + 1 <= off + n THEN off + n - (off + 1) + 1 ELSE 0
      /\ \A k \in 1 .. off + n - (off + 1) + 1 :
           SubSeq(b, off + 1, off + n)[k] = b[off + 1 + k - 1]
  BY <1>1, <1>2, SubSeqProperties
<1>4. QED
  BY <1>3, SliceType DEF Slice

\* A sequence that is equal to a download, byte by byte.
LEMMA IsPayload ==
  ASSUME NEW i \in Nat, NEW b \in Seq(Byte), \A k \in 1..Len(b) : b[k] = <<i, k>>
  PROVE  b = Payload(i, Len(b))
<1>1. Len(b) \in Nat
  BY LenProperties
<1> DEFINE p == Payload(i, Len(b))
<1>2. /\ p \in Seq(Byte) /\ Len(p) = Len(b)
      /\ \A k \in 1..Len(b) : p[k] = <<i, k>>
  BY <1>1, PayloadType
<1> HIDE DEF p
<1>3. b = p
  BY <1>2, SeqEqual
<1>4. QED
  BY <1>3 DEF p

\* What is copied into a buffer from offset off on, and what stays.
LEMMA CopyBytes ==
  ASSUME NEW b \in Seq(Byte), NEW off \in Nat, NEW d \in Seq(Byte), NEW n \in Nat,
         Len(d) = n, off + n <= Len(b)
  PROVE  /\ \A k \in 1..n : Copy(b, off, d, n)[off + k] = d[k]
         /\ \A k \in 1..off : Copy(b, off, d, n)[k] = b[k]
<1>1. DOMAIN b = 1..Len(b) /\ Len(b) \in Nat
  OBVIOUS
<1>2. ASSUME NEW k \in 1..n PROVE Copy(b, off, d, n)[off + k] = d[k]
  <2>1. off + k \in DOMAIN b /\ off + k - off = k /\ k <= Len(d)
    BY <1>1
  <2>2. QED
    BY <2>1 DEF Copy
<1>3. ASSUME NEW k \in 1..off PROVE Copy(b, off, d, n)[k] = b[k]
  <2>1. k \in DOMAIN b /\ k - off \notin 1..n
    BY <1>1
  <2>2. QED
    BY <2>1 DEF Copy
<1>4. QED
  BY <1>2, <1>3

\* A buffer that agrees with v up to off agrees with it up to off + n once the
\* next n bytes of v have been copied into it.
LEMMA CopyAgrees ==
  ASSUME NEW b \in Seq(Byte), NEW v \in Seq(Byte), NEW off \in Nat, NEW n \in Nat,
         off + n <= Len(b), off + n <= Len(v),
         \A k \in 1..off : b[k] = v[k]
  PROVE  \A k \in 1..off + n : Copy(b, off, Slice(v, off, n), n)[k] = v[k]
<1>1. PICK d : d = Slice(v, off, n)
  OBVIOUS
<1>2. d \in Seq(Byte) /\ Len(d) = n /\ \A k \in 1..n : d[k] = v[off + k]
  BY <1>1, SliceBytes
<1>3. /\ \A k \in 1..n : Copy(b, off, d, n)[off + k] = d[k]
      /\ \A k \in 1..off : Copy(b, off, d, n)[k] = b[k]
  BY <1>2, CopyBytes
<1>4. PICK c : c = Copy(b, off, d, n)
  OBVIOUS
<1>5. /\ \A k \in 1..n : c[off + k] = v[off + k]
      /\ \A k \in 1..off : c[k] = v[k]
  BY <1>2, <1>3, <1>4
<1>6. ASSUME NEW k \in 1..off + n PROVE c[k] = v[k]
  <2>1. CASE k <= off
    BY <1>5, <2>1
  <2>2. CASE k > off
    <3>1. k - off \in 1..n /\ off + (k - off) = k
      BY <2>2
    <3>2. QED
      BY <1>5, <3>1
  <2>3. QED
    BY <2>1, <2>2
<1>7. QED
  BY <1>1, <1>4, <1>6

\* A buffer that agrees with v to the end is v.
LEMMA AgreesToTheEnd ==
  ASSUME NEW b \in Seq(Byte), NEW v \in Seq(Byte), NEW n \in Nat,
         Len(b) = n, Len(v) = n, \A k \in 1..n : b[k] = v[k]
  PROVE  b = v /\ SubSeq(b, 1, n) = v
<1>1. b = v
  BY SeqEqual
<1>2. 0 \in Nat /\ 0 + n <= Len(b)
  OBVIOUS
<1>3. /\ Slice(b, 0, n) \in Seq(Byte) /\ Len(Slice(b, 0, n)) = n
      /\ \A k \in 1..n : Slice(b, 0, n)[k] = b[0 + k]
  BY <1>2, SliceBytes
<1>4. Slice(b, 0, n) = v
  BY <1>3, SeqEqual
<1>5. 0 + 1 = 1 /\ 0 + n = n
  OBVIOUS
<1>6. QED
  BY <1>1, <1>4, <1>5 DEF Slice

\* The length field of an expedited frame gives the length back, for 1 to 4 bytes:
\* what CO_SDOclient_download_initiate_request_handle writes the server reads.
LEMMA AnnouncedIsSize ==
  ASSUME NEW n \in 0..4
  PROVE  Announced(n) \in 1..4 /\ (n > 0 => Announced(n) = n) /\ (n = 0 => Announced(n) = 4)
BY DEF Announced, ExpeditedBytes

----------------------------------------------------------------------------
(* What the client's moves have in common.                                   *)

\* The parts of the invariant that the lemmas below refer to.
LEMMA PairParts ==
  PairInv <=>
    /\ cli \in Clients /\ losses \in Nat /\ IndInv
    /\ OnePlace /\ ClientFits(cli) /\ ReadSoFar /\ ServerSound /\ Handed
    /\ DownloadSuccessIsStored /\ AcceptedIsOneTransfer /\ UploadSuccessIsCurrent
BY DEF PairInv, TypeOK, ClientTypeOK, IndInv, AnyTypeOK

\* The length of a client's transfer: that of the object, if there is one.
LEMMA SizeOfTransfer ==
  ASSUME WholeObjects, NEW c \in Clients, ClientFits(c), c.state # "IDLE"
  PROVE  /\ c.size \in Nat /\ TransLen(c.size) = c.size
         /\ c.mux \in Objects => c.size = ObjLen[c.mux]
<1>1. c.size \in ClientLens[c.mux] /\ c.mux \in Muxes
  BY DEF ClientFits, Clients
<1>2. c.size \in Nat /\ c.size < 65536
  BY <1>1, ClientAssumption
<1>3. c.mux \in Objects => c.size = ObjLen[c.mux]
  BY <1>1 DEF WholeObjects
<1>4. TransLen(c.size) = c.size
  BY <1>2 DEF TransLen
<1>5. QED
  BY <1>2, <1>3, <1>4

\* What a transfer that ends leaves of the client's record.
LEMMA EndedFacts ==
  ASSUME NEW s \in Clients, NEW st \in {"abort", "success"}
  PROVE  /\ Ended(s, st) \in Clients
         /\ Ended(s, st).state = "IDLE" /\ Ended(s, st).status = st
         /\ ~Ended(s, st).new /\ Ended(s, st).internal = s.internal
         /\ Ended(s, st).id = s.id /\ Ended(s, st).mux = s.mux
         /\ Ended(s, st).upload = s.upload /\ Ended(s, st).size = s.size
         /\ Ended(s, st).len = s.len /\ Ended(s, st).buf = s.buf
BY DEF Ended, Clients, ClientStates

\* CO_SDO_abort, on the client's side.
LEMMA ClientAbortedFacts ==
  ASSUME cli \in Clients
  PROVE  /\ ClientAborted \in Clients
         /\ ClientAborted.state = "IDLE" /\ ClientAborted.status = "abort"
         /\ ~ClientAborted.new /\ ~ClientAborted.internal /\ ClientAborted.id = cli.id
<1>1. Ended(cli, "abort") \in Clients
  BY EndedFacts
<1>2. QED
  BY <1>1, EndedFacts DEF ClientAborted, Clients

\* The call that sends a request, and what it leaves.
LEMMA AwaitFacts ==
  ASSUME NEW s \in Clients, NEW f \in Frame, Await(s, f), toServer = <<>>
  PROVE  /\ cli' = [s EXCEPT !.status = "busy", !.new = FALSE, !.timer = TRUE]
         /\ cli' \in Clients
         /\ cli'.status = "busy" /\ ~cli'.new
         /\ cli'.state = s.state /\ cli'.internal = s.internal
         /\ cli'.id = s.id /\ cli'.mux = s.mux /\ cli'.upload = s.upload
         /\ cli'.size = s.size /\ cli'.len = s.len /\ cli'.buf = s.buf
         /\ cli'.toggle = s.toggle /\ cli'.offset = s.offset
         /\ toServer' \in Seq(Frame) /\ Len(toServer') = 1 /\ Head(toServer') = f
         /\ toServer' # <<>> /\ toClient' = toClient
<1>1. cli' = [s EXCEPT !.status = "busy", !.new = FALSE, !.timer = TRUE]
      /\ toServer' = Append(<<>>, f) /\ toClient' = toClient
  BY DEF Await, ClientSend
<1>2. QED
  BY <1>1, Sent DEF Clients

\* The server, its buffers and the history are as they were.
LEMMA ServerStays ==
  ASSUME IndInv, UNCHANGED serverVars, toServer' \in Seq(Frame), toClient' \in Seq(Frame)
  PROVE  IndInv'
BY DEF serverVars, IndInv, AnyTypeOK, ServerTypeOK, Memory, InObject

\* While the client has its turn nothing else is under way.
LEMMA ClientTurn ==
  ASSUME PairInv, cli.new \/ cli.state \in {"IDLE", "DOWNLOAD_INITIATE_REQ", "UPLOAD_INITIATE_REQ"}
  PROVE  toServer = <<>> /\ toClient = <<>> /\ ~srv.new /\ ~srv.internal
BY PairParts DEF OnePlace, Waiting, NothingUnderWay, NothingOnTheBus, wires

\* The client's turn ends with a request on the wire.
LEMMA ClientAsks ==
  ASSUME PairInv, cli' \in Clients, ClientFits(cli'), Waiting', ~cli'.new,
         cli'.id = cli.id, ReadSoFar',
         toServer' \in Seq(Frame), Len(toServer') = 1, Asks(Head(toServer))',
         toClient = <<>>, toClient' = <<>>, ~srv.new, ~srv.internal,
         UNCHANGED <<serverVars, losses>>
  PROVE  PairInv'
<1>1. IndInv' /\ losses' \in Nat
  BY ServerStays, PairParts, EmptySeq
<1>2. OnePlace'
  BY EmptySeq DEF OnePlace, serverVars
<1>3. ServerSound'
  BY PairParts DEF ServerSound, serverVars
<1>4. Handed'
  BY DEF Handed, serverVars
<1>5. cli'.status = "busy"
  BY DEF ClientFits, Waiting
<1>6. AcceptedIsOneTransfer'
  BY PairParts DEF AcceptedIsOneTransfer, serverVars
<1>7. DownloadSuccessIsStored' /\ UploadSuccessIsCurrent'
  BY <1>5 DEF DownloadSuccessIsStored, UploadSuccessIsCurrent
<1>8. QED
  BY <1>1, <1>2, <1>3, <1>4, <1>6, <1>7, PairParts
  DEF PairInv, TypeOK, ClientTypeOK, IndInv, AnyTypeOK

\* The client's turn ends the transfer.
LEMMA ClientIsDone ==
  ASSUME PairInv, cli' \in Clients, cli'.state = "IDLE", ~cli'.new, ~cli'.internal,
         cli'.status \in {"abort", "success"}, cli'.id = cli.id,
         toServer = <<>>, toClient = <<>>, ~srv.new, ~srv.internal,
         UNCHANGED <<serverVars, wires, losses>>,
         cli'.status = "success" =>
           DownloadSuccessIsStored' /\ UploadSuccessIsCurrent'
  PROVE  PairInv'
<1>1. IndInv' /\ losses' \in Nat
  BY ServerStays, PairParts, EmptySeq DEF wires
<1>2. OnePlace'
  BY EmptySeq DEF OnePlace, serverVars, wires, NothingUnderWay, NothingOnTheBus
<1>3. ServerSound'
  BY PairParts DEF ServerSound, serverVars
<1>4. Handed'
  BY DEF Handed, serverVars, wires
<1>5. ClientFits(cli') /\ ReadSoFar'
  BY DEF ClientFits, ReadSoFar
<1>6. AcceptedIsOneTransfer'
  BY PairParts DEF AcceptedIsOneTransfer, serverVars
<1>7. DownloadSuccessIsStored' /\ UploadSuccessIsCurrent'
  BY DEF DownloadSuccessIsStored, UploadSuccessIsCurrent
<1>8. QED
  BY <1>1, <1>2, <1>3, <1>4, <1>5, <1>6, <1>7
  DEF PairInv, TypeOK, ClientTypeOK, IndInv, AnyTypeOK

----------------------------------------------------------------------------
(* The client's actions.                                                     *)

\* Nothing is under way when both sides are initialised.
LEMMA PairInit ==
  ASSUME Init
  PROVE  PairInv
<1>1. IndInv
  BY InitIndInv DEF Init, AnyInit
<1>2. /\ cli.state = "IDLE" /\ cli.status = "idle" /\ ~cli.new /\ ~cli.internal
      /\ cli \in Clients /\ losses \in Nat
  <2>1. <<>> \in Seq(Byte)
    BY EmptySeq
  <2>2. cli = [state |-> "IDLE", status |-> "idle", rx |-> AbortFrame, new |-> FALSE,
               timer |-> FALSE, internal |-> FALSE, offset |-> 0, len |-> 0, toggle |-> 0,
               id |-> 0, mux |-> Unknown, upload |-> FALSE, size |-> 0, buf |-> <<>>]
    BY DEF Init, ClientInit
  <2>3. cli \in Clients
    BY <2>1, <2>2, AbortFrameType DEF Clients, ClientStates, Muxes
  <2>4. losses \in Nat
    BY DEF Init
  <2>5. QED
    BY <2>2, <2>3, <2>4
<1>3. /\ toServer = <<>> /\ toClient = <<>> /\ accepted = {}
      /\ ~srv.new /\ ~srv.internal /\ ~srv.fault /\ srv.state = "IDLE"
  BY DEF Init, ServerInit
<1>4. OnePlace /\ Handed
  BY <1>2, <1>3, EmptySeq DEF OnePlace, Handed, NothingUnderWay, NothingOnTheBus, wires
<1>5. ClientFits(cli) /\ ReadSoFar /\ ServerSound
  BY <1>2, <1>3 DEF ClientFits, ReadSoFar, ServerSound
<1>6. DownloadSuccessIsStored /\ AcceptedIsOneTransfer /\ UploadSuccessIsCurrent
  BY <1>2, <1>3 DEF DownloadSuccessIsStored, AcceptedIsOneTransfer, UploadSuccessIsCurrent
<1>7. QED
  BY <1>1, <1>2, <1>4, <1>5, <1>6, PairParts

\* A new transfer: nothing of the one before is under way.
LEMMA RequestPair ==
  ASSUME PairInv, Request
  PROVE  PairInv'
<1>1. PICK up \in BOOLEAN, m \in Muxes : \E n \in ClientLens[m] : Start(up, m, n)
  BY DEF Request
<1>2. PICK n \in ClientLens[m] : Start(up, m, n)
  BY <1>1
<1>3. n \in Nat
  BY ClientAssumption
<1>4. cli \in Clients /\ cli.state = "IDLE" /\ cli.id \in Nat
  BY <1>2, PairParts DEF Start, Clients
<1>5. toServer = <<>> /\ toClient = <<>> /\ ~srv.new /\ ~srv.internal /\ ~cli.new
  BY <1>4, PairParts DEF OnePlace, Waiting, NothingUnderWay, NothingOnTheBus, wires
<1>6. PICK buf : buf = IF up THEN [k \in 1..n |-> Stray] ELSE Payload(cli.id + 1, n)
  OBVIOUS
<1>7. buf \in Seq(Byte) /\ Len(buf) = n /\ (~up => buf = Payload(cli.id + 1, n))
  <2>1. CASE up
    <3>1. [k \in 1..n |-> Stray] \in Seq(Byte) /\ Len([k \in 1..n |-> Stray]) = n
      BY <1>3, StrayType
    <3>2. QED
      BY <1>6, <2>1, <3>1
  <2>2. CASE ~up
    BY <1>3, <1>4, <1>6, <2>2, PayloadType
  <2>3. QED
    BY <2>1, <2>2
<1>8. cli' = [cli EXCEPT
        !.status = "busy", !.internal = TRUE,
        !.state = IF up THEN "UPLOAD_INITIATE_REQ" ELSE "DOWNLOAD_INITIATE_REQ",
        !.id = @ + 1, !.mux = m, !.upload = up, !.size = n, !.buf = buf]
  BY <1>2, <1>6 DEF Start
<1>9. /\ cli' \in Clients /\ cli'.id = cli.id + 1 /\ ~cli'.new /\ cli'.internal
      /\ cli'.status = "busy" /\ cli'.mux = m /\ cli'.upload = up /\ cli'.size = n
      /\ cli'.buf = buf
      /\ cli'.state = IF up THEN "UPLOAD_INITIATE_REQ" ELSE "DOWNLOAD_INITIATE_REQ"
  <2>1. PICK st : st = IF up THEN "UPLOAD_INITIATE_REQ" ELSE "DOWNLOAD_INITIATE_REQ"
    OBVIOUS
  <2>2. st \in ClientStates /\ cli.id + 1 \in Nat
    BY <1>4, <2>1 DEF ClientStates
  <2>3. cli' = [cli EXCEPT !.status = "busy", !.internal = TRUE, !.state = st,
                           !.id = cli.id + 1, !.mux = m, !.upload = up, !.size = n,
                           !.buf = buf]
    BY <1>8, <2>1
  <2>4. QED
    BY <1>3, <1>4, <1>5, <1>7, <2>1, <2>2, <2>3 DEF Clients
<1>10. UNCHANGED <<serverVars, losses, wires>>
  BY <1>2 DEF Request, Start
<1>11. IndInv' /\ losses' \in Nat
  BY <1>5, <1>10, ServerStays, PairParts, EmptySeq DEF wires
<1>12. OnePlace' /\ Handed' /\ ServerSound'
  BY <1>5, <1>9, <1>10, PairParts, EmptySeq
  DEF OnePlace, Handed, ServerSound, serverVars, wires, NothingUnderWay, NothingOnTheBus
<1>13. ClientFits(cli')
  BY <1>4, <1>7, <1>9 DEF ClientFits
<1>14. AcceptedIsOneTransfer'
  <2>1. \A i \in 1..cli.id : i \in 1..cli'.id
    BY <1>4, <1>9
  <2>2. accepted' = accepted
    BY <1>10 DEF serverVars
  <2>3. QED
    BY <2>1, <2>2, PairParts DEF AcceptedIsOneTransfer
<1>15. ReadSoFar' /\ DownloadSuccessIsStored' /\ UploadSuccessIsCurrent'
  BY <1>9 DEF ReadSoFar, DownloadSuccessIsStored, UploadSuccessIsCurrent
<1>16. QED
  BY <1>9, <1>11, <1>12, <1>13, <1>14, <1>15
  DEF PairInv, TypeOK, ClientTypeOK, IndInv, AnyTypeOK

\* The client gives up, or is told to: the patient one never while the server
\* may still answer.
LEMMA ClientGivesUpPair ==
  ASSUME PairInv, Patient, Overdue \/ (ServerAbort /\ UNCHANGED <<serverVars, losses>>)
  PROVE  PairInv'
<1>1. cli \in Clients /\ ClientFits(cli)
  BY PairParts
<1>2. CASE Overdue
  <2>1. toServer = <<>> /\ toClient = <<>> /\ ~srv.new /\ ~srv.internal
    BY <1>2 DEF Overdue, NothingUnderWay, NothingOnTheBus, wires
  <2>2. cli' = ClientAborted /\ UNCHANGED <<serverVars, wires, losses>>
    BY <1>2 DEF Overdue, ClientTimeout
  <2>3. QED
    BY <1>1, <2>1, <2>2, ClientAbortedFacts, ClientIsDone
<1>3. CASE ServerAbort /\ UNCHANGED <<serverVars, losses>>
  <2>1. cli.new /\ cli.state # "IDLE" /\ cli' = Ended(cli, "abort")
        /\ UNCHANGED <<serverVars, wires, losses>>
    BY <1>3 DEF ServerAbort
  <2>2. toServer = <<>> /\ toClient = <<>> /\ ~srv.new /\ ~srv.internal
    BY <2>1, ClientTurn
  <2>3. ~cli.internal
    BY <1>1, <2>1, PairParts DEF OnePlace, Waiting, NothingUnderWay, NothingOnTheBus, ClientFits
  <2>4. QED
    BY <1>1, <2>1, <2>2, <2>3, EndedFacts, ClientIsDone
<1>4. QED
  BY <1>2, <1>3

\* CO_SDOclient_download_initiate_request_handle: the request of a download.
LEMMA RequestDownloadPair ==
  ASSUME PairInv, WholeObjects, RequestDownload, UNCHANGED <<serverVars, losses>>
  PROVE  PairInv'
<1>1. cli \in Clients /\ ClientFits(cli) /\ cli.state = "DOWNLOAD_INITIATE_REQ"
  BY PairParts DEF RequestDownload, ClientAt
<1>2. toServer = <<>> /\ toClient = <<>> /\ ~srv.new /\ ~srv.internal
  BY <1>1, ClientTurn
<1>3. /\ cli.size \in Nat /\ cli.id \in Nat /\ ~cli.upload
      /\ cli.buf = Payload(cli.id, cli.size) /\ Len(cli.buf) = cli.size
      /\ cli.size \in ClientLens[cli.mux]
  BY <1>1 DEF ClientFits, Clients
<1> DEFINE short == cli.size <= ExpeditedBytes
<1>4. PICK f : f = [Plain("DOWNLOAD_INITIATE") EXCEPT
                      !.mux = cli.mux, !.e = short, !.s = TRUE,
                      !.size = IF short THEN Announced(cli.size) ELSE cli.size,
                      !.data = IF short THEN cli.buf ELSE <<>>]
  OBVIOUS
<1>5. /\ f \in Frame /\ f.cs = "DOWNLOAD_INITIATE" /\ f.mux = cli.mux /\ f.s
      /\ f.e <=> short
      /\ f.size = IF short THEN Announced(cli.size) ELSE cli.size
      /\ short => f.data = cli.buf
  <2>1. Plain("DOWNLOAD_INITIATE") \in Frame /\ Plain("DOWNLOAD_INITIATE").cs = "DOWNLOAD_INITIATE"
    BY PlainType DEF Plain, Specifiers
  <2>2. PICK n : n = IF short THEN Announced(cli.size) ELSE cli.size
    OBVIOUS
  <2>3. n \in Nat
    BY <1>3, <2>2, AnnouncedIsSize DEF ExpeditedBytes
  <2>4. PICK d : d = IF short THEN cli.buf ELSE <<>>
    OBVIOUS
  <2>5. d \in Seq(Byte)
    BY <1>1, <2>4, EmptySeq DEF Clients
  <2>6. PICK e : e = short
    OBVIOUS
  <2>7. e \in BOOLEAN
    BY <2>6
  <2>8. f = [Plain("DOWNLOAD_INITIATE") EXCEPT !.mux = cli.mux, !.e = e, !.s = TRUE,
                                               !.size = n, !.data = d]
    BY <1>4, <2>2, <2>4, <2>6
  <2>9. f \in Frame /\ f.cs = "DOWNLOAD_INITIATE" /\ f.mux = cli.mux /\ f.s
        /\ f.e = e /\ f.size = n /\ f.data = d
    BY <1>1, <2>1, <2>3, <2>5, <2>7, <2>8 DEF Frame, Clients
  <2>10. QED
    BY <2>2, <2>4, <2>6, <2>9
<1>6. PICK s : s = [cli EXCEPT !.state = "DOWNLOAD_INITIATE_RSP", !.internal = FALSE,
                              !.toggle = 0, !.offset = 0, !.len = cli.size]
  OBVIOUS
<1>7. Await(s, f)
  BY <1>4, <1>6 DEF RequestDownload
<1>8. /\ s \in Clients /\ s.state = "DOWNLOAD_INITIATE_RSP" /\ ~s.internal
      /\ s.toggle = 0 /\ s.offset = 0 /\ s.len = cli.size /\ s.size = cli.size
      /\ s.id = cli.id /\ s.mux = cli.mux /\ s.upload = cli.upload /\ s.buf = cli.buf
  BY <1>1, <1>3, <1>6 DEF Clients, ClientStates
<1>9. /\ cli' \in Clients /\ cli'.status = "busy" /\ ~cli'.new
      /\ cli'.state = "DOWNLOAD_INITIATE_RSP" /\ ~cli'.internal
      /\ cli'.toggle = 0 /\ cli'.offset = 0 /\ cli'.len = cli.size /\ cli'.size = cli.size
      /\ cli'.id = cli.id /\ cli'.mux = cli.mux /\ cli'.upload = cli.upload
      /\ cli'.buf = cli.buf
      /\ toServer' \in Seq(Frame) /\ Len(toServer') = 1 /\ Head(toServer') = f
      /\ toClient' = <<>>
  BY <1>2, <1>5, <1>7, <1>8, AwaitFacts
<1>10. ClientFits(cli') /\ Waiting' /\ ReadSoFar'
  BY <1>1, <1>3, <1>9 DEF ClientFits, Waiting, ReadSoFar
<1>11. Asks(Head(toServer))'
  BY <1>3, <1>5, <1>9 DEF Asks
<1>12. QED
  BY <1>2, <1>9, <1>10, <1>11, ClientAsks

\* CO_SDOclient_upload_initiate_request_handle: the request of an upload.
LEMMA RequestUploadPair ==
  ASSUME PairInv, RequestUpload, UNCHANGED <<serverVars, losses>>
  PROVE  PairInv'
<1>1. cli \in Clients /\ ClientFits(cli) /\ cli.state = "UPLOAD_INITIATE_REQ"
  BY PairParts DEF RequestUpload, ClientAt
<1>2. toServer = <<>> /\ toClient = <<>> /\ ~srv.new /\ ~srv.internal
  BY <1>1, ClientTurn
<1>3. PICK f : f = [Plain("UPLOAD_INITIATE") EXCEPT !.mux = cli.mux]
  OBVIOUS
<1>4. f \in Frame /\ f.cs = "UPLOAD_INITIATE" /\ f.mux = cli.mux
  <2>1. Plain("UPLOAD_INITIATE") \in Frame /\ Plain("UPLOAD_INITIATE").cs = "UPLOAD_INITIATE"
    BY PlainType DEF Plain, Specifiers
  <2>2. QED
    BY <1>1, <1>3, <2>1 DEF Frame, Clients
<1>5. PICK s : s = [cli EXCEPT !.state = "UPLOAD_INITIATE_RSP", !.internal = FALSE,
                              !.toggle = 0, !.offset = 0]
  OBVIOUS
<1>6. Await(s, f)
  BY <1>3, <1>5 DEF RequestUpload
<1>7. /\ s \in Clients /\ s.state = "UPLOAD_INITIATE_RSP" /\ ~s.internal
      /\ s.toggle = 0 /\ s.offset = 0 /\ s.size = cli.size
      /\ s.id = cli.id /\ s.mux = cli.mux /\ s.upload = cli.upload /\ s.buf = cli.buf
  BY <1>1, <1>5 DEF Clients, ClientStates
<1>8. /\ cli' \in Clients /\ cli'.status = "busy" /\ ~cli'.new
      /\ cli'.state = "UPLOAD_INITIATE_RSP" /\ ~cli'.internal
      /\ cli'.toggle = 0 /\ cli'.offset = 0 /\ cli'.size = cli.size
      /\ cli'.id = cli.id /\ cli'.mux = cli.mux /\ cli'.upload = cli.upload
      /\ cli'.buf = cli.buf
      /\ toServer' \in Seq(Frame) /\ Len(toServer') = 1 /\ Head(toServer') = f
      /\ toClient' = <<>>
  BY <1>2, <1>4, <1>6, <1>7, AwaitFacts
<1>9. ClientFits(cli') /\ Waiting' /\ ReadSoFar'
  BY <1>1, <1>8 DEF ClientFits, Waiting, ReadSoFar
<1>10. Asks(Head(toServer))'
  BY <1>4, <1>8 DEF Asks
<1>11. QED
  BY <1>2, <1>8, <1>9, <1>10, ClientAsks

\* An answer has come for a client that waits in state st.
LEMMA AnswerTaken ==
  ASSUME PairInv, NEW st \in {"DOWNLOAD_INITIATE_RSP", "DOWNLOAD_SEGMENTED",
                              "UPLOAD_INITIATE_RSP", "UPLOAD_SEGMENTED"},
         ClientAt(st)
  PROVE  /\ cli.state = st /\ cli.new /\ ~cli.internal /\ cli \in Clients /\ ClientFits(cli)
         /\ cli.rx \in Frame /\ cli.rx.cs # "ABORT" /\ Replies(cli.rx)
         /\ toServer = <<>> /\ toClient = <<>> /\ ~srv.new /\ ~srv.internal
<1>1. cli.state = st /\ (cli.new \/ cli.internal) /\ ~(cli.new /\ cli.rx.cs = "ABORT")
  BY DEF ClientAt
<1>2. cli \in Clients /\ ClientFits(cli) /\ Handed
  BY PairParts
<1>3. ~cli.internal
  BY <1>1, <1>2 DEF ClientFits
<1>4. cli.new /\ cli.rx.cs # "ABORT" /\ cli.rx \in Frame
  BY <1>1, <1>2, <1>3 DEF Clients
<1>5. toServer = <<>> /\ toClient = <<>> /\ ~srv.new /\ ~srv.internal
  BY <1>4, ClientTurn
<1>6. QED
  BY <1>1, <1>2, <1>3, <1>4, <1>5 DEF Handed

\* The answer is always one the client can accept.
LEMMA NothingToRefuse ==
  ASSUME PairInv, WholeObjects,
         \/ DownloadAnswerRefused \/ DownloadSegmentAnswerRefused
         \/ UploadAnswerRefused \/ UploadSegmentAnswerRefused
  PROVE  FALSE
<1>1. CASE DownloadAnswerRefused
  BY <1>1, AnswerTaken DEF DownloadAnswerRefused, Replies, InitiateAnswered
<1>2. CASE DownloadSegmentAnswerRefused
  BY <1>2, AnswerTaken DEF DownloadSegmentAnswerRefused, Replies, SegmentAnswered
<1>3. CASE UploadAnswerRefused
  <2>1. ClientAt("UPLOAD_INITIATE_RSP")
    BY <1>3 DEF UploadAnswerRefused
  <2>2. /\ cli.state = "UPLOAD_INITIATE_RSP" /\ cli \in Clients /\ ClientFits(cli)
        /\ cli.rx.cs # "ABORT" /\ Replies(cli.rx)
    BY <2>1, AnswerTaken
  <2>3. /\ cli.rx.cs = "UPLOAD_INITIATE" /\ cli.rx.mux = cli.mux /\ cli.rx.s
        /\ ~cli.rx.e => cli.rx.size = cli.size
    BY <2>2 DEF Replies
  <2>4. cli.size \in Nat /\ TransLen(cli.size) = cli.size
    BY <2>2, SizeOfTransfer
  <2>5. QED
    BY <1>3, <2>3, <2>4 DEF UploadAnswerRefused, InitiateAnswered
<1>4. CASE UploadSegmentAnswerRefused
  <2>1. ClientAt("UPLOAD_SEGMENTED")
    BY <1>4 DEF UploadSegmentAnswerRefused
  <2>2. cli.state = "UPLOAD_SEGMENTED" /\ cli.rx.cs # "ABORT" /\ Replies(cli.rx)
        /\ cli.rx \in Frame
    BY <2>1, AnswerTaken
  <2>3. cli.rx.cs = "UPLOAD_SEGMENT" /\ cli.rx.t = cli.toggle /\ (cli.rx.c <=> LastToCome)
    BY <2>2 DEF Replies
  <2>4. cli.rx.c = LastToCome
    BY <2>2, <2>3 DEF Frame, LastToCome
  <2>5. QED
    BY <1>4, <2>3, <2>4 DEF UploadSegmentAnswerRefused, SegmentAnswered
<1>5. QED
  BY <1>1, <1>2, <1>3, <1>4

\* The next segment of a download: the server has what lies before it.
LEMMA SendSegmentPair ==
  ASSUME PairInv, NEW off \in Nat, NEW t \in {0, 1},
         cli.state \in {"DOWNLOAD_INITIATE_RSP", "DOWNLOAD_SEGMENTED"},
         cli.new, ~cli.internal, SendSegment(off, t), UNCHANGED <<serverVars, losses>>,
         cli.mux \in Objects, cli.size > ExpeditedBytes, off < cli.size,
         ServerAt("DOWNLOAD_SEGMENTED", off, t), Filled(off)
  PROVE  PairInv'
<1>1. cli \in Clients /\ ClientFits(cli)
  BY PairParts
<1>2. toServer = <<>> /\ toClient = <<>> /\ ~srv.new /\ ~srv.internal
  BY ClientTurn
<1>3. /\ cli.size \in Nat /\ cli.id \in Nat /\ ~cli.upload /\ cli.len = cli.size
      /\ cli.buf = Payload(cli.id, cli.size) /\ Len(cli.buf) = cli.size
      /\ cli.buf \in Seq(Byte) /\ cli.size \in ClientLens[cli.mux] /\ cli.id > 0
  BY <1>1 DEF ClientFits, Clients
<1> DEFINE n == SegmentSize(off)
<1>4. n \in Nat /\ off + n <= cli.size /\ off + n \in Nat
  BY <1>3 DEF SegmentSize, Smaller, SegmentBytes
<1>5. NextBytes(off) \in Seq(Byte)
  BY <1>3, <1>4, SliceBytes DEF NextBytes
<1>6. PICK c \in BOOLEAN : c = (cli.len <= off + SegmentBytes)
  <2> DEFINE e == cli.len <= off + SegmentBytes
  <2>1. e \in BOOLEAN
    OBVIOUS
  <2> HIDE DEF e
  <2>2. QED
    BY <2>1 DEF e
<1>7. PICK f : f = [Plain("DOWNLOAD_SEGMENT") EXCEPT !.t = t, !.c = c, !.data = NextBytes(off)]
  OBVIOUS
<1>8. /\ f \in Frame /\ f.cs = "DOWNLOAD_SEGMENT" /\ f.t = t /\ f.c = c
      /\ f.data = NextBytes(off)
  <2>1. Plain("DOWNLOAD_SEGMENT") \in Frame /\ Plain("DOWNLOAD_SEGMENT").cs = "DOWNLOAD_SEGMENT"
    BY PlainType DEF Plain, Specifiers
  <2>2. QED
    BY <1>5, <1>7, <2>1 DEF Frame
<1>9. PICK s : s = [cli EXCEPT !.state = "DOWNLOAD_SEGMENTED", !.toggle = t, !.offset = off + n]
  OBVIOUS
<1>10. Await(s, f)
  BY <1>6, <1>7, <1>9 DEF SendSegment
<1>11. /\ s \in Clients /\ s.state = "DOWNLOAD_SEGMENTED" /\ ~s.internal
       /\ s.toggle = t /\ s.offset = off + n /\ s.len = cli.len /\ s.size = cli.size
       /\ s.id = cli.id /\ s.mux = cli.mux /\ s.upload = cli.upload /\ s.buf = cli.buf
  BY <1>1, <1>4, <1>9 DEF Clients, ClientStates
<1>12. /\ cli' \in Clients /\ cli'.status = "busy" /\ ~cli'.new
       /\ cli'.state = "DOWNLOAD_SEGMENTED" /\ ~cli'.internal
       /\ cli'.toggle = t /\ cli'.offset = off + n /\ cli'.len = cli.len
       /\ cli'.size = cli.size /\ cli'.id = cli.id /\ cli'.mux = cli.mux
       /\ cli'.upload = cli.upload /\ cli'.buf = cli.buf
       /\ toServer' \in Seq(Frame) /\ Len(toServer') = 1 /\ Head(toServer') = f
       /\ toClient' = <<>>
  BY <1>2, <1>8, <1>10, <1>11, AwaitFacts
<1>13. ClientFits(cli') /\ Waiting' /\ ReadSoFar'
  BY <1>3, <1>4, <1>12 DEF ClientFits, Waiting, ReadSoFar
<1>14. Asks(Head(toServer))'
  <2>1. SegmentSize(off)' = n /\ NextBytes(off)' = NextBytes(off)
    BY <1>12 DEF SegmentSize, NextBytes
  <2>2. ServerAt("DOWNLOAD_SEGMENTED", off, t)'
    BY <1>12 DEF ServerAt, serverVars
  <2>3. Filled(off)'
    BY <1>12 DEF Filled, serverVars
  <2>4. ServerAt("DOWNLOAD_SEGMENTED", off, cli.toggle)'
    BY <1>12, <2>2 DEF ServerAt
  <2>5. f.c <=> cli'.size <= off + SegmentBytes
    BY <1>3, <1>6, <1>8, <1>12
  <2> HIDE DEF n
  <2>6. QED
    BY <1>8, <1>12, <2>1, <2>3, <2>4, <2>5 DEF Asks
<1>15. QED
  BY <1>2, <1>12, <1>13, <1>14, ClientAsks

\* A download ends: the server has confirmed it.
LEMMA DownloadDone ==
  ASSUME PairInv, cli.new, ~cli.internal, ~cli.upload, NEW s \in Clients,
         s = cli \/ s = [cli EXCEPT !.toggle = Flip(@)],
         cli' = Ended(s, "success"), Stored, UNCHANGED <<serverVars, wires, losses>>
  PROVE  PairInv'
<1>1. toServer = <<>> /\ toClient = <<>> /\ ~srv.new /\ ~srv.internal /\ cli \in Clients
  BY ClientTurn, PairParts
<1>2. s.internal = cli.internal /\ s.id = cli.id /\ s.mux = cli.mux
      /\ s.upload = cli.upload /\ s.size = cli.size
  BY <1>1 DEF Clients
<1>3. /\ cli' \in Clients /\ cli'.state = "IDLE" /\ cli'.status = "success"
      /\ ~cli'.new /\ ~cli'.internal /\ cli'.id = cli.id /\ cli'.mux = cli.mux
      /\ ~cli'.upload /\ cli'.size = cli.size
  BY <1>2, EndedFacts
<1>4. DownloadSuccessIsStored' /\ UploadSuccessIsCurrent'
  BY <1>3 DEF DownloadSuccessIsStored, UploadSuccessIsCurrent, Stored, serverVars
<1>5. QED
  BY <1>1, <1>3, <1>4, ClientIsDone

\* CO_SDOclient_download_initiate_response_handle: the client goes on with the
\* first segment, or is done.
LEMMA DownloadAnsweredPair ==
  ASSUME PairInv, DownloadAnswered, UNCHANGED <<serverVars, losses>>
  PROVE  PairInv'
<1>1. ClientAt("DOWNLOAD_INITIATE_RSP")
  BY DEF DownloadAnswered
<1>2. /\ cli.state = "DOWNLOAD_INITIATE_RSP" /\ cli.new /\ ~cli.internal
      /\ cli \in Clients /\ ClientFits(cli) /\ cli.rx.cs # "ABORT" /\ Replies(cli.rx)
  BY <1>1, AnswerTaken
<1>3. /\ cli.mux \in Objects
      /\ IF cli.size <= ExpeditedBytes THEN Stored
         ELSE ServerAt("DOWNLOAD_SEGMENTED", 0, 0)
  BY <1>2 DEF Replies
<1>4. ~cli.upload /\ cli.len = cli.size /\ cli.toggle = 0 /\ cli.size \in Nat
  BY <1>2 DEF ClientFits, Clients
<1>5. CASE cli.len <= ExpeditedBytes
  <2>1. cli' = Ended(cli, "success") /\ UNCHANGED wires
    BY <1>5 DEF DownloadAnswered
  <2>2. QED
    BY <1>2, <1>3, <1>4, <1>5, <2>1, DownloadDone
<1>6. CASE ~(cli.len <= ExpeditedBytes)
  <2>1. SendSegment(0, 0)
    BY <1>4, <1>6 DEF DownloadAnswered
  <2>2. Filled(0)
    BY DEF Filled
  <2>3. cli.size > ExpeditedBytes /\ 0 < cli.size
    BY <1>4, <1>6 DEF ExpeditedBytes
  <2>4. QED
    BY <1>2, <1>3, <1>4, <1>6, <2>1, <2>2, <2>3, SendSegmentPair
<1>7. QED
  BY <1>5, <1>6

\* CO_SDOclient_download_segment_handle: the next segment, or the end.
LEMMA DownloadSegmentAnsweredPair ==
  ASSUME PairInv, DownloadSegmentAnswered, UNCHANGED <<serverVars, losses>>
  PROVE  PairInv'
<1>1. ClientAt("DOWNLOAD_SEGMENTED")
  BY DEF DownloadSegmentAnswered
<1>2. /\ cli.state = "DOWNLOAD_SEGMENTED" /\ cli.new /\ ~cli.internal
      /\ cli \in Clients /\ ClientFits(cli) /\ cli.rx.cs # "ABORT" /\ Replies(cli.rx)
  BY <1>1, AnswerTaken
<1>3. IF cli.size <= cli.offset THEN Stored
      ELSE /\ ServerAt("DOWNLOAD_SEGMENTED", cli.offset, Flip(cli.toggle))
           /\ Filled(cli.offset)
  BY <1>2 DEF Replies
<1>4. /\ ~cli.upload /\ cli.len = cli.size /\ cli.mux \in Objects
      /\ cli.size > ExpeditedBytes /\ cli.size \in Nat /\ cli.offset \in Nat
      /\ cli.toggle \in {0, 1}
  BY <1>2 DEF ClientFits, Clients
<1>5. CASE AllSent
  <2>1. cli' = [Ended(cli, "success") EXCEPT !.toggle = Flip(cli.toggle)] /\ UNCHANGED wires
    BY <1>5 DEF DownloadSegmentAnswered
  <2>2. PICK s : s = [cli EXCEPT !.toggle = Flip(@)]
    OBVIOUS
  <2>3. s \in Clients /\ cli' = Ended(s, "success")
    BY <1>2, <1>4, <2>1, <2>2, FlipType DEF Ended, Clients
  <2>4. QED
    BY <1>2, <1>3, <1>4, <1>5, <2>1, <2>2, <2>3, DownloadDone DEF AllSent
<1>6. CASE ~AllSent
  <2>1. SendSegment(cli.offset, Flip(cli.toggle))
    BY <1>6 DEF DownloadSegmentAnswered
  <2>2. cli.offset < cli.size
    BY <1>4, <1>6 DEF AllSent
  <2>3. QED
    BY <1>2, <1>3, <1>4, <2>1, <2>2, FlipType, SendSegmentPair
<1>7. QED
  BY <1>5, <1>6

\* An upload ends: all bytes are in the client's buffer.
LEMMA UploadDone ==
  ASSUME PairInv, cli.new, ~cli.internal, NEW s \in Clients,
         s.internal = cli.internal, s.id = cli.id, s.mux = cli.mux, s.upload,
         cli' = Ended(s, "success"), UNCHANGED <<serverVars, wires, losses>>,
         s.mux \in Objects, s.len = ObjLen[s.mux], Len(s.buf) = s.len,
         \A k \in 1..s.len : s.buf[k] = mem["data"][s.mux][k]
  PROVE  PairInv'
<1>1. toServer = <<>> /\ toClient = <<>> /\ ~srv.new /\ ~srv.internal /\ cli \in Clients
  BY ClientTurn, PairParts
<1>2. /\ cli' \in Clients /\ cli'.state = "IDLE" /\ cli'.status = "success"
      /\ ~cli'.new /\ ~cli'.internal /\ cli'.id = cli.id /\ cli'.mux = s.mux
      /\ cli'.upload /\ cli'.len = s.len /\ cli'.buf = s.buf
  BY EndedFacts
<1>3. mem' = mem
  BY DEF serverVars
<1>4. mem["data"][s.mux] \in Seq(Byte) /\ Len(mem["data"][s.mux]) = s.len
  BY PairParts DEF IndInv, Memory, Buffers
<1>5. s.buf \in Seq(Byte) /\ s.len \in Nat
  BY DEF Clients
<1>6. SubSeq(s.buf, 1, s.len) = mem["data"][s.mux]
  BY <1>4, <1>5, AgreesToTheEnd
<1>7. DownloadSuccessIsStored' /\ UploadSuccessIsCurrent'
  BY <1>2, <1>3, <1>6 DEF DownloadSuccessIsStored, UploadSuccessIsCurrent
<1>8. QED
  BY <1>1, <1>2, <1>7, ClientIsDone

\* An upload of at most four bytes ends with the first answer.
LEMMA UploadExpeditedPair ==
  ASSUME PairInv, WholeObjects, UploadExpeditedTooLong \/ UploadExpeditedAnswered,
         UNCHANGED <<serverVars, losses>>
  PROVE  PairInv'
<1>1. ClientAt("UPLOAD_INITIATE_RSP") /\ cli.rx.e /\ UNCHANGED wires
  BY DEF UploadExpeditedTooLong, UploadExpeditedAnswered
<1>2. /\ cli.state = "UPLOAD_INITIATE_RSP" /\ cli.new /\ ~cli.internal
      /\ cli \in Clients /\ ClientFits(cli) /\ cli.rx.cs # "ABORT" /\ Replies(cli.rx)
      /\ toServer = <<>> /\ toClient = <<>> /\ ~srv.new /\ ~srv.internal
      /\ cli.rx \in Frame
  BY <1>1, AnswerTaken
<1>3. CASE UploadExpeditedTooLong
  <2>1. cli' = ClientAborted
    BY <1>3 DEF UploadExpeditedTooLong
  <2>2. QED
    BY <1>1, <1>2, <2>1, ClientAbortedFacts, ClientIsDone
<1>4. CASE UploadExpeditedAnswered
  <2> DEFINE v == mem["data"][cli.mux]
             n == cli.size
  <2>1. /\ cli.mux \in Objects /\ cli.size <= ExpeditedBytes
        /\ cli.rx.size = Announced(n) /\ cli.rx.data = v
    BY <1>1, <1>2 DEF Replies
  <2>2. n = ObjLen[cli.mux] /\ n \in Nat
    BY <1>2, <2>1, SizeOfTransfer
  <2>3. cli.rx.size = n
    <3>1. n \in 0..4 /\ cli.rx.size <= n
      BY <1>4, <2>1, <2>2 DEF ExpeditedBytes, UploadExpeditedAnswered
    <3>2. QED
      BY <2>1, <3>1, AnnouncedIsSize
  <2>4. /\ cli.upload /\ cli.buf \in Seq(Byte) /\ Len(cli.buf) = n
    BY <1>2 DEF ClientFits, Clients
  <2>5. v \in Seq(Byte) /\ Len(v) = n
    BY <2>1, <2>2, PairParts DEF IndInv, Memory, Buffers
  <2>6. PICK b : b = Copy(cli.buf, 0, v, n)
    OBVIOUS
  <2>7. b \in Seq(Byte) /\ Len(b) = n
    BY <2>2, <2>4, <2>5, <2>6, CopyType
  <2>8. \A k \in 1..n : b[k] = v[k]
    <3> HIDE DEF v, n
    <3>1. 0 \in Nat /\ 0 + n <= Len(cli.buf)
      BY <2>2, <2>4
    <3>2. \A k \in 1..n : Copy(cli.buf, 0, v, n)[0 + k] = v[k]
      BY <2>2, <2>4, <2>5, <3>1, CopyBytes
    <3>3. QED
      BY <2>2, <2>6, <3>2
  <2>9. PICK s : s = [cli EXCEPT !.len = n, !.offset = n, !.buf = b]
    OBVIOUS
  <2>10. /\ s \in Clients /\ s.internal = cli.internal /\ s.id = cli.id
         /\ s.mux = cli.mux /\ s.upload /\ s.len = n /\ s.buf = b
    BY <1>2, <2>2, <2>4, <2>7, <2>9 DEF Clients
  <2>11. cli' = Ended(s, "success")
    BY <1>2, <1>4, <2>1, <2>3, <2>6, <2>9 DEF UploadExpeditedAnswered, Ended, Clients
  <2>12. QED
    BY <1>1, <1>2, <2>1, <2>2, <2>7, <2>8, <2>10, <2>11, UploadDone
<1>5. QED
  BY <1>3, <1>4

\* The client asks for the next segment of an upload.
LEMMA AskSegmentPair ==
  ASSUME PairInv, cli.new, NEW s \in Clients, NEW f \in Frame,
         f.cs = "UPLOAD_SEGMENT", f.t = s.toggle,
         Await(s, f), UNCHANGED <<serverVars, losses>>,
         s.state = "UPLOAD_SEGMENTED", ~s.internal, s.id = cli.id, s.id > 0, s.upload,
         s.size \in ClientLens[s.mux], s.mux = cli.mux, s.size = cli.size,
         Len(s.buf) = s.size, s.mux \in Objects,
         s.len = s.size, s.offset < s.len,
         \A k \in 1..s.offset : s.buf[k] = mem["data"][s.mux][k],
         ServerAt("UPLOAD_SEGMENTED", s.offset, s.toggle)
  PROVE  PairInv'
<1>1. toServer = <<>> /\ toClient = <<>> /\ ~srv.new /\ ~srv.internal
  BY ClientTurn
<1>2. /\ cli' \in Clients /\ cli'.status = "busy" /\ ~cli'.new
      /\ cli'.state = "UPLOAD_SEGMENTED" /\ ~cli'.internal
      /\ cli'.toggle = s.toggle /\ cli'.offset = s.offset /\ cli'.len = s.len
      /\ cli'.size = s.size /\ cli'.id = s.id /\ cli'.mux = s.mux
      /\ cli'.upload = s.upload /\ cli'.buf = s.buf
      /\ toServer' \in Seq(Frame) /\ Len(toServer') = 1 /\ Head(toServer') = f
      /\ toClient' = <<>>
  BY <1>1, AwaitFacts
<1>3. ClientFits(cli') /\ Waiting'
  BY <1>2 DEF ClientFits, Waiting
<1>4. ReadSoFar'
  BY <1>2 DEF ReadSoFar, serverVars
<1>5. Asks(Head(toServer))'
  <2>1. ServerAt("UPLOAD_SEGMENTED", s.offset, s.toggle)'
    BY <1>2 DEF ServerAt, serverVars
  <2>2. ServerAt("UPLOAD_SEGMENTED", cli.offset, cli.toggle)'
    BY <1>2, <2>1 DEF ServerAt
  <2>3. QED
    BY <1>2, <2>2 DEF Asks
<1>6. QED
  BY <1>1, <1>2, <1>3, <1>4, <1>5, ClientAsks

\* The frame that asks for the next segment.
LEMMA AskSegmentFrame ==
  ASSUME NEW t \in {0, 1}, NEW f, f = [Plain("UPLOAD_SEGMENT") EXCEPT !.t = t]
  PROVE  f \in Frame /\ f.cs = "UPLOAD_SEGMENT" /\ f.t = t
<1>1. Plain("UPLOAD_SEGMENT") \in Frame /\ Plain("UPLOAD_SEGMENT").cs = "UPLOAD_SEGMENT"
  BY PlainType DEF Plain, Specifiers
<1>2. QED
  BY <1>1 DEF Frame

\* CO_SDOclient_upload_initiate_response_handle: the length of the object is
\* that of the client's buffer.
LEMMA UploadAnsweredPair ==
  ASSUME PairInv, WholeObjects, UploadAnswered, UNCHANGED <<serverVars, losses>>
  PROVE  PairInv'
<1>1. ClientAt("UPLOAD_INITIATE_RSP") /\ ~cli.rx.e
  BY DEF UploadAnswered
<1>2. /\ cli.state = "UPLOAD_INITIATE_RSP" /\ cli.new /\ ~cli.internal
      /\ cli \in Clients /\ ClientFits(cli) /\ cli.rx.cs # "ABORT" /\ Replies(cli.rx)
      /\ cli.rx \in Frame
  BY <1>1, AnswerTaken
<1>3. /\ cli.mux \in Objects /\ ~(cli.size <= ExpeditedBytes)
      /\ cli.rx.size = cli.size /\ ServerAt("UPLOAD_SEGMENTED", 0, 0)
  BY <1>1, <1>2 DEF Replies
<1>4. cli.size \in Nat /\ TransLen(cli.size) = cli.size /\ 0 < cli.size
  BY <1>2, <1>3, SizeOfTransfer DEF ExpeditedBytes
<1>5. PICK n \in Nat : n = TransLen(cli.rx.size) /\ n = cli.size
  BY <1>3, <1>4
<1>6. PICK s : s = [cli EXCEPT !.state = "UPLOAD_SEGMENTED", !.offset = 0, !.len = n]
  OBVIOUS
<1>7. PICK f : f = Plain("UPLOAD_SEGMENT")
  OBVIOUS
<1>8. f \in Frame /\ f.cs = "UPLOAD_SEGMENT" /\ f.t = 0
  <2>1. Plain("UPLOAD_SEGMENT") \in Frame
    BY PlainType DEF Specifiers
  <2>2. QED
    BY <1>7, <2>1 DEF Plain
<1>9. /\ s \in Clients /\ s.state = "UPLOAD_SEGMENTED" /\ ~s.internal
      /\ s.toggle = cli.toggle /\ s.offset = 0 /\ s.len = n /\ s.size = cli.size
      /\ s.id = cli.id /\ s.mux = cli.mux /\ s.upload = cli.upload /\ s.buf = cli.buf
  BY <1>2, <1>6 DEF Clients, ClientStates
<1>10. /\ cli.toggle = 0 /\ cli.upload /\ cli.id > 0 /\ Len(cli.buf) = cli.size
       /\ cli.size \in ClientLens[cli.mux]
  BY <1>2 DEF ClientFits
<1>11. Await(s, f)
  <2>1. Await([cli EXCEPT !.state = "UPLOAD_SEGMENTED", !.offset = 0,
                          !.len = TransLen(cli.rx.size)], Plain("UPLOAD_SEGMENT"))
    BY DEF UploadAnswered
  <2>2. QED
    BY <1>5, <1>6, <1>7, <2>1, Zenon
<1>12. /\ s.offset < s.len
       /\ \A k \in 1..s.offset : s.buf[k] = mem["data"][s.mux][k]
       /\ ServerAt("UPLOAD_SEGMENTED", s.offset, s.toggle)
       /\ f.t = s.toggle
       /\ s.len = s.size /\ s.size \in ClientLens[s.mux] /\ Len(s.buf) = s.size
       /\ s.upload /\ s.id > 0 /\ s.mux \in Objects
  BY <1>3, <1>4, <1>5, <1>8, <1>9, <1>10
<1>13. QED
  BY <1>2, <1>8, <1>9, <1>11, <1>12, AskSegmentPair

\* CO_SDOclient_upload_segment_handle: a segment is copied to its place, and the
\* next one is asked for unless it was the last.
LEMMA UploadSegmentAnsweredPair ==
  ASSUME PairInv, WholeObjects, UploadSegmentAnswered, UNCHANGED <<serverVars, losses>>
  PROVE  PairInv'
<1>1. ClientAt("UPLOAD_SEGMENTED")
  BY DEF UploadSegmentAnswered
<1>2. /\ cli.state = "UPLOAD_SEGMENTED" /\ cli.new /\ ~cli.internal
      /\ cli \in Clients /\ ClientFits(cli) /\ cli.rx.cs # "ABORT" /\ Replies(cli.rx)
      /\ cli.rx \in Frame
  BY <1>1, AnswerTaken
<1> DEFINE off == cli.offset
<1>20. PICK n : n = Smaller(cli.len - off, SegmentBytes)
  OBVIOUS
<1>21. PICK v : v = mem["data"][cli.mux]
  OBVIOUS
<1>3. /\ cli.upload /\ cli.mux \in Objects /\ cli.len = cli.size /\ off < cli.len
      /\ cli.len \in Nat /\ off \in Nat /\ cli.toggle \in {0, 1} /\ cli.id > 0
      /\ cli.buf \in Seq(Byte) /\ Len(cli.buf) = cli.len
      /\ cli.size \in ClientLens[cli.mux]
  BY <1>2 DEF ClientFits, Clients
<1>4. cli.len = ObjLen[cli.mux]
  BY <1>2, <1>3, SizeOfTransfer
<1>5. v \in Seq(Byte) /\ Len(v) = cli.len
  BY <1>21, <1>3, <1>4, PairParts DEF IndInv, Memory, Buffers
<1>6. \A k \in 1..off : cli.buf[k] = v[k]
  BY <1>2, <1>21, PairParts DEF ReadSoFar
<1>7. /\ cli.rx.data = Slice(v, off, n)
      /\ cli.rx.c <=> LastToCome
      /\ ~cli.rx.c => ServerAt("UPLOAD_SEGMENTED", off + SegmentBytes, Flip(cli.toggle))
  BY <1>2, <1>20, <1>21 DEF Replies
<1>8. /\ n \in Nat /\ off + n <= cli.len /\ off + n \in Nat
      /\ LastToCome => off + n = cli.len
      /\ ~LastToCome => n = SegmentBytes /\ off + n < cli.len
  BY <1>3, <1>20 DEF Smaller, SegmentBytes, LastToCome
<1>9. PICK b : b = Copy(cli.buf, off, cli.rx.data, n)
  OBVIOUS
<1>10. cli.rx.data \in Seq(Byte)
  BY <1>2 DEF Frame
<1>11. b \in Seq(Byte) /\ Len(b) = cli.len
  BY <1>3, <1>8, <1>9, <1>10, CopyType
<1>12. \A k \in 1..off + n : b[k] = v[k]
  <2>1. off + n <= Len(cli.buf) /\ off + n <= Len(v)
    BY <1>3, <1>5, <1>8
  <2>2. PICK own \in Seq(Byte), o \in Nat, d \in Seq(Byte) :
          own = cli.buf /\ o = off /\ d = cli.rx.data
    BY <1>3, <1>10
  <2>3. /\ d = Slice(v, o, n) /\ o + n <= Len(own) /\ o + n <= Len(v)
        /\ \A k \in 1..o : own[k] = v[k]
    BY <1>6, <1>7, <2>1, <2>2
  <2>4. v \in Seq(Byte) /\ n \in Nat
    BY <1>5, <1>8
  <2>5. \A k \in 1..o + n : Copy(own, o, Slice(v, o, n), n)[k] = v[k]
    BY <2>3, <2>4, CopyAgrees
  <2>6. QED
    BY <1>9, <2>2, <2>3, <2>5
<1>13. PICK s : s = [cli EXCEPT !.toggle = Flip(@), !.offset = @ + n, !.buf = b]
  OBVIOUS
<1>14. IF LastToCome
       THEN cli' = Ended(s, "success") /\ UNCHANGED wires
       ELSE Await(s, [Plain("UPLOAD_SEGMENT") EXCEPT !.t = s.toggle])
  BY <1>9, <1>13, <1>20 DEF UploadSegmentAnswered
<1>15. /\ s \in Clients /\ s.state = "UPLOAD_SEGMENTED" /\ ~s.internal
       /\ s.internal = cli.internal
       /\ s.toggle = Flip(cli.toggle) /\ s.offset = off + n /\ s.len = cli.len
       /\ s.size = cli.size /\ s.id = cli.id /\ s.mux = cli.mux /\ s.upload /\ s.buf = b
  BY <1>2, <1>3, <1>8, <1>11, <1>13, FlipType DEF Clients
<1>16. CASE LastToCome
  <2>1. cli' = Ended(s, "success") /\ UNCHANGED wires
    BY <1>14, <1>16
  <2>2. \A k \in 1..s.len : s.buf[k] = v[k]
    BY <1>21, <1>8, <1>12, <1>15, <1>16
  <2>3. s.mux \in Objects /\ s.len = ObjLen[s.mux] /\ Len(s.buf) = s.len
        /\ \A k \in 1..s.len : s.buf[k] = mem["data"][s.mux][k]
    BY <1>3, <1>4, <1>11, <1>15, <1>21, <2>2
  <2>4. QED
    BY <1>2, <1>15, <2>1, <2>3, UploadDone
<1>17. CASE ~LastToCome
  <2>1. PICK f : f = [Plain("UPLOAD_SEGMENT") EXCEPT !.t = s.toggle]
    OBVIOUS
  <2>2. s.toggle \in {0, 1}
    BY <1>3, <1>15, FlipType
  <2>3. f \in Frame /\ f.cs = "UPLOAD_SEGMENT" /\ f.t = s.toggle
    BY <2>1, <2>2, AskSegmentFrame
  <2>4. Await(s, f)
    BY <1>14, <1>17, <2>1
  <2>5. ServerAt("UPLOAD_SEGMENTED", s.offset, s.toggle)
    BY <1>7, <1>8, <1>15, <1>17
  <2>6. \A k \in 1..s.offset : s.buf[k] = mem["data"][s.mux][k]
    BY <1>21, <1>12, <1>15
  <2>7. QED
    BY <1>2, <1>3, <1>8, <1>11, <1>15, <1>17, <2>3, <2>4, <2>5, <2>6, AskSegmentPair
<1>18. QED
  BY <1>16, <1>17

\* Every call of CO_SDOclient_process.
LEMMA ClientPair ==
  ASSUME PairInv, Patient, WholeObjects, Client
  PROVE  PairInv'
<1>1. ClientStep /\ UNCHANGED <<serverVars, losses>>
  BY DEF Client
<1>2. QED
  BY <1>1, ClientGivesUpPair, RequestDownloadPair, RequestUploadPair, NothingToRefuse,
     DownloadAnsweredPair, DownloadSegmentAnsweredPair, UploadExpeditedPair,
     UploadAnsweredPair, UploadSegmentAnsweredPair
  DEF ClientStep

----------------------------------------------------------------------------
(* The bus, and the server's calls that answer nothing.                      *)

\* What is under way stays as expected while neither side moves on; that the
\* server gives its transfer up is expected at any time.
LEMMA StillExpected ==
  ASSUME NEW f, cli' = cli, mem' = mem, accepted' = accepted,
         \/ srv'.state = "IDLE"
         \/ /\ srv'.state = srv.state /\ srv'.obj = srv.obj /\ srv'.len = srv.len
            /\ srv'.offset = srv.offset /\ srv'.toggle = srv.toggle
  PROVE  /\ Asks(f) => Asks(f)'
         /\ Replies(f) => Replies(f)'
<1>1. ASSUME NEW st, NEW off, NEW t
      PROVE  ServerAt(st, off, t) => ServerAt(st, off, t)'
  BY DEF ServerAt
<1>2. ASSUME NEW n PROVE Filled(n)' = Filled(n)
  BY DEF Filled
<1>3. ASSUME NEW off
      PROVE  SegmentSize(off)' = SegmentSize(off) /\ NextBytes(off)' = NextBytes(off)
  BY DEF SegmentSize, NextBytes
<1>4. Stored' = Stored /\ LastToCome' = LastToCome
  BY DEF Stored, LastToCome
<1>5. Asks(f) => Asks(f)'
  BY <1>1, <1>2, <1>3 DEF Asks
<1>6. Replies(f) => Replies(f)'
  BY <1>1, <1>2, <1>4 DEF Replies
<1>7. QED
  BY <1>5, <1>6

\* Nothing but the place of the transfer changes.
LEMMA MovesOnly ==
  ASSUME PairInv, IndInv', cli' \in Clients, ClientFits(cli'), losses' \in Nat,
         cli'.state = cli.state, cli'.status = cli.status, cli'.id = cli.id,
         cli'.mux = cli.mux, cli'.upload = cli.upload, cli'.size = cli.size,
         cli'.len = cli.len, cli'.buf = cli.buf, cli'.offset = cli.offset,
         mem' = mem, accepted' = accepted,
         OnePlace', ServerSound', Handed'
  PROVE  PairInv'
<1>1. ReadSoFar'
  BY PairParts DEF ReadSoFar
<1>2. DownloadSuccessIsStored' /\ AcceptedIsOneTransfer' /\ UploadSuccessIsCurrent'
  BY PairParts DEF DownloadSuccessIsStored, AcceptedIsOneTransfer, UploadSuccessIsCurrent
<1>3. QED
  BY <1>1, <1>2 DEF PairInv, TypeOK, ClientTypeOK, IndInv, AnyTypeOK

\* A lost frame leaves the client waiting with nothing under way.
LEMMA LosePair ==
  ASSUME PairInv, Lose
  PROVE  PairInv'
<1>1. UNCHANGED <<serverVars, cli>> /\ losses' \in Nat
  BY PairParts DEF Lose
<1>2. \/ toServer # <<>> /\ toServer' = Tail(toServer) /\ toClient' = toClient
      \/ toClient # <<>> /\ toClient' = Tail(toClient) /\ toServer' = toServer
  BY DEF Lose
<1>3. toServer \in Seq(Frame) /\ toClient \in Seq(Frame) /\ OnePlace
  BY PairParts DEF IndInv, AnyTypeOK
<1>4. toServer' = <<>> /\ toClient' = <<>>
  BY <1>2, <1>3, OneFrame DEF OnePlace
<1>5. IndInv'
  BY <1>1, <1>4, PairParts, ServerStays, EmptySeq
<1>6. OnePlace' /\ ServerSound'
  BY <1>1, <1>3, <1>4, PairParts, EmptySeq
  DEF OnePlace, ServerSound, serverVars, Waiting, NothingUnderWay, NothingOnTheBus, wires
<1>7. Handed'
  <2>1. ~srv.new /\ ~srv.internal /\ ~cli.new
    BY <1>2, <1>3 DEF OnePlace
  <2>2. QED
    BY <1>1, <1>4, <2>1 DEF Handed, serverVars
<1>8. QED
  BY <1>1, <1>5, <1>6, <1>7, PairParts, MovesOnly DEF serverVars

\* CO_can_receive_basic_handle, for the server: the request comes into its slot,
\* which is free.
LEMMA DeliverToServerPair ==
  ASSUME PairInv, DeliverToServer
  PROVE  PairInv'
<1>1. toServer # <<>> /\ srv' = [srv EXCEPT !.rx = Head(toServer), !.new = TRUE]
      /\ toServer' = Tail(toServer) /\ UNCHANGED <<mem, accepted, cli, toClient, losses>>
  BY DEF DeliverToServer, ServerReceive
<1>2. toServer \in Seq(Frame) /\ toClient \in Seq(Frame) /\ OnePlace /\ srv \in Servers
      /\ cli \in Clients /\ losses \in Nat
  BY PairParts DEF IndInv, AnyTypeOK, ServerTypeOK
<1>3. /\ toServer' = <<>> /\ toClient = <<>> /\ ~srv.new /\ ~srv.internal /\ ~cli.new
      /\ Head(toServer) \in Frame /\ Waiting
  BY <1>1, <1>2, OneFrame, EmptySeq DEF OnePlace, NothingUnderWay, NothingOnTheBus, wires
<1>4. /\ srv' \in Servers /\ srv'.rx = Head(toServer) /\ srv'.new /\ ~srv'.internal
      /\ srv'.state = srv.state /\ srv'.obj = srv.obj /\ srv'.len = srv.len
      /\ srv'.offset = srv.offset /\ srv'.toggle = srv.toggle /\ srv'.fault = srv.fault
  BY <1>1, <1>2, <1>3 DEF Servers
<1>5. IndInv'
  <2>1. InObject(srv')
    BY <1>4, PairParts DEF IndInv, InObject
  <2>2. mem' = mem /\ accepted' = accepted /\ toServer' \in Seq(Frame) /\ toClient' \in Seq(Frame)
    BY <1>1, <1>2, <1>3, EmptySeq
  <2>3. QED
    BY <1>4, <2>1, <2>2, PairParts DEF IndInv, AnyTypeOK, ServerTypeOK, Memory
<1>6. OnePlace' /\ ServerSound'
  BY <1>1, <1>3, <1>4, PairParts, EmptySeq
  DEF OnePlace, ServerSound, Waiting, NothingUnderWay, NothingOnTheBus, wires
<1>7. Handed'
  <2>1. PICK f : f = Head(toServer)
    OBVIOUS
  <2>2. Asks(f)
    BY <1>1, <2>1, PairParts DEF Handed
  <2>3. Asks(f)'
    BY <1>1, <1>4, <2>2, StillExpected
  <2>4. srv'.rx = f
    BY <1>4, <2>1
  <2>5. Asks(srv.rx)'
    BY <2>3, <2>4 DEF Asks
  <2>6. QED
    BY <1>1, <1>3, <1>4, <2>5 DEF Handed
<1>8. QED
  BY <1>1, <1>2, <1>5, <1>6, <1>7, PairParts, MovesOnly

\* CO_can_receive_basic_handle, for the client: the answer comes into its slot,
\* which is free.
LEMMA DeliverToClientPair ==
  ASSUME PairInv, DeliverToClient
  PROVE  PairInv'
<1>1. toClient # <<>> /\ ClientReceive(Head(toClient))
      /\ toClient' = Tail(toClient) /\ UNCHANGED <<serverVars, toServer, losses>>
  BY DEF DeliverToClient
<1>2. toServer \in Seq(Frame) /\ toClient \in Seq(Frame) /\ OnePlace
      /\ cli \in Clients /\ losses \in Nat /\ ClientFits(cli)
  BY PairParts DEF IndInv, AnyTypeOK
<1>3. /\ toClient' = <<>> /\ toServer = <<>> /\ ~srv.new /\ ~srv.internal /\ ~cli.new
      /\ Head(toClient) \in Frame /\ Waiting
  BY <1>1, <1>2, OneFrame, EmptySeq DEF OnePlace, NothingUnderWay, NothingOnTheBus, wires
<1>4. cli' = [cli EXCEPT !.rx = Head(toClient), !.new = TRUE]
  BY <1>1, <1>3 DEF ClientReceive, Waiting
<1>5. /\ cli' \in Clients /\ cli'.rx = Head(toClient) /\ cli'.new
      /\ cli'.state = cli.state /\ cli'.status = cli.status /\ cli'.id = cli.id
      /\ cli'.mux = cli.mux /\ cli'.upload = cli.upload /\ cli'.size = cli.size
      /\ cli'.len = cli.len /\ cli'.buf = cli.buf /\ cli'.offset = cli.offset
      /\ cli'.toggle = cli.toggle /\ cli'.internal = cli.internal
  BY <1>2, <1>3, <1>4 DEF Clients
<1>6. ClientFits(cli')
  BY <1>2, <1>5 DEF ClientFits
<1>7. IndInv'
  BY <1>1, <1>2, <1>3, PairParts, ServerStays, EmptySeq
<1>8. OnePlace' /\ ServerSound'
  BY <1>1, <1>3, <1>5, PairParts, EmptySeq
  DEF OnePlace, ServerSound, Waiting, NothingUnderWay, NothingOnTheBus, wires, serverVars
<1>9. Handed'
  <2>1. PICK f : f = Head(toClient)
    OBVIOUS
  <2>2. Replies(f)
    BY <1>1, <2>1, PairParts DEF Handed
  <2>3. Replies(f)'
    <3>1. ASSUME NEW st, NEW off, NEW t
          PROVE  ServerAt(st, off, t)' = ServerAt(st, off, t)
      BY <1>1, <1>5 DEF ServerAt, serverVars
    <3>2. ASSUME NEW n PROVE Filled(n)' = Filled(n)
      BY <1>1, <1>5 DEF Filled, serverVars
    <3>3. Stored' = Stored /\ LastToCome' = LastToCome /\ mem' = mem
      BY <1>1, <1>5 DEF Stored, LastToCome, serverVars
    <3>4. QED
      BY <1>5, <2>2, <3>1, <3>2, <3>3 DEF Replies
  <2>4. cli'.rx = f
    BY <1>5, <2>1
  <2>5. Replies(cli.rx)'
    BY <2>3, <2>4 DEF Replies
  <2>6. QED
    BY <1>1, <1>3, <1>5, <2>5 DEF Handed, serverVars
<1>10. QED
  BY <1>1, <1>2, <1>5, <1>6, <1>7, <1>8, <1>9, MovesOnly DEF serverVars

\* The server's timeout, and a call with nothing to do.
LEMMA ServerSilentPair ==
  ASSUME PairInv, ServerTimeout \/ ServerNothing, UNCHANGED <<cli, losses>>
  PROVE  PairInv'
<1>1. mem' = mem /\ accepted' = accepted /\ toServer' = toServer /\ toClient' = toClient
      /\ cli' = cli /\ losses' = losses
  BY DEF ServerTimeout, ServerNothing, wires
<1>2. srv \in Servers /\ OnePlace /\ IndInv /\ cli \in Clients /\ losses \in Nat
      /\ ServerSound /\ ClientFits(cli)
  BY PairParts DEF IndInv, AnyTypeOK, ServerTypeOK
<1>3. IndInv'
  BY <1>2, ServerIndInv DEF ServerProcess
<1>4. /\ \/ srv'.state = "IDLE"
         \/ /\ srv'.state = srv.state /\ srv'.obj = srv.obj /\ srv'.len = srv.len
            /\ srv'.offset = srv.offset /\ srv'.toggle = srv.toggle
      /\ ~srv'.new /\ ~srv'.internal /\ ServerSound'
  <2>1. CASE ServerTimeout
    BY <1>2, <2>1 DEF ServerTimeout, Aborted, Servers, ServerSound
  <2>2. CASE ServerNothing
    <3>1. srv.state = "IDLE" => ~srv.internal
      BY PairParts DEF Handed, Confirming
    <3>2. QED
      BY <1>2, <2>2, <3>1 DEF ServerNothing, Return, Servers, ServerSound
  <2>3. QED
    BY <2>1, <2>2
<1>5. OnePlace'
  BY <1>1, <1>2, <1>4 DEF OnePlace, Waiting, NothingUnderWay, NothingOnTheBus, wires
<1>6. Handed'
  <2>1. PICK f : f = Head(toServer)
    OBVIOUS
  <2>2. toServer # <<>> => Asks(f)'
    BY <1>1, <1>4, <2>1, StillExpected, PairParts DEF Handed
  <2>3. toServer # <<>> => Asks(Head(toServer))'
    BY <1>1, <2>1, <2>2 DEF Asks
  <2>4. PICK g : g = Head(toClient)
    OBVIOUS
  <2>5. toClient # <<>> => Replies(g)'
    BY <1>1, <1>4, <2>4, StillExpected, PairParts DEF Handed
  <2>6. toClient # <<>> => Replies(Head(toClient))'
    BY <1>1, <2>4, <2>5 DEF Replies
  <2>7. PICK h : h = cli.rx
    OBVIOUS
  <2>8. cli.new => Replies(h)'
    BY <1>1, <1>4, <2>7, StillExpected, PairParts DEF Handed
  <2>9. cli.new => Replies(cli.rx)'
    BY <1>1, <2>7, <2>8 DEF Replies
  <2>10. QED
    BY <1>1, <1>4, <2>3, <2>6, <2>9 DEF Handed
<1>7. QED
  BY <1>1, <1>2, <1>3, <1>4, <1>5, <1>6, MovesOnly

----------------------------------------------------------------------------
(* The server's calls that answer.                                           *)

\* The server has the transfer: a request in its slot, or the extension at work.
LEMMA ServerTurn ==
  ASSUME PairInv, srv.new \/ srv.internal
  PROVE  /\ toServer = <<>> /\ toClient = <<>> /\ ~cli.new /\ Waiting
         /\ srv.new => ~srv.internal /\ Asks(srv.rx)
         /\ srv.internal => ~srv.new /\ Confirming
         /\ cli \in Clients /\ ClientFits(cli) /\ cli.status = "busy"
         /\ srv \in Servers /\ srv.rx \in Frame /\ ServerSound /\ losses \in Nat
<1>1. OnePlace /\ Handed /\ ServerSound /\ cli \in Clients /\ ClientFits(cli)
      /\ srv \in Servers /\ losses \in Nat
  BY PairParts DEF IndInv, AnyTypeOK, ServerTypeOK
<1>2. toServer = <<>> /\ toClient = <<>> /\ ~cli.new /\ Waiting
  BY <1>1 DEF OnePlace, NothingUnderWay, NothingOnTheBus, wires
<1>3. srv.rx \in Frame
  BY <1>1 DEF Servers
<1>4. cli.status = "busy"
  BY <1>1, <1>2 DEF ClientFits, Waiting
<1>5. QED
  BY <1>1, <1>2, <1>3, <1>4 DEF OnePlace, Handed

\* The server answers with frame f.
LEMMA ServerAnswers ==
  ASSUME PairInv, srv.new \/ srv.internal, IndInv', UNCHANGED <<cli, losses>>,
         NEW f \in Frame, ServerSend(f), ~srv'.new, ~srv'.internal, ServerSound',
         Replies(f)', ReadSoFar', AcceptedIsOneTransfer'
  PROVE  PairInv'
<1>1. /\ toServer = <<>> /\ toClient = <<>> /\ ~cli.new /\ Waiting
      /\ cli \in Clients /\ ClientFits(cli) /\ cli.status = "busy" /\ losses \in Nat
  BY ServerTurn
<1>2. toServer' = <<>> /\ toClient' # <<>> /\ Len(toClient') = 1 /\ Head(toClient') = f
  BY <1>1, Sent DEF ServerSend
<1>3. OnePlace'
  BY <1>1, <1>2, EmptySeq DEF OnePlace, Waiting
<1>4. Replies(Head(toClient))'
  BY <1>2 DEF Replies
<1>5. Handed'
  BY <1>1, <1>2, <1>4 DEF Handed
<1>6. DownloadSuccessIsStored' /\ UploadSuccessIsCurrent'
  BY <1>1 DEF DownloadSuccessIsStored, UploadSuccessIsCurrent
<1>7. QED
  BY <1>1, <1>3, <1>5, <1>6 DEF PairInv, TypeOK, ClientTypeOK, IndInv, AnyTypeOK

\* What a download does to the buffers does not concern an upload.
LEMMA ReadKept ==
  ASSUME PairInv, cli' = cli, mem' = mem \/ cli.state # "UPLOAD_SEGMENTED"
  PROVE  ReadSoFar'
BY PairParts DEF ReadSoFar

\* A step that confirms nothing keeps what is known of confirmed downloads.
LEMMA AcceptedKept ==
  ASSUME PairInv, cli' = cli, accepted' = accepted
  PROVE  AcceptedIsOneTransfer'
BY PairParts DEF AcceptedIsOneTransfer

\* A refusal: whatever the client waits for, it understands an abort frame.
LEMMA RefusePair ==
  ASSUME PairInv, srv.new \/ srv.internal, NEW s \in Servers, NEW st \in Statuses, ~s.fault,
         Respond_Abort(s, st), UNCHANGED <<cli, losses>>
  PROVE  PairInv'
<1>1. IndInv'
  BY RespondAbortType, PairParts
<1>2. /\ srv' = [Aborted(s, st) EXCEPT !.tx = AbortFrame] /\ ServerSend(AbortFrame)
      /\ mem' = mem /\ accepted' = accepted
  BY DEF Respond_Abort
<1>3. ~srv'.new /\ ~srv'.internal /\ srv'.state = "IDLE" /\ ~srv'.fault
  BY <1>2 DEF Aborted, Servers
<1>4. ServerSound'
  BY <1>3 DEF ServerSound
<1>5. PICK f \in Frame : f = AbortFrame
  BY AbortFrameType
<1>6. Replies(f)'
  BY <1>5 DEF Replies, AbortFrame, Plain
<1>7. ReadSoFar' /\ AcceptedIsOneTransfer'
  BY <1>2, ReadKept, AcceptedKept
<1>8. QED
  BY <1>1, <1>2, <1>3, <1>4, <1>5, <1>6, <1>7, ServerAnswers

\* The server as the switch finds it carries no fault.
LEMMA EnteredSound ==
  ASSUME PairInv, NEW st, Reached(st)
  PROVE  /\ Entered \in Servers /\ ~Entered.fault /\ Entered.state = st
         /\ (srv.new \/ srv.internal)
         /\ Entered.internal = srv.internal /\ Entered.tx = srv.tx
         /\ Entered.toggle = srv.toggle
         /\ Entered.obj = IF FirstMsg THEN srv.rx.mux ELSE srv.obj
         /\ Entered.len = srv.len /\ Entered.offset = srv.offset
<1>1. srv \in Servers /\ IndInv
  BY PairParts DEF Reached, IndInv, AnyTypeOK, ServerTypeOK
<1>2. Entered \in Servers /\ Entered.state = st
  BY <1>1, ReachedType
<1>3. ~srv.fault /\ (srv.new \/ srv.internal)
  BY DEF Reached
<1>4. FirstMsg => srv.rx.mux \in Objects
  BY ObjectAssumption DEF Reached, FirstMsgOK
<1>5. srv \in Servers
  BY PairParts DEF IndInv, AnyTypeOK, ServerTypeOK
<1>6. QED
  BY <1>2, <1>3, <1>4, <1>5 DEF Entered, Servers

\* Every refusal of CO_SDOserver_process.
LEMMA RefusalPair ==
  ASSUME PairInv, UNCHANGED <<cli, losses>>,
         \/ RefuseFirstMsg \/ DownloadInitiateRefused \/ DownloadSegmentRefused
         \/ ConfirmAbort \/ UploadSegmentRefused
  PROVE  PairInv'
<1>1. "abort" \in Statuses /\ "idle" \in Statuses
  BY DEF Statuses
<1>2. CASE RefuseFirstMsg
  <2>1. srv.new /\ ~srv.fault /\ Respond_Abort(srv, "abort") /\ srv \in Servers
    BY <1>2, PairParts DEF RefuseFirstMsg, FirstMsg, IndInv, AnyTypeOK, ServerTypeOK
  <2>2. QED
    BY <1>1, <2>1, RefusePair
<1>3. CASE DownloadInitiateRefused
  <2>1. PICK s : s = [Begun(Entered) EXCEPT
                        !.len = IF srv.rx.s THEN TransLen(srv.rx.size) ELSE @]
    OBVIOUS
  <2>2. Respond_Abort(s, "idle") /\ Reached("DOWNLOAD_INITIATE_RSP")
    BY <1>3, <2>1 DEF DownloadInitiateRefused
  <2>3. Entered \in Servers /\ ~Entered.fault /\ (srv.new \/ srv.internal)
    BY <2>2, EnteredSound
  <2>4. TransLen(srv.rx.size) \in Nat
    BY TransLenType, PairParts DEF IndInv, AnyTypeOK, ServerTypeOK, Servers, Frame
  <2>5. s \in Servers /\ ~s.fault
    BY <2>1, <2>3, <2>4 DEF Begun, Servers
  <2>6. QED
    BY <1>1, <2>2, <2>3, <2>5, RefusePair
<1>4. CASE DownloadSegmentRefused
  BY <1>1, <1>4, EnteredSound, RefusePair DEF DownloadSegmentRefused
<1>5. CASE ConfirmAbort
  BY <1>1, <1>5, EnteredSound, RefusePair DEF ConfirmAbort, Answer, Asked
<1>6. CASE UploadSegmentRefused
  BY <1>1, <1>6, EnteredSound, RefusePair DEF UploadSegmentRefused
<1>7. QED
  BY <1>2, <1>3, <1>4, <1>5, <1>6

\* A first message the server accepts is the request the client waits with.
LEMMA FirstRequest ==
  ASSUME PairInv, NEW st \in {"DOWNLOAD_INITIATE_RSP", "UPLOAD_INITIATE_RSP"},
         Reached(st), ~srv.internal
  PROVE  /\ srv.new /\ cli.state = st /\ Asks(srv.rx)
         /\ srv.rx.mux = cli.mux /\ cli.mux \in Objects /\ Entered.obj = cli.mux
<1>1. srv.new /\ Asks(srv.rx) /\ ServerSound /\ Waiting /\ srv \in Servers /\ srv.rx \in Frame
  BY ServerTurn DEF Reached
<1>2. Entered.state = st /\ Entered.obj = IF FirstMsg THEN srv.rx.mux ELSE srv.obj
  BY EnteredSound
<1>3. FirstMsg
  <2>1. CASE ~FirstMsg
    <3>1. Entered.state = srv.state
      BY <1>1, <2>1 DEF Entered, Servers
    <3>2. QED
      BY <1>1, <1>2, <3>1 DEF ServerSound
  <2>2. QED
    BY <2>1
<1>4. /\ srv.rx.mux \in Objects
      /\ srv.rx.cs \in {"DOWNLOAD_INITIATE", "UPLOAD_INITIATE"}
  BY <1>3, ObjectAssumption DEF Reached, FirstMsgOK
<1>5. srv.rx.cs = IF st = "DOWNLOAD_INITIATE_RSP" THEN "DOWNLOAD_INITIATE" ELSE "UPLOAD_INITIATE"
  BY <1>1, <1>2, <1>3, <1>4 DEF Entered, Servers
<1>6. cli.state = st /\ srv.rx.mux = cli.mux
  BY <1>1, <1>5 DEF Asks, Waiting
<1>7. QED
  BY <1>1, <1>2, <1>3, <1>4, <1>6

----------------------------------------------------------------------------
(* The server's part of a download.                                          *)

\* A buffer that holds the client's download, whole.
LEMMA WholeDownload ==
  ASSUME PairInv, WholeObjects, cli.state # "IDLE", cli.mux \in Objects,
         NEW m, Memory(m),
         \A k \in 1..cli.size : m[Itf(cli.mux)][cli.mux][k] = <<cli.id, k>>
  PROVE  /\ cli.size \in Nat /\ cli.size = ObjLen[cli.mux]
         /\ m[Itf(cli.mux)][cli.mux] = Payload(cli.id, cli.size)
         /\ SubSeq(m[Itf(cli.mux)][cli.mux], 1, cli.size) = Payload(cli.id, cli.size)
<1>1. cli \in Clients /\ ClientFits(cli)
  BY PairParts
<1>2. cli.size \in Nat /\ cli.size = ObjLen[cli.mux] /\ cli.id \in Nat
  BY <1>1, SizeOfTransfer DEF Clients
<1>3. /\ Payload(cli.id, cli.size) \in Seq(Byte) /\ Len(Payload(cli.id, cli.size)) = cli.size
      /\ \A k \in 1..cli.size : Payload(cli.id, cli.size)[k] = <<cli.id, k>>
  BY <1>2, PayloadType
<1> DEFINE b == m[Itf(cli.mux)][cli.mux]
           v == Payload(cli.id, cli.size)
<1>4. b \in Seq(Byte) /\ Len(b) = cli.size
  BY <1>2, ItfType DEF Memory
<1>5. \A k \in 1..cli.size : b[k] = v[k]
  BY <1>3
<1>6. v \in Seq(Byte) /\ Len(v) = cli.size
  BY <1>3
<1> HIDE DEF b, v
<1>7. b = v /\ SubSeq(b, 1, cli.size) = v
  BY <1>2, <1>4, <1>5, <1>6, AgreesToTheEnd
<1>8. QED
  BY <1>2, <1>7 DEF b, v

\* The server confirms it: the whole transfer, and nothing else.
LEMMA ConfirmedPair ==
  ASSUME PairInv, WholeObjects, cli.state # "IDLE", cli.mux \in Objects,
         NEW m, Memory(m),
         \A k \in 1..cli.size : m[Itf(cli.mux)][cli.mux][k] = <<cli.id, k>>,
         Confirmed(cli.mux, m, cli.size), cli' = cli
  PROVE  Stored' /\ AcceptedIsOneTransfer'
<1>1. /\ cli.size \in Nat /\ cli.size = ObjLen[cli.mux]
      /\ SubSeq(m[Itf(cli.mux)][cli.mux], 1, cli.size) = Payload(cli.id, cli.size)
  BY WholeDownload
<1>2. cli \in Clients /\ ClientFits(cli) /\ AcceptedIsOneTransfer
  BY PairParts
<1>3. cli.id \in 1..cli.id
  BY <1>2 DEF ClientFits, Clients
<1>4. Smaller(cli.size, ObjLen[cli.mux]) = cli.size
  BY <1>1 DEF Smaller
<1>5. PICK v : v = Payload(cli.id, cli.size)
  OBVIOUS
<1>6. v \in Seq(Byte) /\ Len(v) = cli.size
  BY <1>1, <1>2, <1>5, PayloadType DEF Clients
<1>7. accepted' = accepted \cup {[obj |-> cli.mux, data |-> v]}
  BY <1>1, <1>4, <1>5 DEF Confirmed
<1>8. Stored'
  <2>1. [obj |-> cli.mux, data |-> v] \in accepted'
    BY <1>7
  <2>2. QED
    BY <1>5, <2>1 DEF Stored
<1>9. AcceptedIsOneTransfer'
  <2>1. ASSUME NEW a \in accepted' PROVE \E i \in 1..cli.id : a.data = Payload(i, Len(a.data))
    <3>1. CASE a \in accepted
      BY <1>2, <3>1 DEF AcceptedIsOneTransfer
    <3>2. CASE a = [obj |-> cli.mux, data |-> v]
      BY <1>3, <1>5, <1>6, <3>2
    <3>3. QED
      BY <1>7, <3>1, <3>2
  <2>2. QED
    BY <2>1 DEF AcceptedIsOneTransfer
<1>10. QED
  BY <1>8, <1>9

\* The call of the server that has the last byte of the client's download: with
\* m in memory it completes as s.
Completes(s, m) ==
  /\ srv.new /\ s \in Servers /\ Memory(m) /\ Completed(s, m)
  /\ ~s.internal /\ ~s.fault
  /\ cli.mux \in Objects /\ s.obj = cli.mux /\ s.len = cli.size
  /\ \E v : m = [mem EXCEPT ![Itf(cli.mux)][cli.mux] = v]
  /\ \A k \in 1..cli.size : m[Itf(cli.mux)][cli.mux][k] = <<cli.id, k>>
  /\ \/ /\ cli.state = "DOWNLOAD_INITIATE_RSP" /\ s.state = "DOWNLOAD_INITIATE_RSP"
        /\ cli.size \in 1..ExpeditedBytes
        /\ s.tx.cs = "DOWNLOAD_INITIATE" /\ s.tx.mux = cli.mux
     \/ /\ cli.state = "DOWNLOAD_SEGMENTED" /\ s.state = "DOWNLOAD_SEGMENTED"
        /\ cli.size <= cli.offset
        /\ s.tx.cs = "DOWNLOAD_SEGMENT" /\ s.tx.t = cli.toggle

\* The server has the last byte: it confirms the download, or leaves it to the
\* extension.
LEMMA CompletedPair ==
  ASSUME PairInv, WholeObjects, IndInv', UNCHANGED <<cli, losses>>,
         NEW s, NEW m, Completes(s, m)
  PROVE  PairInv'
<1>1. /\ srv.new /\ s \in Servers /\ Memory(m) /\ Completed(s, m)
      /\ ~s.internal /\ ~s.fault
      /\ cli.mux \in Objects /\ s.obj = cli.mux /\ s.len = cli.size
      /\ \A k \in 1..cli.size : m[Itf(cli.mux)][cli.mux][k] = <<cli.id, k>>
  BY DEF Completes
<1>2. \/ /\ cli.state = "DOWNLOAD_INITIATE_RSP" /\ s.state = "DOWNLOAD_INITIATE_RSP"
         /\ cli.size \in 1..ExpeditedBytes
         /\ s.tx.cs = "DOWNLOAD_INITIATE" /\ s.tx.mux = cli.mux
      \/ /\ cli.state = "DOWNLOAD_SEGMENTED" /\ s.state = "DOWNLOAD_SEGMENTED"
         /\ cli.size <= cli.offset
         /\ s.tx.cs = "DOWNLOAD_SEGMENT" /\ s.tx.t = cli.toggle
  BY DEF Completes
<1>3. /\ toServer = <<>> /\ toClient = <<>> /\ ~cli.new /\ Waiting
      /\ cli \in Clients /\ ClientFits(cli) /\ cli.status = "busy" /\ losses \in Nat
  BY <1>1, ServerTurn
<1>4. ReadSoFar'
  BY <1>2, ReadKept
<1>5. CASE s.obj \in Ext
  <2>1. /\ srv' = [Armed([s EXCEPT !.internal = TRUE]) EXCEPT !.new = FALSE,
                      !.status = IF Armed([s EXCEPT !.internal = TRUE]).state = "IDLE"
                                 THEN "idle" ELSE "busy"]
        /\ mem' = m /\ accepted' = accepted /\ UNCHANGED wires
    BY <1>1, <1>5 DEF Completed, Return
  <2>2. /\ srv'.internal /\ ~srv'.new /\ ~srv'.fault /\ srv'.obj = cli.mux
        /\ srv'.len = cli.size /\ srv'.state = s.state /\ srv'.tx = s.tx
    BY <1>1, <2>1 DEF Armed, Servers
  <2>3. OnePlace' /\ ServerSound'
    BY <1>3, <2>1, <2>2 DEF OnePlace, ServerSound, Waiting, wires
  <2>4. Filled(cli.size)'
    BY <1>1, <2>1 DEF Filled
  <2>5. Confirming'
    BY <1>1, <1>2, <1>5, <2>2, <2>4 DEF Confirming
  <2>6. Handed'
    BY <1>3, <2>1, <2>2, <2>5 DEF Handed, wires
  <2>7. AcceptedIsOneTransfer'
    BY <2>1, AcceptedKept
  <2>8. DownloadSuccessIsStored' /\ UploadSuccessIsCurrent'
    BY <1>3 DEF DownloadSuccessIsStored, UploadSuccessIsCurrent
  <2>9. QED
    BY <1>3, <1>4, <2>3, <2>6, <2>7, <2>8 DEF PairInv, TypeOK, ClientTypeOK, IndInv, AnyTypeOK
<1>6. CASE s.obj \notin Ext
  <2>1. /\ srv' = [[s EXCEPT !.state = "IDLE"] EXCEPT !.new = FALSE,
                      !.status = IF [s EXCEPT !.state = "IDLE"].state = "IDLE"
                                 THEN "idle" ELSE "busy"]
        /\ Confirmed(cli.mux, m, cli.size) /\ ServerSend(s.tx)
    BY <1>1, <1>6 DEF Completed, Return
  <2>2. ~srv'.internal /\ ~srv'.new /\ ~srv'.fault /\ srv'.state = "IDLE"
    BY <1>1, <2>1 DEF Servers
  <2>3. Stored' /\ AcceptedIsOneTransfer'
    BY <1>1, <1>3, <2>1, ConfirmedPair DEF Waiting
  <2>4. PICK f \in Frame : f = s.tx
    BY <1>1 DEF Servers
  <2>5. ServerAt("DOWNLOAD_SEGMENTED", 0, 0)'
    BY <2>2 DEF ServerAt
  <2>6. Replies(f)'
    BY <1>1, <1>2, <2>3, <2>4, <2>5 DEF Replies
  <2>7. ServerSound'
    BY <2>2 DEF ServerSound
  <2>8. QED
    BY <1>1, <1>4, <2>1, <2>2, <2>3, <2>4, <2>6, <2>7, ServerAnswers
<1>7. QED
  BY <1>5, <1>6

\* An expedited request brings all bytes of the download at once.
LEMMA ExpeditedCompletes ==
  ASSUME PairInv, WholeObjects, DownloadExpedited
  PROVE  \E s, m : Completes(s, m)
<1>1. /\ Reached("DOWNLOAD_INITIATE_RSP") /\ ~srv.internal
      /\ srv.rx.e /\ srv.rx.s /\ Fits(srv.rx)
  BY DEF DownloadExpedited
<1>2. /\ srv.new /\ cli.state = "DOWNLOAD_INITIATE_RSP" /\ Asks(srv.rx)
      /\ srv.rx.mux = cli.mux /\ cli.mux \in Objects /\ Entered.obj = cli.mux
  BY <1>1, FirstRequest
<1>3. /\ Entered \in Servers /\ ~Entered.fault /\ Entered.state = "DOWNLOAD_INITIATE_RSP"
      /\ ~Entered.internal
  BY <1>1, EnteredSound
<1>4. cli \in Clients /\ ClientFits(cli) /\ srv.rx \in Frame /\ Memory(mem)
  BY <1>2, ServerTurn, PairParts DEF IndInv
<1>5. cli.size \in Nat /\ cli.size = ObjLen[cli.mux] /\ cli.id \in Nat
  BY <1>2, <1>4, SizeOfTransfer DEF Clients
<1>6. /\ cli.size <= ExpeditedBytes /\ srv.rx.size = Announced(cli.size)
      /\ srv.rx.data = Payload(cli.id, cli.size)
  BY <1>1, <1>2 DEF Asks
<1>7. cli.size \in 1..ExpeditedBytes /\ srv.rx.size = cli.size
  <2>1. cli.size \in 0..4
    BY <1>5, <1>6 DEF ExpeditedBytes
  <2>2. TransLen(srv.rx.size) <= cli.size
    BY <1>1, <1>2, <1>5 DEF Fits
  <2>3. TransLen(4) = 4
    BY DEF TransLen
  <2>4. cli.size # 0
    BY <1>6, <2>1, <2>2, <2>3, AnnouncedIsSize
  <2>5. QED
    BY <1>6, <2>1, <2>4, AnnouncedIsSize DEF ExpeditedBytes
<1>8. PICK answer : answer = [Plain("DOWNLOAD_INITIATE") EXCEPT !.mux = srv.rx.mux]
  OBVIOUS
<1>9. answer \in Frame /\ answer.cs = "DOWNLOAD_INITIATE" /\ answer.mux = cli.mux
  BY <1>2, <1>4, <1>8, PlainType DEF Plain, Frame, Specifiers
<1>10. PICK s : s = [Begun(Entered) EXCEPT !.len = cli.size, !.offset = cli.size, !.tx = answer]
  OBVIOUS
<1>11. /\ s \in Servers /\ s.state = "DOWNLOAD_INITIATE_RSP" /\ ~s.internal /\ ~s.fault
       /\ s.obj = cli.mux /\ s.len = cli.size /\ s.tx = answer
  BY <1>2, <1>3, <1>5, <1>9, <1>10 DEF Begun, Servers
<1>12. PICK b : b = mem[Itf(cli.mux)][cli.mux]
  OBVIOUS
<1>13. b \in Seq(Byte) /\ Len(b) = cli.size
  BY <1>2, <1>4, <1>5, <1>12, ItfType DEF Memory
<1>14. PICK d : d = Payload(cli.id, cli.size)
  OBVIOUS
<1>15. d \in Seq(Byte) /\ Len(d) = cli.size /\ \A k \in 1..cli.size : d[k] = <<cli.id, k>>
  BY <1>5, <1>14, PayloadType
<1>16. PICK m : m = [mem EXCEPT ![Itf(cli.mux)][cli.mux] = Copy(b, 0, d, cli.size)]
  OBVIOUS
<1>17. Completed(s, m)
  BY <1>6, <1>7, <1>8, <1>10, <1>11, <1>12, <1>14, <1>16 DEF DownloadExpedited
<1>18. Memory(m)
  BY <1>2, <1>4, <1>5, <1>12, <1>15, <1>16, FillType
<1>19. \A k \in 1..cli.size : m[Itf(cli.mux)][cli.mux][k] = <<cli.id, k>>
  <2>1. \A k \in 1..cli.size : Copy(b, 0, d, cli.size)[0 + k] = d[k]
    BY <1>5, <1>13, <1>15, CopyBytes
  <2>2. m[Itf(cli.mux)][cli.mux] = Copy(b, 0, d, cli.size)
    BY <1>2, <1>4, <1>16, ItfType DEF Memory
  <2>3. \A k \in 1..cli.size : 0 + k = k
    BY <1>5
  <2>4. QED
    BY <1>15, <2>1, <2>2, <2>3
<1>20. QED
  BY <1>2, <1>7, <1>9, <1>11, <1>16, <1>17, <1>18, <1>19 DEF Completes

\* A segmented download begins at the offset and the toggle bit the client has.
LEMMA DownloadInitiatePair ==
  ASSUME PairInv, WholeObjects, DownloadInitiate, IndInv', UNCHANGED <<cli, losses>>
  PROVE  PairInv'
<1>1. /\ Reached("DOWNLOAD_INITIATE_RSP") /\ ~srv.internal /\ ~srv.rx.e
      /\ mem' = mem /\ accepted' = accepted
  BY DEF DownloadInitiate
<1>2. /\ srv.new /\ cli.state = "DOWNLOAD_INITIATE_RSP" /\ Asks(srv.rx)
      /\ srv.rx.mux = cli.mux /\ cli.mux \in Objects /\ Entered.obj = cli.mux
  BY <1>1, FirstRequest
<1>3. Entered \in Servers /\ ~Entered.fault /\ ~Entered.internal
  BY <1>1, EnteredSound
<1>4. cli \in Clients /\ ClientFits(cli) /\ srv.rx \in Frame
  BY <1>2, ServerTurn
<1>5. cli.size \in Nat /\ TransLen(cli.size) = cli.size
  BY <1>2, <1>4, SizeOfTransfer
<1>6. ~(cli.size <= ExpeditedBytes) /\ srv.rx.size = cli.size
  BY <1>1, <1>2 DEF Asks
<1>7. PICK answer : answer = [Plain("DOWNLOAD_INITIATE") EXCEPT !.mux = srv.rx.mux]
  OBVIOUS
<1>8. answer \in Frame /\ answer.cs = "DOWNLOAD_INITIATE" /\ answer.mux = cli.mux
  BY <1>2, <1>4, <1>7, PlainType DEF Plain, Frame, Specifiers
<1>9. PICK s : s = [Begun(Entered) EXCEPT !.len = cli.size, !.tx = answer,
                                          !.state = "DOWNLOAD_SEGMENTED"]
  OBVIOUS
<1>10. /\ s \in Servers /\ s.state = "DOWNLOAD_SEGMENTED" /\ ~s.internal /\ ~s.fault
       /\ s.obj = cli.mux /\ s.len = cli.size /\ s.offset = 0 /\ s.toggle = 0
  BY <1>2, <1>3, <1>5, <1>8, <1>9 DEF Begun, Servers, ServerStates
<1>11. Return(Armed(s)) /\ ServerSend(answer)
  BY <1>5, <1>6, <1>7, <1>9 DEF DownloadInitiate
<1>12. /\ ~srv'.new /\ ~srv'.internal /\ ~srv'.fault /\ srv'.state = "DOWNLOAD_SEGMENTED"
       /\ srv'.obj = cli.mux /\ srv'.len = cli.size /\ srv'.offset = 0 /\ srv'.toggle = 0
  BY <1>10, <1>11 DEF Return, Armed, Servers
<1>13. ServerAt("DOWNLOAD_SEGMENTED", 0, 0)' /\ ServerSound'
  BY <1>12 DEF ServerAt, ServerSound
<1>14. PICK f \in Frame : f = answer
  BY <1>8
<1>15. Replies(f)'
  BY <1>2, <1>6, <1>8, <1>13, <1>14 DEF Replies
<1>16. ReadSoFar' /\ AcceptedIsOneTransfer'
  BY <1>1, ReadKept, AcceptedKept
<1>17. QED
  BY <1>2, <1>11, <1>12, <1>13, <1>14, <1>15, <1>16, ServerAnswers

\* The next segment follows what is in the buffer, up to where the client has come.
LEMMA SegmentTaken ==
  ASSUME PairInv, WholeObjects, DownloadSegment
  PROVE  /\ srv.new /\ cli.state = "DOWNLOAD_SEGMENTED" /\ cli.mux \in Objects
         /\ srv.obj = cli.mux /\ srv.len = cli.size /\ srv.toggle = cli.toggle
         /\ srv.offset + SegmentLen(srv) = cli.offset
         /\ cli.size \in Nat /\ srv.offset \in Nat /\ SegmentLen(srv) \in Nat
         /\ LastSegment(srv) <=> cli.size <= cli.offset
         /\ \A k \in 1..cli.offset :
              Copy(mem[Itf(srv.obj)][srv.obj], srv.offset, srv.rx.data,
                   SegmentLen(srv))[k] = <<cli.id, k>>
<1>1. /\ Reached("DOWNLOAD_SEGMENTED") /\ ~srv.internal
      /\ srv.rx.cs = "DOWNLOAD_SEGMENT"
  BY DEF DownloadSegment
<1>2. srv.state = "DOWNLOAD_SEGMENTED"
  BY <1>1, ReachedType, PairParts
<1>3. srv.new /\ Asks(srv.rx) /\ Waiting /\ cli \in Clients /\ ClientFits(cli)
      /\ srv \in Servers /\ srv.rx \in Frame
  BY <1>1, ServerTurn DEF Reached
<1>4. cli.state = "DOWNLOAD_SEGMENTED"
  BY <1>1, <1>3 DEF Asks, Waiting
<1>5. PICK off \in Nat :
        /\ off < cli.size /\ cli.offset = off + SegmentSize(off)
        /\ srv.rx.data = NextBytes(off)
        /\ ServerAt("DOWNLOAD_SEGMENTED", off, cli.toggle)
        /\ Filled(off)
  BY <1>3, <1>4 DEF Asks
<1>6. /\ srv.obj = cli.mux /\ srv.len = cli.size /\ srv.offset = off
      /\ srv.toggle = cli.toggle
  BY <1>2, <1>5 DEF ServerAt
<1>7. /\ cli.mux \in Objects /\ cli.len = cli.size /\ cli.size \in Nat /\ cli.id \in Nat
      /\ cli.buf = Payload(cli.id, cli.size) /\ cli.size = ObjLen[cli.mux]
  BY <1>3, <1>4, SizeOfTransfer DEF ClientFits, Clients
<1>8. PICK n : n = SegmentLen(srv)
  OBVIOUS
<1>9. /\ n = SegmentSize(off) /\ n \in Nat /\ off + n <= cli.size
      /\ LastSegment(srv) <=> cli.size <= off + n
  BY <1>5, <1>6, <1>7, <1>8
  DEF SegmentLen, LastSegment, SegmentSize, Smaller, SegmentBytes
<1>10. PICK b : b = mem[Itf(cli.mux)][cli.mux]
  OBVIOUS
<1>11. b \in Seq(Byte) /\ Len(b) = cli.size
  BY <1>7, <1>10, ItfType, PairParts DEF IndInv, Memory
<1>12. PICK v : v = Payload(cli.id, cli.size)
  OBVIOUS
<1>13. v \in Seq(Byte) /\ Len(v) = cli.size /\ \A k \in 1..cli.size : v[k] = <<cli.id, k>>
  BY <1>7, <1>12, PayloadType
<1>14. \A k \in 1..off : b[k] = v[k]
  <2>1. Filled(off) /\ off <= cli.size
    BY <1>5, <1>7
  <2>2. \A k \in 1..off : b[k] = <<cli.id, k>>
    BY <1>10, <2>1 DEF Filled
  <2>3. cli.size \in Nat /\ \A k \in 1..cli.size : v[k] = <<cli.id, k>>
    BY <1>7, <1>13
  <2>4. \A k \in 1..off : k \in 1..cli.size
    BY <2>1, <2>3
  <2>5. QED
    BY <2>2, <2>3, <2>4
<1>15. \A k \in 1..off + n : Copy(b, off, Slice(v, off, n), n)[k] = v[k]
  <2>1. off + n <= Len(b) /\ off + n <= Len(v)
    BY <1>9, <1>11, <1>13
  <2>2. b \in Seq(Byte) /\ v \in Seq(Byte) /\ n \in Nat
    BY <1>9, <1>11, <1>13
  <2>3. QED
    BY <1>14, <2>1, <2>2, CopyAgrees
<1>16. srv.rx.data = Slice(v, off, n)
  BY <1>5, <1>7, <1>9, <1>12 DEF NextBytes
<1>17. \A k \in 1..cli.offset :
         Copy(mem[Itf(srv.obj)][srv.obj], srv.offset, srv.rx.data, SegmentLen(srv))[k]
           = <<cli.id, k>>
  <2>1. \A k \in 1..off + n : v[k] = <<cli.id, k>>
    BY <1>7, <1>9, <1>13
  <2>2. cli.offset = off + n
    BY <1>5, <1>9
  <2>3. QED
    BY <1>6, <1>8, <1>10, <1>15, <1>16, <2>1, <2>2
<1>18. QED
  BY <1>3, <1>4, <1>5, <1>6, <1>7, <1>8, <1>9, <1>17

\* The call as a whole: where it puts the segment, and how it goes on.
LEMMA SegmentStored ==
  ASSUME PairInv, WholeObjects, DownloadSegment
  PROVE  \E s, answer, m :
           /\ s \in Servers /\ answer \in Frame
           /\ s.state = "DOWNLOAD_SEGMENTED" /\ ~s.internal /\ ~s.fault
           /\ s.obj = cli.mux /\ s.len = cli.size /\ s.tx = answer /\ s.offset = cli.offset
           /\ answer.cs = "DOWNLOAD_SEGMENT" /\ answer.t = cli.toggle
           /\ Memory(m) /\ \E v : m = [mem EXCEPT ![Itf(cli.mux)][cli.mux] = v]
           /\ \A k \in 1..cli.offset : m[Itf(cli.mux)][cli.mux][k] = <<cli.id, k>>
           /\ IF cli.size <= cli.offset
              THEN Completed(s, m)
              ELSE /\ Return(Armed([s EXCEPT !.toggle = Flip(cli.toggle)]))
                   /\ mem' = m /\ ServerSend(answer) /\ accepted' = accepted
<1>1. /\ srv.new /\ cli.state = "DOWNLOAD_SEGMENTED" /\ cli.mux \in Objects
      /\ srv.obj = cli.mux /\ srv.len = cli.size /\ srv.toggle = cli.toggle
      /\ srv.offset + SegmentLen(srv) = cli.offset
      /\ cli.size \in Nat /\ srv.offset \in Nat /\ SegmentLen(srv) \in Nat
      /\ LastSegment(srv) <=> cli.size <= cli.offset
      /\ \A k \in 1..cli.offset :
           Copy(mem[Itf(srv.obj)][srv.obj], srv.offset, srv.rx.data,
                SegmentLen(srv))[k] = <<cli.id, k>>
  BY SegmentTaken
<1>2. /\ Reached("DOWNLOAD_SEGMENTED") /\ ~srv.internal
  BY DEF DownloadSegment
<1>3. /\ Entered \in Servers /\ ~Entered.fault /\ Entered.state = "DOWNLOAD_SEGMENTED"
      /\ ~Entered.internal
  BY <1>2, EnteredSound
<1>4. Entered.obj = srv.obj /\ Entered.len = srv.len
  BY <1>2, ReachedType, PairParts
<1>5. srv.rx \in Frame /\ Memory(mem) /\ srv \in Servers /\ cli \in Clients
  BY <1>1, ServerTurn, PairParts DEF IndInv
<1>6. PICK n \in Nat : n = SegmentLen(srv)
  BY <1>1
<1>7. PICK answer : answer = [Plain("DOWNLOAD_SEGMENT") EXCEPT !.t = srv.toggle]
  OBVIOUS
<1>8. answer \in Frame /\ answer.cs = "DOWNLOAD_SEGMENT" /\ answer.t = cli.toggle
  <2>1. Plain("DOWNLOAD_SEGMENT") \in Frame /\ Plain("DOWNLOAD_SEGMENT").cs = "DOWNLOAD_SEGMENT"
    BY PlainType DEF Plain, Specifiers
  <2>2. srv.toggle \in {0, 1} /\ srv.toggle = cli.toggle
    BY <1>1, <1>5 DEF Servers
  <2>3. QED
    BY <1>7, <2>1, <2>2 DEF Frame
<1>9. PICK s : s = [Entered EXCEPT !.offset = srv.offset + n, !.tx = answer]
  OBVIOUS
<1>10. /\ s \in Servers /\ s.state = "DOWNLOAD_SEGMENTED" /\ ~s.internal /\ ~s.fault
       /\ s.obj = cli.mux /\ s.len = cli.size /\ s.tx = answer /\ s.offset = cli.offset
  <2>1. srv.offset + n = cli.offset /\ cli.offset \in Nat
    BY <1>1, <1>5, <1>6 DEF Clients
  <2>2. s = [Entered EXCEPT !.offset = cli.offset, !.tx = answer]
    BY <1>9, <2>1
  <2>3. QED
    BY <1>1, <1>3, <1>4, <1>8, <2>1, <2>2 DEF Servers
<1>11. PICK v : v = Copy(mem[Itf(srv.obj)][srv.obj], srv.offset, srv.rx.data, SegmentLen(srv))
  OBVIOUS
<1>12. PICK m : m = [mem EXCEPT ![Itf(srv.obj)][srv.obj] = v]
  OBVIOUS
<1>13. Memory(m)
  <2>1. srv.rx.data \in Seq(Byte)
    BY <1>5 DEF Frame
  <2>2. QED
    BY <1>1, <1>5, <1>11, <1>12, <2>1, FillType
<1>14. \A k \in 1..cli.offset : m[Itf(cli.mux)][cli.mux][k] = <<cli.id, k>>
  <2>1. m[Itf(cli.mux)][cli.mux] = v
    BY <1>1, <1>5, <1>12, ItfType DEF Memory
  <2>2. QED
    BY <1>1, <1>11, <2>1
<1>15. IF LastSegment(srv)
       THEN Completed(s, m)
       ELSE /\ Return(Armed([s EXCEPT !.toggle = Flip(srv.toggle)]))
            /\ mem' = m
            /\ ServerSend(answer)
            /\ UNCHANGED accepted
  BY <1>6, <1>7, <1>9, <1>11, <1>12 DEF DownloadSegment
<1>16. /\ \E w : m = [mem EXCEPT ![Itf(cli.mux)][cli.mux] = w]
       /\ IF cli.size <= cli.offset
          THEN Completed(s, m)
          ELSE /\ Return(Armed([s EXCEPT !.toggle = Flip(cli.toggle)]))
               /\ mem' = m /\ ServerSend(answer) /\ accepted' = accepted
  BY <1>1, <1>12, <1>15
<1>17. QED
  BY <1>8, <1>10, <1>13, <1>14, <1>16

\* The last segment brings the last byte of the download.
LEMMA SegmentCompletes ==
  ASSUME PairInv, WholeObjects, DownloadSegment, cli.size <= cli.offset
  PROVE  \E s, m : Completes(s, m)
<1>1. srv.new /\ cli.state = "DOWNLOAD_SEGMENTED" /\ cli.mux \in Objects /\ cli.size \in Nat
  BY SegmentTaken
<1>2. PICK s, answer, m :
        /\ s \in Servers /\ answer \in Frame
        /\ s.state = "DOWNLOAD_SEGMENTED" /\ ~s.internal /\ ~s.fault
        /\ s.obj = cli.mux /\ s.len = cli.size /\ s.tx = answer
        /\ answer.cs = "DOWNLOAD_SEGMENT" /\ answer.t = cli.toggle
        /\ Memory(m) /\ \E v : m = [mem EXCEPT ![Itf(cli.mux)][cli.mux] = v]
        /\ \A k \in 1..cli.offset : m[Itf(cli.mux)][cli.mux][k] = <<cli.id, k>>
        /\ Completed(s, m)
  BY SegmentStored
<1>3. \A k \in 1..cli.size : m[Itf(cli.mux)][cli.mux][k] = <<cli.id, k>>
  <2>1. cli.offset \in Nat
    BY PairParts DEF Clients
  <2>2. \A k \in 1..cli.size : k \in 1..cli.offset
    BY <1>1, <2>1
  <2>3. QED
    BY <1>2, <2>2
<1>4. QED
  BY <1>1, <1>2, <1>3 DEF Completes

\* CO_SDOserver_download_segment_handle: segments fill the buffer in order.
LEMMA DownloadSegmentPair ==
  ASSUME PairInv, WholeObjects, DownloadSegment, ~(cli.size <= cli.offset),
         IndInv', UNCHANGED <<cli, losses>>
  PROVE  PairInv'
<1>1. /\ srv.new /\ cli.state = "DOWNLOAD_SEGMENTED" /\ cli.mux \in Objects
  BY SegmentTaken
<1>2. PICK s, answer, m :
        /\ s \in Servers /\ answer \in Frame
        /\ s.state = "DOWNLOAD_SEGMENTED" /\ ~s.internal /\ ~s.fault
        /\ s.obj = cli.mux /\ s.len = cli.size /\ s.offset = cli.offset
        /\ answer.cs = "DOWNLOAD_SEGMENT" /\ answer.t = cli.toggle
        /\ \A k \in 1..cli.offset : m[Itf(cli.mux)][cli.mux][k] = <<cli.id, k>>
        /\ Return(Armed([s EXCEPT !.toggle = Flip(cli.toggle)]))
        /\ mem' = m /\ ServerSend(answer) /\ accepted' = accepted
  BY SegmentStored
<1>3. PICK t : t = Flip(cli.toggle)
  OBVIOUS
<1>4. /\ ~srv'.new /\ ~srv'.internal /\ ~srv'.fault /\ srv'.state = "DOWNLOAD_SEGMENTED"
      /\ srv'.obj = cli.mux /\ srv'.len = cli.size /\ srv'.offset = cli.offset
      /\ srv'.toggle = t
  BY <1>2, <1>3 DEF Return, Armed, Servers
<1>5. ServerAt("DOWNLOAD_SEGMENTED", cli.offset, Flip(cli.toggle))' /\ ServerSound'
  BY <1>3, <1>4 DEF ServerAt, ServerSound
<1>6. Filled(cli.offset)'
  BY <1>2 DEF Filled
<1>7. PICK f \in Frame : f = answer
  BY <1>2
<1>8. Replies(f)'
  BY <1>1, <1>2, <1>5, <1>6, <1>7 DEF Replies
<1>9. ReadSoFar' /\ AcceptedIsOneTransfer'
  BY <1>1, <1>2, ReadKept, AcceptedKept
<1>10. QED
  BY <1>1, <1>2, <1>4, <1>5, <1>7, <1>8, <1>9, ServerAnswers

\* While the extension has the download the switch finds the server as it is.
LEMMA ExtensionAsked ==
  ASSUME PairInv, srv.internal
  PROVE  /\ Entered = srv /\ Confirming /\ ~srv.new /\ Waiting
         /\ cli.mux \in Ext /\ srv.obj = cli.mux /\ srv.len = cli.size
         /\ toServer = <<>> /\ toClient = <<>> /\ ~cli.new
         /\ cli \in Clients /\ ClientFits(cli) /\ srv \in Servers /\ losses \in Nat
<1>1. /\ toServer = <<>> /\ toClient = <<>> /\ ~cli.new /\ Waiting
      /\ ~srv.new /\ Confirming /\ cli \in Clients /\ ClientFits(cli)
      /\ srv \in Servers /\ losses \in Nat
  BY ServerTurn
<1>2. Entered = srv
  BY <1>1 DEF Entered, FirstMsg
<1>3. QED
  BY <1>1, <1>2 DEF Confirming

\* The extension has not answered yet.
LEMMA ConfirmPendingPair ==
  ASSUME PairInv, ConfirmPending, IndInv', UNCHANGED <<cli, losses>>
  PROVE  PairInv'
<1>1. srv.internal /\ Return(Entered) /\ mem' = mem /\ accepted' = accepted
      /\ toServer' = toServer /\ toClient' = toClient
  BY DEF ConfirmPending, Answer, Asked, wires
<1>2. /\ Entered = srv /\ Confirming /\ ~srv.new /\ Waiting
      /\ toServer = <<>> /\ toClient = <<>> /\ ~cli.new
      /\ cli \in Clients /\ ClientFits(cli) /\ srv \in Servers /\ losses \in Nat
  BY <1>1, ExtensionAsked
<1>3. /\ srv'.internal = srv.internal /\ ~srv'.new /\ srv'.fault = srv.fault
      /\ srv'.state = srv.state /\ srv'.obj = srv.obj /\ srv'.len = srv.len
      /\ srv'.tx = srv.tx
  BY <1>1, <1>2 DEF Return, Servers
<1>4. Confirming'
  BY <1>1, <1>2, <1>3 DEF Confirming, Filled
<1>5. OnePlace' /\ ServerSound'
  BY <1>1, <1>2, <1>3, PairParts DEF OnePlace, ServerSound, Waiting
<1>6. Handed'
  BY <1>1, <1>2, <1>3, <1>4 DEF Handed
<1>7. QED
  BY <1>1, <1>2, <1>5, <1>6, MovesOnly

\* The extension answers: the download it has is confirmed.
LEMMA ConfirmSuccessPair ==
  ASSUME PairInv, WholeObjects, NEW a, ConfirmSuccess(a), IndInv', UNCHANGED <<cli, losses>>
  PROVE  PairInv'
<1>1. /\ srv.internal
      /\ Return([Entered EXCEPT !.internal = FALSE, !.timer = FALSE, !.state = "IDLE"])
      /\ Confirmed(Entered.obj, mem, srv.len) /\ ServerSend(srv.tx)
  BY DEF ConfirmSuccess, Answer, Asked
<1>2. /\ Entered = srv /\ Confirming /\ Waiting
      /\ cli.mux \in Ext /\ srv.obj = cli.mux /\ srv.len = cli.size
      /\ srv \in Servers
  BY <1>1, ExtensionAsked
<1>3. ~srv'.internal /\ ~srv'.new /\ srv'.fault = srv.fault /\ srv'.state = "IDLE"
  BY <1>1, <1>2 DEF Return, Servers
<1>4. ServerSound'
  BY <1>3, PairParts DEF ServerSound
<1>5. Stored' /\ AcceptedIsOneTransfer'
  <2>1. cli.mux \in Objects
    BY <1>2, ObjectAssumption
  <2>2. Memory(mem)
    BY PairParts DEF IndInv
  <2>3. \A k \in 1..cli.size : mem[Itf(cli.mux)][cli.mux][k] = <<cli.id, k>>
    BY <1>2 DEF Confirming, Filled
  <2>4. QED
    BY <1>1, <1>2, <2>1, <2>2, <2>3, ConfirmedPair DEF Waiting
<1>6. PICK f \in Frame : f = srv.tx
  BY <1>2 DEF Servers
<1>7. Replies(f)'
  <2>1. ServerAt("DOWNLOAD_SEGMENTED", 0, 0)'
    BY <1>3 DEF ServerAt
  <2>2. cli.mux \in Objects
    BY <1>2, ObjectAssumption
  <2>3. QED
    BY <1>2, <1>5, <1>6, <2>1, <2>2 DEF Confirming, Replies
<1>8. ReadSoFar'
  <2>1. cli.state # "UPLOAD_SEGMENTED"
    BY <1>2 DEF Confirming
  <2>2. QED
    BY <2>1, ReadKept
<1>9. QED
  BY <1>1, <1>3, <1>4, <1>5, <1>6, <1>7, <1>8, ServerAnswers

\* The client sends no abort frame, and the extension that is asked exists.
LEMMA NeverOnServer ==
  ASSUME PairInv, ClientAbort \/ ConfirmThroughNull
  PROVE  FALSE
<1>1. CASE ClientAbort
  <2>1. srv.new /\ srv.rx.cs = "ABORT"
    BY <1>1 DEF ClientAbort
  <2>2. QED
    BY <2>1, ServerTurn DEF Asks, Waiting
<1>2. CASE ConfirmThroughNull
  <2>1. srv.internal /\ Entered.obj \notin Ext
    BY <1>2 DEF ConfirmThroughNull, Asked
  <2>2. QED
    BY <2>1, ExtensionAsked
<1>3. QED
  BY <1>1, <1>2

----------------------------------------------------------------------------
(* The server's part of an upload.                                           *)

\* The first message of an upload.
LEMMA UploadRequested ==
  ASSUME PairInv, WholeObjects, Reached("UPLOAD_INITIATE_RSP")
  PROVE  /\ srv.new /\ cli.state = "UPLOAD_INITIATE_RSP" /\ srv.rx.mux = cli.mux
         /\ cli.mux \in Objects /\ Entered.obj = cli.mux /\ srv.rx \in Frame
         /\ cli.size = ObjLen[cli.mux] /\ cli.size \in Nat
         /\ Entered \in Servers /\ ~Entered.fault /\ ~Entered.internal
<1>1. /\ Entered \in Servers /\ ~Entered.fault /\ Entered.state = "UPLOAD_INITIATE_RSP"
      /\ Entered.internal = srv.internal
  BY EnteredSound
<1>2. ~srv.internal
  <2>1. CASE srv.internal
    BY <1>1, <2>1, ExtensionAsked DEF Confirming
  <2>2. QED
    BY <2>1
<1>3. /\ srv.new /\ cli.state = "UPLOAD_INITIATE_RSP" /\ srv.rx.mux = cli.mux
      /\ cli.mux \in Objects /\ Entered.obj = cli.mux
  BY <1>2, FirstRequest
<1>4. srv.rx \in Frame /\ cli \in Clients /\ ClientFits(cli)
  BY <1>3, ServerTurn
<1>5. cli.size = ObjLen[cli.mux] /\ cli.size \in Nat
  BY <1>3, <1>4, SizeOfTransfer
<1>6. QED
  BY <1>1, <1>2, <1>3, <1>4, <1>5

\* The frame of an expedited upload carries the object as it is.
LEMMA UploadExpeditedSent ==
  ASSUME PairInv, WholeObjects, UploadExpedited, IndInv', UNCHANGED <<cli, losses>>
  PROVE  PairInv'
<1>1. /\ Reached("UPLOAD_INITIATE_RSP") /\ ObjLen[Entered.obj] <= ExpeditedBytes
      /\ mem' = mem /\ accepted' = accepted
  BY DEF UploadExpedited
<1>2. /\ srv.new /\ cli.state = "UPLOAD_INITIATE_RSP" /\ srv.rx.mux = cli.mux
      /\ cli.mux \in Objects /\ Entered.obj = cli.mux /\ srv.rx \in Frame
      /\ cli.size = ObjLen[cli.mux] /\ cli.size \in Nat
      /\ Entered \in Servers /\ ~Entered.fault /\ ~Entered.internal
  BY <1>1, UploadRequested
<1>3. PICK d : d = mem["data"][cli.mux]
  OBVIOUS
<1>4. d \in Seq(Byte)
  BY <1>2, <1>3, PairParts DEF IndInv, Memory, Buffers
<1>5. PICK size : size = Announced(cli.size)
  OBVIOUS
<1>6. size \in Nat
  <2>1. cli.size \in 0..4
    BY <1>1, <1>2 DEF ExpeditedBytes
  <2>2. QED
    BY <1>5, <2>1, AnnouncedIsSize
<1>7. PICK answer : answer = [Plain("UPLOAD_INITIATE") EXCEPT
                                !.mux = srv.rx.mux, !.e = TRUE, !.s = TRUE,
                                !.size = size, !.data = d]
  OBVIOUS
<1>8. /\ answer \in Frame /\ answer.cs = "UPLOAD_INITIATE" /\ answer.mux = cli.mux
      /\ answer.e = TRUE /\ answer.s = TRUE /\ answer.size = size /\ answer.data = d
  BY <1>2, <1>4, <1>6, <1>7, PlainType DEF Plain, Frame, Specifiers
<1>9. PICK s : s = [Begun(Entered) EXCEPT !.len = cli.size, !.offset = cli.size,
                                          !.tx = answer, !.state = "IDLE"]
  OBVIOUS
<1>10. s \in Servers /\ s.state = "IDLE" /\ ~s.internal /\ ~s.fault
  BY <1>2, <1>8, <1>9 DEF Begun, Servers, ServerStates
<1>11. Return(s) /\ ServerSend(answer)
  BY <1>2, <1>3, <1>5, <1>7, <1>9 DEF UploadExpedited
<1>12. ~srv'.new /\ ~srv'.internal /\ ~srv'.fault /\ srv'.state = "IDLE"
  BY <1>10, <1>11 DEF Return, Servers
<1>13. ServerSound'
  BY <1>12 DEF ServerSound
<1>14. PICK f \in Frame : f = answer
  BY <1>8
<1>15. Replies(f)'
  <2>1. f.e <=> cli.size <= ExpeditedBytes
    BY <1>1, <1>2, <1>8, <1>14
  <2>2. f.size = Announced(cli.size) /\ f.data = mem'["data"][cli.mux]
    BY <1>1, <1>3, <1>5, <1>8, <1>14
  <2>3. f.cs = "UPLOAD_INITIATE" /\ f.mux = cli.mux /\ f.s
    BY <1>8, <1>14
  <2>4. f.e
    BY <1>8, <1>14
  <2>5. QED
    BY <1>2, <2>1, <2>2, <2>3, <2>4 DEF Replies
<1>16. ReadSoFar' /\ AcceptedIsOneTransfer'
  BY <1>1, ReadKept, AcceptedKept
<1>17. QED
  BY <1>2, <1>11, <1>12, <1>13, <1>14, <1>15, <1>16, ServerAnswers

\* A segmented upload begins: nothing has been read yet.
LEMMA UploadInitiatePair ==
  ASSUME PairInv, WholeObjects, UploadInitiate, IndInv', UNCHANGED <<cli, losses>>
  PROVE  PairInv'
<1>1. /\ Reached("UPLOAD_INITIATE_RSP") /\ ObjLen[Entered.obj] > ExpeditedBytes
      /\ mem' = mem /\ accepted' = accepted
  BY DEF UploadInitiate
<1>2. /\ srv.new /\ cli.state = "UPLOAD_INITIATE_RSP" /\ srv.rx.mux = cli.mux
      /\ cli.mux \in Objects /\ Entered.obj = cli.mux /\ srv.rx \in Frame
      /\ cli.size = ObjLen[cli.mux] /\ cli.size \in Nat
      /\ Entered \in Servers /\ ~Entered.fault /\ ~Entered.internal
  BY <1>1, UploadRequested
<1>3. ~(cli.size <= ExpeditedBytes)
  BY <1>1, <1>2 DEF ExpeditedBytes
<1>4. PICK answer : answer = [Plain("UPLOAD_INITIATE") EXCEPT !.mux = srv.rx.mux, !.s = TRUE,
                                                              !.size = cli.size]
  OBVIOUS
<1>5. /\ answer \in Frame /\ answer.cs = "UPLOAD_INITIATE" /\ answer.mux = cli.mux
      /\ answer.e = FALSE /\ answer.s = TRUE /\ answer.size = cli.size
  BY <1>2, <1>4, PlainType DEF Plain, Frame, Specifiers
<1>6. PICK s : s = [Begun(Entered) EXCEPT !.len = cli.size, !.tx = answer,
                                          !.state = "UPLOAD_SEGMENTED"]
  OBVIOUS
<1>7. /\ s \in Servers /\ s.state = "UPLOAD_SEGMENTED" /\ ~s.internal /\ ~s.fault
      /\ s.obj = cli.mux /\ s.len = cli.size /\ s.offset = 0 /\ s.toggle = 0
  BY <1>2, <1>5, <1>6 DEF Begun, Servers, ServerStates
<1>8. Return(Armed(s)) /\ ServerSend(answer)
  BY <1>2, <1>4, <1>6 DEF UploadInitiate
<1>9. /\ ~srv'.new /\ ~srv'.internal /\ ~srv'.fault /\ srv'.state = "UPLOAD_SEGMENTED"
      /\ srv'.obj = cli.mux /\ srv'.len = cli.size /\ srv'.offset = 0 /\ srv'.toggle = 0
  BY <1>7, <1>8 DEF Return, Armed, Servers
<1>10. ServerAt("UPLOAD_SEGMENTED", 0, 0)' /\ ServerSound'
  BY <1>9 DEF ServerAt, ServerSound
<1>11. PICK f \in Frame : f = answer
  BY <1>5
<1>12. Replies(f)'
  <2>1. ~f.e /\ f.s /\ f.cs = "UPLOAD_INITIATE" /\ f.mux = cli.mux /\ f.size = cli.size
    BY <1>5, <1>11
  <2>2. QED
    BY <1>2, <1>3, <1>10, <2>1 DEF Replies
<1>13. ReadSoFar' /\ AcceptedIsOneTransfer'
  BY <1>1, ReadKept, AcceptedKept
<1>14. QED
  BY <1>2, <1>8, <1>9, <1>10, <1>11, <1>12, <1>13, ServerAnswers

\* CO_SDOserver_upload_segment_handle: the segment is the one the client asked
\* for, from the object as it is.
LEMMA UploadSegmentPair ==
  ASSUME PairInv, WholeObjects, UploadSegment, IndInv', UNCHANGED <<cli, losses>>
  PROVE  PairInv'
<1>1. /\ Reached("UPLOAD_SEGMENTED") /\ srv.rx.cs = "UPLOAD_SEGMENT"
      /\ mem' = mem /\ accepted' = accepted
  BY DEF UploadSegment
<1>2. srv.state = "UPLOAD_SEGMENTED"
  BY <1>1, ReachedType, PairParts
<1>3. /\ Entered \in Servers /\ ~Entered.fault /\ Entered.state = "UPLOAD_SEGMENTED"
      /\ Entered.internal = srv.internal /\ Entered.len = srv.len
  BY <1>1, EnteredSound
<1>4. ~srv.internal
  <2>1. CASE srv.internal
    BY <1>2, <2>1, ExtensionAsked DEF Confirming
  <2>2. QED
    BY <2>1
<1>5. Entered.obj = srv.obj
  BY <1>1, ReachedType, PairParts
<1>6. /\ srv.new /\ Asks(srv.rx) /\ Waiting /\ cli \in Clients /\ ClientFits(cli)
      /\ srv \in Servers /\ srv.rx \in Frame
  BY <1>1, <1>4, ServerTurn DEF Reached
<1>7. cli.state = "UPLOAD_SEGMENTED"
  BY <1>1, <1>6 DEF Asks, Waiting
<1>8. /\ srv.obj = cli.mux /\ srv.len = cli.size /\ srv.offset = cli.offset
      /\ srv.toggle = cli.toggle
  BY <1>2, <1>6, <1>7 DEF Asks, ServerAt
<1>9. /\ cli.mux \in Objects /\ cli.len = cli.size /\ cli.size = ObjLen[cli.mux]
      /\ cli.size \in Nat /\ cli.offset \in Nat /\ cli.offset < cli.size
      /\ cli.toggle \in {0, 1}
  BY <1>6, <1>7, SizeOfTransfer DEF ClientFits, Clients
<1>10. PICK n : n = SegmentLen(srv)
  OBVIOUS
<1>11. /\ n = Smaller(cli.len - cli.offset, SegmentBytes) /\ n \in Nat
       /\ cli.offset + n <= cli.size
       /\ LastSegment(srv) <=> LastToCome
       /\ ~LastSegment(srv) => n = SegmentBytes
  BY <1>8, <1>9, <1>10 DEF SegmentLen, LastSegment, LastToCome, Smaller, SegmentBytes
<1>12. PICK d : d = Slice(mem["data"][cli.mux], cli.offset, n)
  OBVIOUS
<1>13. d \in Seq(Byte) /\ Outgoing = d
  <2>1. mem["data"][cli.mux] \in Seq(Byte) /\ Len(mem["data"][cli.mux]) = cli.size
    BY <1>9, PairParts DEF IndInv, Memory, Buffers
  <2>2. d \in Seq(Byte)
    BY <1>9, <1>11, <1>12, <2>1, SliceBytes
  <2>3. QED
    BY <1>8, <1>10, <1>12, <2>2 DEF Outgoing
<1>14. PICK last \in BOOLEAN : last = LastSegment(srv)
  <2>1. LastSegment(srv) \in BOOLEAN
    BY DEF LastSegment
  <2>2. QED
    BY <2>1
<1>15. PICK answer : answer = [Plain("UPLOAD_SEGMENT") EXCEPT !.t = srv.toggle, !.c = last,
                                                              !.data = d]
  OBVIOUS
<1>16. /\ answer \in Frame /\ answer.cs = "UPLOAD_SEGMENT" /\ answer.t = cli.toggle
       /\ answer.c = last /\ answer.data = d
  BY <1>8, <1>9, <1>13, <1>15, PlainType DEF Plain, Frame, Specifiers
<1>17. PICK off \in Nat : off = srv.offset + n
  BY <1>8, <1>9, <1>11
<1>18. PICK t \in {0, 1} : t = Flip(srv.toggle)
  BY <1>8, <1>9, FlipType
<1>19. PICK s : s = [Entered EXCEPT !.offset = off, !.tx = answer, !.toggle = t]
  OBVIOUS
<1>20. /\ s \in Servers /\ s.state = "UPLOAD_SEGMENTED" /\ ~s.internal /\ ~s.fault
       /\ s.obj = cli.mux /\ s.len = cli.size /\ s.offset = off /\ s.toggle = t
  BY <1>3, <1>4, <1>5, <1>8, <1>16, <1>19 DEF Servers
<1>21. /\ Return(IF last THEN [s EXCEPT !.state = "IDLE"] ELSE Armed(s))
       /\ ServerSend(answer)
  BY <1>10, <1>13, <1>14, <1>15, <1>17, <1>18, <1>19 DEF UploadSegment
<1>22. /\ ~srv'.new /\ ~srv'.internal /\ ~srv'.fault
       /\ srv'.state \in {"IDLE", "UPLOAD_SEGMENTED"}
       /\ ~last => /\ srv'.state = "UPLOAD_SEGMENTED" /\ srv'.obj = cli.mux
                   /\ srv'.len = cli.size /\ srv'.offset = off /\ srv'.toggle = t
  <2>1. CASE last
    BY <1>20, <1>21, <2>1 DEF Return, Servers
  <2>2. CASE ~last
    BY <1>20, <1>21, <2>2 DEF Return, Armed, Servers
  <2>3. QED
    BY <2>1, <2>2
<1>23. ServerSound'
  BY <1>22 DEF ServerSound
<1>24. PICK f \in Frame : f = answer
  BY <1>16
<1>25. Replies(f)'
  <2>1. f.cs = "UPLOAD_SEGMENT" /\ f.t = cli.toggle
    BY <1>16, <1>24
  <2>2. f.c <=> LastToCome'
    BY <1>11, <1>14, <1>16, <1>24 DEF LastToCome
  <2>3. f.data = Slice(mem'["data"][cli.mux], cli.offset,
                       Smaller(cli.len - cli.offset, SegmentBytes))
    BY <1>1, <1>11, <1>12, <1>16, <1>24
  <2>4. ~f.c => ServerAt("UPLOAD_SEGMENTED", cli.offset + SegmentBytes, Flip(cli.toggle))'
    BY <1>8, <1>11, <1>14, <1>16, <1>17, <1>18, <1>22, <1>24 DEF ServerAt
  <2>5. QED
    BY <1>7, <2>1, <2>2, <2>3, <2>4 DEF Replies
<1>26. ReadSoFar' /\ AcceptedIsOneTransfer'
  BY <1>1, ReadKept, AcceptedKept
<1>27. QED
  BY <1>6, <1>21, <1>22, <1>23, <1>24, <1>25, <1>26, ServerAnswers

----------------------------------------------------------------------------
(* Every step of the pair.                                                   *)

\* Every call of CO_SDOserver_process.
LEMMA ServerPair ==
  ASSUME PairInv, WholeObjects, Server
  PROVE  PairInv'
<1>1. ServerProcess /\ UNCHANGED <<cli, losses>>
  BY DEF Server
<1>2. IndInv'
  BY <1>1, ServerIndInv, PairParts
<1>3. CASE ServerTimeout \/ ServerNothing
  BY <1>1, <1>3, ServerSilentPair
<1>4. CASE ServerStep
  <2>1. CASE ClientAbort \/ ConfirmThroughNull
    BY <2>1, NeverOnServer
  <2>2. CASE \/ RefuseFirstMsg \/ DownloadInitiateRefused \/ DownloadSegmentRefused
             \/ ConfirmAbort \/ UploadSegmentRefused
    BY <1>1, <2>2, RefusalPair
  <2>3. CASE DownloadExpedited
    BY <1>1, <1>2, <2>3, ExpeditedCompletes, CompletedPair
  <2>4. CASE DownloadInitiate
    BY <1>1, <1>2, <2>4, DownloadInitiatePair
  <2>5. CASE DownloadSegment
    BY <1>1, <1>2, <2>5, SegmentCompletes, CompletedPair, DownloadSegmentPair
  <2>6. CASE ConfirmPending
    BY <1>1, <1>2, <2>6, ConfirmPendingPair
  <2>7. CASE \E a \in {"success", "copy_and_success"} : ConfirmSuccess(a)
    BY <1>1, <1>2, <2>7, ConfirmSuccessPair
  <2>8. CASE UploadExpedited
    BY <1>1, <1>2, <2>8, UploadExpeditedSent
  <2>9. CASE UploadInitiate
    BY <1>1, <1>2, <2>9, UploadInitiatePair
  <2>10. CASE UploadSegment
    BY <1>1, <1>2, <2>10, UploadSegmentPair
  <2>11. QED
    BY <1>4, <2>1, <2>2, <2>3, <2>4, <2>5, <2>6, <2>7, <2>8, <2>9, <2>10 DEF ServerStep
<1>5. QED
  BY <1>1, <1>3, <1>4 DEF ServerProcess

\* A step that changes nothing.
LEMMA PairStutter ==
  ASSUME PairInv, UNCHANGED vars
  PROVE  PairInv'
<1>1. /\ srv' = srv /\ mem' = mem /\ accepted' = accepted /\ cli' = cli
      /\ toServer' = toServer /\ toClient' = toClient /\ losses' = losses
  BY DEF vars, serverVars, wires
<1>2. IndInv' /\ OnePlace' /\ ClientFits(cli)' /\ ServerSound'
  BY <1>1, PairParts, ServerStays
  DEF IndInv, AnyTypeOK, OnePlace, ClientFits, ServerSound, Waiting, NothingUnderWay, NothingOnTheBus, wires,
      serverVars
<1>3. Handed'
  <2>1. Confirming' = Confirming
    BY <1>1 DEF Confirming, Filled
  <2>2. Asks(Head(toServer))' = Asks(Head(toServer)) /\ Asks(srv.rx)' = Asks(srv.rx)
    BY <1>1 DEF Asks, Filled, ServerAt, NextBytes, SegmentSize
  <2>3. Replies(Head(toClient))' = Replies(Head(toClient)) /\ Replies(cli.rx)' = Replies(cli.rx)
    BY <1>1 DEF Replies, Filled, ServerAt, Stored, LastToCome
  <2>4. QED
    BY <1>1, <2>1, <2>2, <2>3, PairParts DEF Handed
<1>4. QED
  BY <1>1, <1>2, <1>3, PairParts, MovesOnly

\* The invariant is inductive.
LEMMA PairStep ==
  ASSUME PairInv, Patient, WholeObjects, [Next]_vars
  PROVE  PairInv'
<1>1. CASE Request
  BY <1>1, RequestPair
<1>2. CASE Client
  BY <1>2, ClientPair
<1>3. CASE Overdue
  BY <1>3, ClientGivesUpPair
<1>4. CASE Server
  BY <1>4, ServerPair
<1>5. CASE DeliverToServer
  BY <1>5, DeliverToServerPair
<1>6. CASE DeliverToClient
  BY <1>6, DeliverToClientPair
<1>7. CASE Lose
  BY <1>7, LosePair
<1>8. CASE UNCHANGED vars
  BY <1>8, PairStutter
<1>9. QED
  BY <1>1, <1>2, <1>3, <1>4, <1>5, <1>6, <1>7, <1>8 DEF Next

\* With a client that waits longer than any answer takes, and applications that
\* read and write whole objects, the two sides of a transfer never disagree about
\* it: one request or one answer is under way, and it is the one the other side
\* expects, whatever frames are lost.
THEOREM PairInvHolds ==
  ASSUME Patient, WholeObjects
  PROVE  Spec => []PairInv
<1>1. Init => PairInv
  BY PairInit
<1>2. PairInv /\ [Next]_vars => PairInv'
  BY PairStep
<1>3. QED
  BY <1>1, <1>2, PTL DEF Spec

\* A success is true: what CO_SDOclient_process reports as stored has been stored,
\* what the server confirms is one whole transfer, and what an upload has read is
\* the object as it is.
THEOREM SuccessHolds ==
  ASSUME Patient, WholeObjects
  PROVE  Spec => []SuccessIsTrue
<1>1. PairInv => SuccessIsTrue
  BY DEF PairInv, SuccessIsTrue
<1>2. QED
  BY <1>1, PairInvHolds, PTL

\* The slot for one received frame that each side has is always free when a frame
\* arrives, so that CO_can_receive_basic_handle overwrites none.
THEOREM SlotHolds ==
  ASSUME Patient, WholeObjects
  PROVE  Spec => []SlotIsFree
<1>1. PairInv => SlotIsFree
  <2> SUFFICES ASSUME PairInv PROVE SlotIsFree
    OBVIOUS
  <2>1. OnePlace /\ toServer \in Seq(Frame) /\ toClient \in Seq(Frame)
    BY PairParts DEF IndInv, AnyTypeOK
  <2>2. ASSUME NEW w \in Seq(Frame), Len(w) <= 1, w # <<>>
        PROVE  Len(w) = 1
    <3>1. Len(w) \in Nat /\ Len(w) # 0
      BY <2>2, LenProperties, EmptySeq
    <3>2. QED
      BY <2>2, <3>1
  <2>3. QED
    BY <2>1, <2>2 DEF OnePlace, SlotIsFree
<1>2. QED
  BY <1>1, PairInvHolds, PTL

----------------------------------------------------------------------------
(* The atomic transfer.                                                      *)

\* Configurations in which a download takes effect at one moment: what needs
\* several frames is collected beside the data, and what is confirmed becomes
\* effective with the confirmation.
AtOnce ==
  /\ AfterReset = {} /\ "success" \notin Answers
  /\ \A o \in Objects : ObjLen[o] > ExpeditedBytes => o \in Ext \cup Temp

\* A download that is confirmed is not written again: only the final answer is
\* still on its way.
OnceOnly ==
  cli.state # "IDLE" /\ ~cli.upload /\ Taken =>
    /\ toServer = <<>> /\ ~srv.new /\ ~srv.internal
    /\ \/ cli.state = "DOWNLOAD_INITIATE_RSP" /\ cli.size <= ExpeditedBytes
       \/ cli.state = "DOWNLOAD_SEGMENTED" /\ cli.size <= cli.offset

AtomicInv == PairInv /\ OnceOnly

\* The step is one of the atomic transfer, or none, and keeps OnceOnly.
AtomicStep == OnceOnly' /\ [Abstract!Next]_<<mem["data"], Operation>>

\* The operation with the values of its fields named.
LEMMA OperationIs ==
  ASSUME NEW d, d = (~cli.upload /\ Taken),
         NEW g, g = IF cli.upload /\ cli.status = "success" THEN cli.buf ELSE <<>>
  PROVE  Operation = [id |-> cli.id, status |-> cli.status, upload |-> cli.upload,
                      done |-> d, got |-> g]
BY DEF Operation

\* The same of the operation after the step.
LEMMA OperationBecomes ==
  ASSUME NEW d, d = (~cli'.upload /\ Taken'),
         NEW g, g = IF cli'.upload /\ cli'.status = "success" THEN cli'.buf ELSE <<>>
  PROVE  Operation' = [id |-> cli'.id, status |-> cli'.status, upload |-> cli'.upload,
                       done |-> d, got |-> g]
BY DEF Operation

\* Steps that the atomic transfer does not see.
LEMMA Unseen ==
  ASSUME mem'["data"] = mem["data"], accepted' = accepted, cli'.id = cli.id,
         cli'.status = cli.status, cli'.upload = cli.upload,
         cli'.buf = cli.buf \/ cli.status = "busy"
  PROVE  [Abstract!Next]_<<mem["data"], Operation>>
<1>1. Taken' = Taken
  BY DEF Taken
<1>2. PICK d : d = (~cli.upload /\ Taken)
  OBVIOUS
<1>3. PICK g : g = IF cli.upload /\ cli.status = "success" THEN cli.buf ELSE <<>>
  OBVIOUS
<1>4. Operation = [id |-> cli.id, status |-> cli.status, upload |-> cli.upload,
                   done |-> d, got |-> g]
  BY <1>2, <1>3, OperationIs
<1>5. Operation' = [id |-> cli.id, status |-> cli.status, upload |-> cli.upload,
                    done |-> d, got |-> g]
  BY <1>1, <1>2, <1>3 DEF Operation
<1>6. QED
  BY <1>4, <1>5

\* The transfer begins.
LEMMA Begins ==
  ASSUME cli.status # "busy", NEW up \in BOOLEAN, ~up => ~Taken',
         cli.id \in Nat, cli'.id = cli.id + 1, cli'.status = "busy", cli'.upload = up,
         mem' = mem
  PROVE  Abstract!Begin
<1>1. PICK i : i = cli.id + 1
  OBVIOUS
<1>2. PICK d : d = FALSE
  OBVIOUS
<1>3. PICK g : g = <<>>
  OBVIOUS
<1>4. d = (~cli'.upload /\ Taken')
  BY <1>2
<1>5. Operation' = [id |-> i, status |-> "busy", upload |-> up, done |-> d, got |-> g]
  BY <1>1, <1>3, <1>4, OperationBecomes
<1>6. Operation.id = cli.id /\ Operation.status = cli.status
  BY DEF Operation
<1>7. PICK f : f = FALSE
  OBVIOUS
<1>8. PICK r0 : r0 = [id |-> 0, status |-> "idle", upload |-> f, done |-> d, got |-> g]
  OBVIOUS
<1>9. r0 = Abstract!NoOp
  BY <1>2, <1>3, <1>7, <1>8 DEF Abstract!NoOp
<1>10. PICK r1 : r1 = [r0 EXCEPT !.id = i]
  OBVIOUS
<1>11. r1 = [id |-> i, status |-> "idle", upload |-> f, done |-> d, got |-> g]
  BY <1>8, <1>10
<1>12. PICK r2 : r2 = [r1 EXCEPT !.status = "busy"]
  OBVIOUS
<1>13. r2 = [id |-> i, status |-> "busy", upload |-> f, done |-> d, got |-> g]
  BY <1>11, <1>12
<1>14. Operation' = [r2 EXCEPT !.upload = up]
  BY <1>5, <1>13
<1>15. Operation' = [r0 EXCEPT !.id = i, !.status = "busy", !.upload = up]
  BY <1>10, <1>12, <1>14
<1>16. QED
  BY <1>1, <1>6, <1>9, <1>15 DEF Abstract!Begin

\* It ends without success.
LEMMA Fails ==
  ASSUME cli.status = "busy", cli'.status = "abort", cli'.id = cli.id,
         cli'.upload = cli.upload, accepted' = accepted, mem' = mem
  PROVE  Abstract!Fail
<1>1. Taken' = Taken
  BY DEF Taken
<1>2. PICK d : d = (~cli.upload /\ Taken)
  OBVIOUS
<1>3. Operation = [id |-> cli.id, status |-> "busy", upload |-> cli.upload,
                   done |-> d, got |-> <<>>]
  BY <1>2 DEF Operation
<1>4. Operation' = [id |-> cli.id, status |-> "abort", upload |-> cli.upload,
                    done |-> d, got |-> <<>>]
  BY <1>1, <1>2 DEF Operation
<1>5. QED
  BY <1>3, <1>4 DEF Abstract!Fail

\* A download ends with success: it has been taken.
LEMMA DownloadSucceeds ==
  ASSUME cli.status = "busy", cli'.status = "success", cli'.id = cli.id,
         ~cli.upload, cli'.upload = cli.upload, accepted' = accepted, mem' = mem, Taken
  PROVE  Abstract!Succeed
<1>1. Taken'
  BY DEF Taken
<1>2. PICK d : d = TRUE
  OBVIOUS
<1>3. d = (~cli.upload /\ Taken) /\ d = (~cli'.upload /\ Taken')
  BY <1>1, <1>2
<1>4. PICK g : g = <<>>
  OBVIOUS
<1>5. Operation = [id |-> cli.id, status |-> "busy", upload |-> cli.upload,
                   done |-> d, got |-> g]
  BY <1>3, <1>4, OperationIs
<1>6. Operation' = [id |-> cli.id, status |-> "success", upload |-> cli.upload,
                    done |-> d, got |-> g]
  BY <1>3, <1>4, OperationBecomes
<1>7. Operation' = [Operation EXCEPT !.status = "success"]
  BY <1>5, <1>6
<1>8. Operation.status = "busy" /\ Operation.upload = cli.upload /\ Operation.done = d
  BY <1>5
<1>9. QED
  BY <1>2, <1>7, <1>8 DEF Abstract!Succeed

\* An upload ends with success: it has the value of an object.
LEMMA UploadSucceeds ==
  ASSUME cli.status = "busy", cli'.status = "success", cli'.id = cli.id,
         cli.upload, cli'.upload = cli.upload, mem' = mem,
         NEW o \in Objects, cli'.buf = mem["data"][o]
  PROVE  Abstract!Succeed
<1>1. PICK d : d = FALSE
  OBVIOUS
<1>2. d = (~cli.upload /\ Taken) /\ d = (~cli'.upload /\ Taken')
  BY <1>1
<1>3. PICK g : g = <<>>
  OBVIOUS
<1>4. PICK v : v = mem["data"][o]
  OBVIOUS
<1>5. Operation = [id |-> cli.id, status |-> "busy", upload |-> cli.upload,
                   done |-> d, got |-> g]
  BY <1>2, <1>3, OperationIs
<1>6. Operation' = [id |-> cli.id, status |-> "success", upload |-> cli.upload,
                    done |-> d, got |-> v]
  BY <1>2, <1>4, OperationBecomes
<1>7. PICK r : r = [Operation EXCEPT !.status = "success"]
  OBVIOUS
<1>8. r = [id |-> cli.id, status |-> "success", upload |-> cli.upload, done |-> d, got |-> g]
  BY <1>5, <1>7
<1>9. Operation' = [r EXCEPT !.got = v]
  <2>1. PICK u : u = cli.upload
    OBVIOUS
  <2>2. PICK w : w = [r EXCEPT !.got = v]
    OBVIOUS
  <2>3. w = [id |-> cli.id, status |-> "success", upload |-> u, done |-> d, got |-> v]
    BY <1>8, <2>1, <2>2
  <2>4. QED
    BY <1>6, <2>1, <2>2, <2>3
<1>10. Operation' = [Operation EXCEPT !.status = "success", !.got = v]
  BY <1>7, <1>9
<1>11. Operation.status = "busy" /\ Operation.upload = cli.upload
  BY <1>5
<1>12. QED
  BY <1>4, <1>10, <1>11 DEF Abstract!Succeed

\* A download takes effect.
LEMMA Writes ==
  ASSUME cli' = cli, cli.status = "busy", ~cli.upload, ~Taken, Taken',
         NEW o \in Objects,
         mem'["data"] = [mem["data"] EXCEPT ![o] = Payload(cli.id, ObjLen[o])]
  PROVE  Abstract!Write
<1>1. PICK n : n = FALSE
  OBVIOUS
<1>2. PICK y : y = TRUE
  OBVIOUS
<1>3. n = (~cli.upload /\ Taken) /\ y = (~cli'.upload /\ Taken')
  BY <1>1, <1>2
<1>4. PICK g : g = <<>>
  OBVIOUS
<1>5. Operation = [id |-> cli.id, status |-> "busy", upload |-> cli.upload,
                   done |-> n, got |-> g]
  BY <1>3, <1>4, OperationIs
<1>6. Operation' = [id |-> cli.id, status |-> "busy", upload |-> cli.upload,
                    done |-> y, got |-> g]
  BY <1>3, <1>4, OperationBecomes
<1>7. Operation' = [Operation EXCEPT !.done = y]
  BY <1>5, <1>6
<1>8. /\ Operation.id = cli.id /\ Operation.status = "busy"
      /\ Operation.upload = cli.upload /\ Operation.done = n
  BY <1>5
<1>9. mem'["data"] = [mem["data"] EXCEPT ![o] = Abstract!Value(Operation.id, ObjLen[o])]
  BY <1>8 DEF Abstract!Value, Payload
<1>10. QED
  BY <1>1, <1>2, <1>7, <1>8, <1>9 DEF Abstract!Write

----------------------------------------------------------------------------
(* Every step of the pair is one of the atomic transfer.                     *)

\* While the server can still write the download, it has not been taken.
LEMMA NotTaken ==
  ASSUME AtomicInv, cli.state # "IDLE", ~cli.upload,
         \/ srv.new \/ srv.internal \/ toServer # <<>>
         \/ cli.state = "DOWNLOAD_INITIATE_REQ"
         \/ cli.state = "DOWNLOAD_INITIATE_RSP" /\ ~(cli.size <= ExpeditedBytes)
         \/ cli.state = "DOWNLOAD_SEGMENTED" /\ ~(cli.size <= cli.offset)
  PROVE  ~Taken
BY DEF AtomicInv, OnceOnly

\* A new transfer has not been taken.
LEMMA NewIsNotTaken ==
  ASSUME PairInv, accepted' = accepted, cli'.id = cli.id + 1
  PROVE  ~Taken'
<1> SUFFICES ASSUME NEW a \in accepted, a.data # <<>>, a.data[1][1] = cli.id + 1
             PROVE  FALSE
  BY DEF Taken
<1>1. AcceptedIsOneTransfer /\ cli \in Clients /\ accepted \subseteq Download
  BY PairParts, IndInvParts
<1>2. PICK i \in 1..cli.id : a.data = Payload(i, Len(a.data))
  BY <1>1 DEF AcceptedIsOneTransfer
<1>3. cli.id \in Nat /\ i \in Nat /\ i <= cli.id
  BY <1>1, <1>2 DEF Clients
<1>4. a.data \in Seq(Byte)
  BY <1>1 DEF Download
<1>5. Len(a.data) \in Nat /\ Len(a.data) # 0
  BY <1>4, LenProperties, EmptySeq
<1>6. 1 \in 1..Len(a.data)
  BY <1>5
<1>7. Payload(i, Len(a.data))[1] = <<i, 1>>
  BY <1>3, <1>5, <1>6, PayloadType
<1>8. a.data[1] = <<i, 1>>
  BY <1>2, <1>7
<1>9. a.data[1][1] = i
  BY <1>8
<1>10. QED
  BY <1>3, <1>9

\* A download with at least one byte that is confirmed has been taken.
LEMMA StoredIsTaken ==
  ASSUME NEW all, NEW o, NEW i \in Nat, NEW n \in Nat, n # 0,
         [obj |-> o, data |-> Payload(i, n)] \in all
  PROVE  \E a \in all : a.data # <<>> /\ a.data[1][1] = i
<1>1. 1 \in 1..n
  OBVIOUS
<1>2. PICK v : v = Payload(i, n)
  OBVIOUS
<1>3. v \in Seq(Byte) /\ Len(v) = n /\ v[1] = <<i, 1>>
  BY <1>1, <1>2, PayloadType
<1>4. v # <<>>
  BY <1>3, EmptySeq
<1>5. PICK a : a = [obj |-> o, data |-> v]
  OBVIOUS
<1>6. a \in all /\ a.data = v
  BY <1>2, <1>5
<1>7. a.data # <<>> /\ a.data[1][1] = i
  BY <1>3, <1>4, <1>6
<1>8. QED
  BY <1>6, <1>7

\* What the server confirms is the client's transfer.
LEMMA ConfirmedIsTaken ==
  ASSUME cli \in Clients, cli' = cli, cli.size # 0, Stored'
  PROVE  Taken'
<1>1. PICK all : all = accepted'
  OBVIOUS
<1>2. PICK i \in Nat, n \in Nat : i = cli.id /\ n = cli.size
  BY DEF Clients
<1>3. [obj |-> cli.mux, data |-> Payload(i, n)] \in all /\ n # 0
  BY <1>1, <1>2 DEF Stored
<1>4. \E a \in all : a.data # <<>> /\ a.data[1][1] = i
  BY <1>3, StoredIsTaken
<1>5. QED
  BY <1>1, <1>2, <1>4 DEF Taken

\* A step of the server that confirms nothing and leaves the data alone.
LEMMA ServerUnseen ==
  ASSUME AtomicInv, srv.new \/ srv.internal, cli' = cli, accepted' = accepted,
         mem'["data"] = mem["data"]
  PROVE  AtomicStep
<1>1. Waiting /\ ClientFits(cli)
  BY ServerTurn DEF AtomicInv
<1>2. cli.state # "IDLE"
  BY <1>1 DEF Waiting
<1>3. [Abstract!Next]_<<mem["data"], Operation>>
  BY Unseen
<1>4. ~cli.upload => ~Taken
  BY <1>2, NotTaken
<1>5. Taken' = Taken
  BY DEF Taken
<1>6. OnceOnly'
  BY <1>4, <1>5 DEF OnceOnly
<1>7. QED
  BY <1>3, <1>6 DEF AtomicStep

\* A step of the server that confirms the client's download.
LEMMA ServerWrites ==
  ASSUME AtomicInv, srv.new \/ srv.internal, cli' = cli, Stored', cli.mux \in Objects,
         cli.size # 0, ~srv'.new, ~srv'.internal, toServer' = toServer,
         \/ cli.state = "DOWNLOAD_INITIATE_RSP" /\ cli.size <= ExpeditedBytes
         \/ cli.state = "DOWNLOAD_SEGMENTED" /\ cli.size <= cli.offset,
         mem'["data"] = [mem["data"] EXCEPT ![cli.mux] = Payload(cli.id, ObjLen[cli.mux])]
  PROVE  AtomicStep
<1>1. Waiting /\ ClientFits(cli) /\ cli \in Clients /\ cli.status = "busy" /\ toServer = <<>>
  BY ServerTurn DEF AtomicInv
<1>2. ~cli.upload /\ cli.state # "IDLE"
  BY <1>1 DEF ClientFits
<1>3. ~Taken
  BY <1>2, NotTaken
<1>4. Taken'
  BY <1>1, ConfirmedIsTaken
<1>5. Abstract!Write
  BY <1>1, <1>2, <1>3, <1>4, Writes
<1>6. OnceOnly'
  BY <1>1 DEF OnceOnly
<1>7. QED
  BY <1>5, <1>6 DEF AtomicStep, Abstract!Next

\* The server has the last byte: the download takes effect with the confirmation,
\* or nothing is to be seen while the extension is at work.
LEMMA CompletedAtomic ==
  ASSUME AtomicInv, AtOnce, WholeObjects, cli' = cli, NEW s, NEW m, Completes(s, m)
  PROVE  AtomicStep
<1>1. PairInv /\ srv.new /\ s \in Servers /\ Memory(m) /\ Memory(mem) /\ Completed(s, m)
      /\ ~s.internal /\ cli.mux \in Objects /\ s.obj = cli.mux /\ s.len = cli.size
  BY PairParts DEF Completes, AtomicInv, IndInv
<1>2. PICK v : m = [mem EXCEPT ![Itf(cli.mux)][cli.mux] = v]
  BY DEF Completes
<1>3. \A k \in 1..cli.size : m[Itf(cli.mux)][cli.mux][k] = <<cli.id, k>>
  BY DEF Completes
<1>4. \/ /\ cli.state = "DOWNLOAD_INITIATE_RSP" /\ cli.size \in 1..ExpeditedBytes
      \/ /\ cli.state = "DOWNLOAD_SEGMENTED" /\ cli.size <= cli.offset
  BY DEF Completes
<1>5. CASE cli.mux \in Ext
  <2>1. mem' = m /\ accepted' = accepted
    BY <1>1, <1>5 DEF Completed
  <2>2. Itf(cli.mux) = "shadow"
    BY <1>5 DEF Itf
  <2>3. mem'["data"] = mem["data"]
    BY <1>1, <1>2, <2>1, <2>2 DEF Memory, Buffers
  <2>4. QED
    BY <1>1, <2>1, <2>3, ServerUnseen
<1>6. CASE cli.mux \notin Ext
  <2>1. /\ Return([s EXCEPT !.state = "IDLE"]) /\ mem' = Commit(m, cli.mux)
        /\ Confirmed(cli.mux, m, cli.size) /\ ServerSend(s.tx)
    BY <1>1, <1>6 DEF Completed
  <2>2. ~srv'.new /\ ~srv'.internal /\ toServer' = toServer
    BY <1>1, <2>1 DEF Return, Servers, ServerSend
  <2>3. Stored'
    BY <1>1, <1>3, <1>4, <2>1, ConfirmedPair
  <2>4. /\ cli.size = ObjLen[cli.mux]
        /\ m[Itf(cli.mux)][cli.mux] = Payload(cli.id, cli.size)
    BY <1>1, <1>3, <1>4, WholeDownload
  <2>5. cli.size # 0
    BY <1>1, <1>4, PairParts DEF ClientFits, Clients, ExpeditedBytes
  <2>6. PICK p : p = Payload(cli.id, ObjLen[cli.mux])
    OBVIOUS
  <2>7. mem'["data"] = [mem["data"] EXCEPT ![cli.mux] = p]
    <3>1. CASE cli.mux \in Temp
      <4>1. Itf(cli.mux) = "temp" /\ cli.mux \in Temp \ AfterReset
        BY <1>6, <3>1 DEF Itf, AtOnce
      <4>2. mem' = [m EXCEPT !["data"][cli.mux] = m["temp"][cli.mux]]
        BY <2>1, <4>1 DEF Commit
      <4>3. m["temp"][cli.mux] = p /\ m["data"] = mem["data"]
        BY <1>1, <1>2, <2>4, <2>6, <4>1 DEF Memory, Buffers
      <4>4. QED
        BY <1>1, <4>2, <4>3 DEF Memory, Buffers
    <3>2. CASE cli.mux \notin Temp
      <4>1. Itf(cli.mux) = "data" /\ mem' = m
        BY <1>6, <2>1, <3>2 DEF Itf, Commit
      <4>2. m["data"] = [mem["data"] EXCEPT ![cli.mux] = v]
        BY <1>1, <1>2, <4>1 DEF Memory, Buffers
      <4>3. v = p
        BY <1>1, <2>4, <2>6, <4>1, <4>2 DEF Memory, Buffers
      <4>4. QED
        BY <4>1, <4>2, <4>3
    <3>3. QED
      BY <3>1, <3>2
  <2>8. cli.size <= ExpeditedBytes \/ cli.state = "DOWNLOAD_SEGMENTED"
    BY <1>4
  <2>9. QED
    BY <1>1, <1>4, <2>2, <2>3, <2>5, <2>6, <2>7, <2>8, ServerWrites
<1>7. QED
  BY <1>5, <1>6

\* The extension answers: the download takes effect as it is confirmed.
LEMMA ConfirmSuccessAtomic ==
  ASSUME AtomicInv, AtOnce, WholeObjects, cli' = cli,
         NEW a \in {"success", "copy_and_success"}, ConfirmSuccess(a)
  PROVE  AtomicStep
<1>1. /\ srv.internal /\ a \in Answers
      /\ Return([Entered EXCEPT !.internal = FALSE, !.timer = FALSE, !.state = "IDLE"])
      /\ mem' = IF a = "copy_and_success" THEN CopyShadow(Entered.obj) ELSE mem
      /\ Confirmed(Entered.obj, mem, srv.len) /\ ServerSend(srv.tx)
  BY DEF ConfirmSuccess, Answer, Asked
<1>2. /\ Entered = srv /\ Confirming /\ Waiting /\ PairInv
      /\ cli.mux \in Ext /\ srv.obj = cli.mux /\ srv.len = cli.size
      /\ srv \in Servers /\ cli.mux \in Objects /\ cli \in Clients /\ ClientFits(cli)
  BY <1>1, ExtensionAsked, ObjectAssumption DEF AtomicInv
<1>3. mem' = CopyShadow(cli.mux)
  BY <1>1, <1>2 DEF AtOnce
<1>4. ~srv'.internal /\ ~srv'.new /\ toServer' = toServer
  BY <1>1, <1>2 DEF Return, Servers, ServerSend
<1>5. Memory(mem) /\ cli.state # "IDLE"
  BY <1>2, PairParts DEF IndInv, Waiting
<1>6. \A k \in 1..cli.size : mem[Itf(cli.mux)][cli.mux][k] = <<cli.id, k>>
  BY <1>2 DEF Confirming, Filled
<1>7. Stored'
  BY <1>1, <1>2, <1>5, <1>6, ConfirmedPair
<1>8. /\ cli.size = ObjLen[cli.mux]
      /\ mem[Itf(cli.mux)][cli.mux] = Payload(cli.id, cli.size)
  BY <1>2, <1>5, <1>6, WholeDownload
<1>9. PICK p : p = Payload(cli.id, ObjLen[cli.mux])
  OBVIOUS
<1>10. mem["shadow"][cli.mux] = p
  BY <1>2, <1>8, <1>9 DEF Itf
<1>11. mem'["data"] = [mem["data"] EXCEPT ![cli.mux] = p]
  <2>1. cli.mux \notin Temp \cap AfterReset
    BY DEF AtOnce
  <2>2. mem' = [mem EXCEPT !["temp"][cli.mux] = IF cli.mux \in Temp THEN p ELSE @,
                           !["data"][cli.mux] = p]
    BY <1>3, <1>10, <2>1 DEF CopyShadow
  <2>3. PICK m : m = [mem EXCEPT !["temp"][cli.mux] = IF cli.mux \in Temp THEN p ELSE @]
    OBVIOUS
  <2>4. m["data"] = mem["data"] /\ mem' = [m EXCEPT !["data"][cli.mux] = p]
    BY <1>5, <2>2, <2>3 DEF Memory, Buffers
  <2>5. "data" \in DOMAIN m
    BY <1>5, <2>3 DEF Memory, Buffers
  <2>6. QED
    BY <2>4, <2>5
<1>12. /\ \/ cli.state = "DOWNLOAD_INITIATE_RSP" /\ cli.size <= ExpeditedBytes
          \/ cli.state = "DOWNLOAD_SEGMENTED" /\ cli.size <= cli.offset
       /\ cli.size # 0
  BY <1>2 DEF Confirming, ClientFits, Clients, ExpeditedBytes
<1>13. QED
  BY <1>1, <1>2, <1>4, <1>7, <1>9, <1>11, <1>12, ServerWrites

\* Every call of CO_SDOserver_process is at most one step of the atomic transfer.
LEMMA ServerAtomic ==
  ASSUME AtomicInv, AtOnce, WholeObjects, Server
  PROVE  AtomicStep
<1>1. ServerProcess /\ cli' = cli /\ PairInv
  BY DEF Server, AtomicInv
<1>2. CASE ServerTimeout \/ ServerNothing
  <2>1. mem' = mem /\ accepted' = accepted /\ toServer' = toServer
    BY <1>2 DEF ServerTimeout, ServerNothing, wires
  <2>2. [Abstract!Next]_<<mem["data"], Operation>>
    BY <1>1, <2>1, Unseen
  <2>3. ~srv'.new /\ ~srv'.internal
    <3>1. srv \in Servers /\ (srv.state = "IDLE" => ~srv.internal)
      BY <1>1, PairParts DEF IndInv, AnyTypeOK, ServerTypeOK, Handed, Confirming
    <3>2. CASE ServerTimeout
      BY <3>1, <3>2 DEF ServerTimeout, Aborted, Servers
    <3>3. CASE ServerNothing
      BY <3>1, <3>3 DEF ServerNothing, Return, Servers
    <3>4. QED
      BY <1>2, <3>2, <3>3
  <2>4. OnceOnly'
    <3>1. Taken' = Taken
      BY <1>1, <2>1 DEF Taken
    <3>2. QED
      BY <1>1, <2>1, <2>3, <3>1 DEF AtomicInv, OnceOnly
  <2>5. QED
    BY <2>2, <2>4 DEF AtomicStep
<1>3. CASE ServerStep
  <2>1. CASE ClientAbort \/ ConfirmThroughNull
    BY <1>1, <2>1, NeverOnServer
  <2>2. CASE \/ RefuseFirstMsg \/ DownloadInitiateRefused \/ DownloadSegmentRefused
             \/ ConfirmAbort \/ UploadSegmentRefused \/ DownloadInitiate
             \/ ConfirmPending \/ UploadExpedited \/ UploadInitiate \/ UploadSegment
    <3>1. mem' = mem /\ accepted' = accepted
      BY <2>2 DEF RefuseFirstMsg, DownloadInitiateRefused, DownloadSegmentRefused,
         ConfirmAbort, UploadSegmentRefused, Respond_Abort, DownloadInitiate,
         ConfirmPending, UploadExpedited, UploadInitiate, UploadSegment
    <3>2. srv.new \/ srv.internal
      BY <2>2 DEF RefuseFirstMsg, FirstMsg, DownloadInitiateRefused, DownloadSegmentRefused,
         ConfirmAbort, UploadSegmentRefused, DownloadInitiate, ConfirmPending,
         UploadExpedited, UploadInitiate, UploadSegment, Answer, Asked, Reached
    <3>3. QED
      BY <1>1, <3>1, <3>2, ServerUnseen
  <2>3. CASE DownloadExpedited
    BY <1>1, <2>3, ExpeditedCompletes, CompletedAtomic
  <2>4. CASE DownloadSegment
    <3>1. CASE cli.size <= cli.offset
      BY <1>1, <2>4, <3>1, SegmentCompletes, CompletedAtomic
    <3>2. CASE ~(cli.size <= cli.offset)
      <4>1. /\ srv.new /\ cli.state = "DOWNLOAD_SEGMENTED" /\ cli.mux \in Objects
        BY <1>1, <2>4, SegmentTaken
      <4>2. PICK m : /\ \E v : m = [mem EXCEPT ![Itf(cli.mux)][cli.mux] = v]
                     /\ mem' = m /\ accepted' = accepted
        BY <1>1, <2>4, <3>2, SegmentStored
      <4>3. Itf(cli.mux) \in {"shadow", "temp"}
        <5>1. cli \in Clients /\ ClientFits(cli)
          BY <1>1, PairParts
        <5>2. cli.size > ExpeditedBytes
          BY <4>1, <5>1 DEF ClientFits
        <5>3. ObjLen[cli.mux] > ExpeditedBytes
          BY <4>1, <5>1, <5>2, SizeOfTransfer
        <5>4. cli.mux \in Ext \cup Temp
          BY <4>1, <5>3 DEF AtOnce
        <5>5. QED
          BY <5>4 DEF Itf
      <4>4. mem'["data"] = mem["data"]
        BY <1>1, <4>2, <4>3, PairParts DEF IndInv, Memory, Buffers
      <4>5. QED
        BY <1>1, <4>1, <4>2, <4>4, ServerUnseen
    <3>3. QED
      BY <3>1, <3>2
  <2>5. CASE \E a \in {"success", "copy_and_success"} : ConfirmSuccess(a)
    BY <1>1, <2>5, ConfirmSuccessAtomic
  <2>6. QED
    BY <1>3, <2>1, <2>2, <2>3, <2>4, <2>5 DEF ServerStep
<1>4. QED
  BY <1>1, <1>2, <1>3 DEF ServerProcess

\* The client gives its transfer up.
LEMMA FailsAtomic ==
  ASSUME AtomicInv, cli.state # "IDLE", cli' = ClientAborted \/ cli' = Ended(cli, "abort"),
         UNCHANGED serverVars
  PROVE  AtomicStep
<1>1. cli \in Clients /\ ClientFits(cli)
  BY PairParts DEF AtomicInv
<1>2. /\ cli'.state = "IDLE" /\ cli'.status = "abort" /\ cli'.id = cli.id
      /\ cli'.upload = cli.upload
  BY <1>1 DEF ClientAborted, Ended, Clients
<1>3. cli.status = "busy" /\ accepted' = accepted /\ mem' = mem
  BY <1>1 DEF ClientFits, serverVars
<1>4. Abstract!Fail
  BY <1>2, <1>3, Fails
<1>5. QED
  BY <1>2, <1>4 DEF AtomicStep, OnceOnly, Abstract!Next

\* The client goes on with it.
LEMMA GoesOn ==
  ASSUME AtomicInv, cli.state # "IDLE", NEW s \in Clients, NEW f, Await(s, f),
         s.id = cli.id, s.upload = cli.upload, ~cli.upload => ~Taken,
         UNCHANGED serverVars
  PROVE  AtomicStep
<1>1. cli' = [s EXCEPT !.status = "busy", !.new = FALSE, !.timer = TRUE]
  BY DEF Await
<1>2. cli'.status = "busy" /\ cli'.id = cli.id /\ cli'.upload = cli.upload
  BY <1>1 DEF Clients
<1>3. cli.status = "busy" /\ accepted' = accepted /\ mem' = mem
  BY PairParts DEF AtomicInv, ClientFits, serverVars
<1>4. Taken' = Taken
  BY <1>2, <1>3 DEF Taken
<1>5. [Abstract!Next]_<<mem["data"], Operation>>
  BY <1>2, <1>3, Unseen
<1>6. OnceOnly'
  BY <1>2, <1>4 DEF OnceOnly
<1>7. QED
  BY <1>5, <1>6 DEF AtomicStep

\* The download ends with success.
LEMMA DownloadEnds ==
  ASSUME AtomicInv, cli.state # "IDLE", ~cli.upload, Stored, cli.size # 0,
         NEW s \in Clients, s.id = cli.id, s.upload = cli.upload,
         cli' = Ended(s, "success"), UNCHANGED serverVars
  PROVE  AtomicStep
<1>1. cli \in Clients /\ ClientFits(cli)
  BY PairParts DEF AtomicInv
<1>2. /\ cli'.state = "IDLE" /\ cli'.status = "success" /\ cli'.id = cli.id
      /\ cli'.upload = cli.upload
  BY DEF Ended, Clients
<1>3. cli.status = "busy" /\ accepted' = accepted /\ mem' = mem
  BY <1>1 DEF ClientFits, serverVars
<1>4. Taken
  <2>1. cli.id \in Nat /\ cli.size \in Nat
    BY <1>1 DEF Clients
  <2>2. [obj |-> cli.mux, data |-> Payload(cli.id, cli.size)] \in accepted
    BY DEF Stored
  <2>3. \E a \in accepted : a.data # <<>> /\ a.data[1][1] = cli.id
    BY <2>1, <2>2, StoredIsTaken
  <2>4. QED
    BY <2>3 DEF Taken
<1>5. Abstract!Succeed
  BY <1>2, <1>3, <1>4, DownloadSucceeds
<1>6. QED
  BY <1>2, <1>5 DEF AtomicStep, OnceOnly, Abstract!Next

\* The upload ends with success.
LEMMA UploadEnds ==
  ASSUME AtomicInv, PairInv', WholeObjects, cli.state # "IDLE", cli.upload, cli.mux \in Objects,
         NEW s \in Clients, s.id = cli.id, s.upload = cli.upload, s.mux = cli.mux,
         Len(s.buf) = Len(cli.buf), cli' = Ended(s, "success"), UNCHANGED serverVars
  PROVE  AtomicStep
<1>1. cli \in Clients /\ ClientFits(cli)
  BY PairParts DEF AtomicInv
<1>2. /\ cli'.state = "IDLE" /\ cli'.status = "success" /\ cli'.id = cli.id
      /\ cli'.upload = cli.upload /\ cli'.mux = cli.mux /\ cli'.buf = s.buf
  BY DEF Ended, Clients
<1>3. cli.status = "busy" /\ mem' = mem
  BY <1>1 DEF ClientFits, serverVars
<1>4. cli.size = ObjLen[cli.mux] /\ cli.size \in Nat /\ Len(cli.buf) = cli.size
  BY <1>1, SizeOfTransfer DEF ClientFits
<1>5. cli'.len = cli.size /\ SubSeq(cli'.buf, 1, cli'.len) = mem'["data"][cli.mux]
  BY <1>2, <1>4 DEF PairInv, UploadSuccessIsCurrent
<1>6. PICK b : b = s.buf
  OBVIOUS
<1>7. b \in Seq(Byte) /\ Len(b) = cli.size
  BY <1>4, <1>6 DEF Clients
<1>8. SubSeq(b, 1, cli.size) = b
  BY <1>4, <1>7, AgreesToTheEnd
<1>9. cli'.buf = mem["data"][cli.mux]
  BY <1>2, <1>3, <1>5, <1>6, <1>8
<1>10. Abstract!Succeed
  BY <1>2, <1>3, <1>9, UploadSucceeds
<1>11. QED
  BY <1>2, <1>10 DEF AtomicStep, OnceOnly, Abstract!Next

\* The application asks for a transfer.
LEMMA RequestAtomic ==
  ASSUME AtomicInv, Request
  PROVE  AtomicStep
<1>1. PICK up \in BOOLEAN, m \in Muxes : \E n \in ClientLens[m] : Start(up, m, n)
  BY DEF Request
<1>2. PICK n \in ClientLens[m] : Start(up, m, n)
  BY <1>1
<1>3. PairInv /\ cli \in Clients /\ ClientFits(cli)
  BY PairParts DEF AtomicInv
<1>4. cli.state = "IDLE" /\ accepted' = accepted /\ mem' = mem
  BY <1>2 DEF Start, Request, serverVars
<1>5. /\ cli'.id = cli.id + 1 /\ cli'.status = "busy" /\ cli'.upload = up
  BY <1>2, <1>3 DEF Start, Clients
<1>6. ~Taken'
  BY <1>3, <1>4, <1>5, NewIsNotTaken
<1>7. Abstract!Begin
  <2>1. cli.status # "busy" /\ cli.id \in Nat
    BY <1>3, <1>4 DEF ClientFits, Clients
  <2>2. QED
    BY <1>1, <1>4, <1>5, <1>6, <2>1, Begins
<1>8. QED
  BY <1>6, <1>7 DEF AtomicStep, OnceOnly, Abstract!Next

\* The next segment of a download is sent.
LEMMA SendSegmentAtomic ==
  ASSUME AtomicInv, cli.state # "IDLE", ~cli.upload, ~Taken, NEW off \in Nat, NEW t \in {0, 1},
         SendSegment(off, t), UNCHANGED serverVars
  PROVE  AtomicStep
<1>1. cli \in Clients
  BY PairParts DEF AtomicInv
<1>2. PICK x : x = off + SegmentSize(off)
  OBVIOUS
<1>3. x \in Nat
  BY <1>1, <1>2 DEF SegmentSize, Smaller, SegmentBytes, Clients
<1>4. PICK s : s = [cli EXCEPT !.state = "DOWNLOAD_SEGMENTED", !.toggle = t, !.offset = x]
  OBVIOUS
<1>5. s \in Clients /\ s.id = cli.id /\ s.upload = cli.upload
  BY <1>1, <1>3, <1>4 DEF Clients, ClientStates
<1>6. \E f : Await(s, f)
  BY <1>2, <1>4 DEF SendSegment
<1>7. QED
  BY <1>5, <1>6, GoesOn

\* The first answer to a download: its end, or the first segment.
LEMMA DownloadAnsweredAtomic ==
  ASSUME AtomicInv, DownloadAnswered, UNCHANGED serverVars
  PROVE  AtomicStep
<1>1. ClientAt("DOWNLOAD_INITIATE_RSP") /\ PairInv
  BY DEF DownloadAnswered, AtomicInv
<1>2. /\ cli.state = "DOWNLOAD_INITIATE_RSP" /\ cli \in Clients /\ ClientFits(cli)
      /\ cli.rx.cs # "ABORT" /\ Replies(cli.rx)
  BY <1>1, AnswerTaken
<1>3. ~cli.upload /\ cli.len = cli.size /\ cli.toggle = 0
  BY <1>2 DEF ClientFits
<1>4. CASE cli.len <= ExpeditedBytes
  <2>1. cli' = Ended(cli, "success")
    BY <1>4 DEF DownloadAnswered
  <2>2. Stored /\ cli.size # 0
    BY <1>2, <1>3, <1>4 DEF Replies
  <2>3. QED
    BY <1>2, <1>3, <2>1, <2>2, DownloadEnds
<1>5. CASE ~(cli.len <= ExpeditedBytes)
  <2>1. SendSegment(0, 0)
    BY <1>3, <1>5 DEF DownloadAnswered
  <2>2. ~Taken
    BY <1>2, <1>3, <1>5, NotTaken
  <2>3. QED
    BY <1>2, <1>3, <2>1, <2>2, SendSegmentAtomic
<1>6. QED
  BY <1>4, <1>5

\* The answer to a segment: the end of the download, or the next segment.
LEMMA DownloadSegmentAnsweredAtomic ==
  ASSUME AtomicInv, DownloadSegmentAnswered, UNCHANGED serverVars
  PROVE  AtomicStep
<1>1. ClientAt("DOWNLOAD_SEGMENTED") /\ PairInv
  BY DEF DownloadSegmentAnswered, AtomicInv
<1>2. /\ cli.state = "DOWNLOAD_SEGMENTED" /\ cli \in Clients /\ ClientFits(cli)
      /\ cli.rx.cs # "ABORT" /\ Replies(cli.rx)
  BY <1>1, AnswerTaken
<1>3. /\ ~cli.upload /\ cli.len = cli.size /\ cli.size > ExpeditedBytes
      /\ cli.toggle \in {0, 1} /\ cli.offset \in Nat /\ cli.size \in Nat
  BY <1>2 DEF ClientFits, Clients
<1>4. CASE AllSent
  <2>1. cli' = [Ended(cli, "success") EXCEPT !.toggle = Flip(cli.toggle)]
    BY <1>4 DEF DownloadSegmentAnswered
  <2>2. PICK s : s = [cli EXCEPT !.toggle = Flip(cli.toggle)]
    OBVIOUS
  <2>3. s \in Clients /\ s.id = cli.id /\ s.upload = cli.upload /\ cli' = Ended(s, "success")
    BY <1>2, <1>3, <2>1, <2>2, FlipType DEF Ended, Clients
  <2>4. Stored
    BY <1>2, <1>3, <1>4 DEF Replies, AllSent
  <2>5. cli.size # 0
    BY <1>3 DEF ExpeditedBytes
  <2>6. QED
    BY <1>2, <1>3, <2>3, <2>4, <2>5, DownloadEnds
<1>5. CASE ~AllSent
  <2>1. SendSegment(cli.offset, Flip(cli.toggle))
    BY <1>5 DEF DownloadSegmentAnswered
  <2>2. ~Taken
    BY <1>2, <1>3, <1>5, NotTaken DEF AllSent
  <2>3. QED
    BY <1>2, <1>3, <2>1, <2>2, FlipType, SendSegmentAtomic
<1>6. QED
  BY <1>4, <1>5

\* The first answer to an upload: its end, or the request for a segment.
LEMMA UploadAnsweredAtomic ==
  ASSUME AtomicInv, PairInv', WholeObjects, UploadExpeditedAnswered \/ UploadAnswered,
         UNCHANGED serverVars
  PROVE  AtomicStep
<1>1. ClientAt("UPLOAD_INITIATE_RSP") /\ PairInv
  BY DEF UploadExpeditedAnswered, UploadAnswered, AtomicInv
<1>2. /\ cli.state = "UPLOAD_INITIATE_RSP" /\ cli \in Clients /\ ClientFits(cli)
      /\ cli.rx \in Frame /\ cli.rx.cs # "ABORT" /\ Replies(cli.rx)
  BY <1>1, AnswerTaken
<1>3. cli.upload /\ cli.mux \in Objects /\ cli.buf \in Seq(Byte)
      /\ cli.rx.size \in Nat /\ cli.rx.data \in Seq(Byte)
  BY <1>2 DEF ClientFits, Replies, Clients, Frame
<1>4. CASE UploadExpeditedAnswered
  <2>1. PICK b : b = Copy(cli.buf, 0, cli.rx.data, cli.rx.size)
    OBVIOUS
  <2>2. b \in Seq(Byte) /\ Len(b) = Len(cli.buf)
    BY <1>3, <2>1, CopyType
  <2>3. PICK n \in Nat : n = cli.rx.size
    BY <1>3
  <2>4. PICK s : s = [cli EXCEPT !.len = n, !.offset = n, !.buf = b]
    OBVIOUS
  <2>5. /\ s \in Clients /\ s.id = cli.id /\ s.upload = cli.upload /\ s.mux = cli.mux
        /\ s.buf = b
    BY <1>2, <2>2, <2>4 DEF Clients
  <2>6. cli' = Ended(s, "success")
    BY <1>2, <1>4, <2>1, <2>3, <2>4 DEF UploadExpeditedAnswered, Ended, Clients
  <2>7. QED
    BY <1>2, <1>3, <2>2, <2>5, <2>6, UploadEnds
<1>5. CASE UploadAnswered
  <2>1. PICK n \in Nat : n = TransLen(cli.rx.size)
    BY <1>3, TransLenType
  <2>2. PICK s : s = [cli EXCEPT !.state = "UPLOAD_SEGMENTED", !.offset = 0, !.len = n]
    OBVIOUS
  <2>3. s \in Clients /\ s.id = cli.id /\ s.upload = cli.upload
    BY <1>2, <2>2 DEF Clients, ClientStates
  <2>4. \E f : Await(s, f)
    BY <1>5, <2>1, <2>2 DEF UploadAnswered
  <2>5. QED
    BY <1>2, <1>3, <2>3, <2>4, GoesOn
<1>6. QED
  BY <1>4, <1>5

\* The answer with a segment: the end of the upload, or the next request.
LEMMA UploadSegmentAnsweredAtomic ==
  ASSUME AtomicInv, PairInv', WholeObjects, UploadSegmentAnswered, UNCHANGED serverVars
  PROVE  AtomicStep
<1>1. ClientAt("UPLOAD_SEGMENTED") /\ PairInv
  BY DEF UploadSegmentAnswered, AtomicInv
<1>2. /\ cli.state = "UPLOAD_SEGMENTED" /\ cli \in Clients /\ ClientFits(cli)
      /\ cli.rx \in Frame
  BY <1>1, AnswerTaken
<1>3. /\ cli.upload /\ cli.mux \in Objects /\ cli.buf \in Seq(Byte)
      /\ cli.rx.data \in Seq(Byte) /\ cli.offset \in Nat /\ cli.len \in Nat
      /\ cli.offset < cli.len /\ cli.toggle \in {0, 1}
  BY <1>2 DEF ClientFits, Clients, Frame
<1>4. PICK n : n = Smaller(cli.len - cli.offset, SegmentBytes)
  OBVIOUS
<1>5. n \in Nat
  BY <1>3, <1>4 DEF Smaller, SegmentBytes
<1>6. PICK b : b = Copy(cli.buf, cli.offset, cli.rx.data, n)
  OBVIOUS
<1>7. b \in Seq(Byte) /\ Len(b) = Len(cli.buf)
  BY <1>3, <1>5, <1>6, CopyType
<1>8. PICK x \in Nat, t \in {0, 1} : x = cli.offset + n /\ t = Flip(cli.toggle)
  BY <1>3, <1>5, FlipType
<1>9. PICK s : s = [cli EXCEPT !.toggle = t, !.offset = x, !.buf = b]
  OBVIOUS
<1>10. /\ s \in Clients /\ s.id = cli.id /\ s.upload = cli.upload /\ s.mux = cli.mux
       /\ s.buf = b
  BY <1>2, <1>7, <1>9 DEF Clients
<1>11. IF LastToCome THEN cli' = Ended(s, "success") ELSE \E f : Await(s, f)
  BY <1>4, <1>6, <1>8, <1>9 DEF UploadSegmentAnswered
<1>12. QED
  BY <1>2, <1>3, <1>7, <1>10, <1>11, UploadEnds, GoesOn

\* Sending a request is not to be seen.
LEMMA RequestSentAtomic ==
  ASSUME AtomicInv, RequestDownload \/ RequestUpload, UNCHANGED serverVars
  PROVE  AtomicStep
<1>1. cli \in Clients /\ ClientFits(cli)
  BY PairParts DEF AtomicInv
<1>2. CASE RequestDownload
  <2>1. cli.state = "DOWNLOAD_INITIATE_REQ"
    BY <1>2 DEF RequestDownload, ClientAt
  <2>2. PICK s : s = [cli EXCEPT !.state = "DOWNLOAD_INITIATE_RSP", !.internal = FALSE,
                                 !.toggle = 0, !.offset = 0, !.len = cli.size]
    OBVIOUS
  <2>3. s \in Clients /\ s.id = cli.id /\ s.upload = cli.upload
    BY <1>1, <2>2 DEF Clients, ClientStates
  <2>4. \E f : Await(s, f)
    BY <1>2, <2>2 DEF RequestDownload
  <2>5. ~cli.upload /\ ~Taken
    BY <1>1, <2>1, NotTaken DEF ClientFits
  <2>6. QED
    BY <2>1, <2>3, <2>4, <2>5, GoesOn
<1>3. CASE RequestUpload
  <2>1. cli.state = "UPLOAD_INITIATE_REQ"
    BY <1>3 DEF RequestUpload, ClientAt
  <2>2. PICK s : s = [cli EXCEPT !.state = "UPLOAD_INITIATE_RSP", !.internal = FALSE,
                                 !.toggle = 0, !.offset = 0]
    OBVIOUS
  <2>3. s \in Clients /\ s.id = cli.id /\ s.upload = cli.upload
    BY <1>1, <2>2 DEF Clients, ClientStates
  <2>4. \E f : Await(s, f)
    BY <1>3, <2>2 DEF RequestUpload
  <2>5. cli.upload
    BY <1>1, <2>1 DEF ClientFits
  <2>6. QED
    BY <2>1, <2>3, <2>4, <2>5, GoesOn
<1>4. QED
  BY <1>2, <1>3

\* Every call of CO_SDOclient_process is at most one step of the atomic transfer.
LEMMA ClientAtomic ==
  ASSUME AtomicInv, PairInv', WholeObjects, Client
  PROVE  AtomicStep
<1>1. ClientStep /\ UNCHANGED serverVars /\ PairInv
  BY DEF Client, AtomicInv
<1>2. CASE ServerAbort
  BY <1>1, <1>2, FailsAtomic DEF ServerAbort
<1>3. CASE UploadExpeditedTooLong
  <2>1. cli.state = "UPLOAD_INITIATE_RSP" /\ cli' = ClientAborted
    BY <1>3 DEF UploadExpeditedTooLong, ClientAt
  <2>2. QED
    BY <1>1, <2>1, FailsAtomic
<1>4. QED
  BY <1>1, <1>2, <1>3, NothingToRefuse, RequestSentAtomic, DownloadAnsweredAtomic,
     DownloadSegmentAnsweredAtomic, UploadAnsweredAtomic, UploadSegmentAnsweredAtomic
  DEF ClientStep

\* Frames that move or are lost.
LEMMA LinkAtomic ==
  ASSUME AtomicInv, DeliverToServer \/ DeliverToClient \/ Lose
  PROVE  AtomicStep
<1>1. cli \in Clients /\ OnceOnly
  BY PairParts DEF AtomicInv
<1>2. /\ mem' = mem /\ accepted' = accepted
      /\ cli'.id = cli.id /\ cli'.status = cli.status /\ cli'.upload = cli.upload
      /\ cli'.buf = cli.buf /\ cli'.state = cli.state /\ cli'.size = cli.size
      /\ cli'.offset = cli.offset
  BY <1>1 DEF DeliverToServer, DeliverToClient, ClientReceive, Lose, serverVars, Clients
<1>3. toServer = <<>> => srv' = srv /\ toServer' = toServer
  BY DEF DeliverToServer, DeliverToClient, Lose, serverVars
<1>4. [Abstract!Next]_<<mem["data"], Operation>>
  BY <1>2, Unseen
<1>5. OnceOnly'
  <2>1. Taken' = Taken
    BY <1>2 DEF Taken
  <2>2. QED
    BY <1>1, <1>2, <1>3, <2>1 DEF OnceOnly
<1>6. QED
  BY <1>4, <1>5 DEF AtomicStep

\* Every step of the pair is a step of the atomic transfer, or none.
LEMMA EveryStepAtomic ==
  ASSUME AtomicInv, PairInv', AtOnce, WholeObjects, [Next]_vars
  PROVE  AtomicStep
<1>1. CASE Request
  BY <1>1, RequestAtomic
<1>2. CASE Client
  BY <1>2, ClientAtomic
<1>3. CASE Overdue
  BY <1>3, FailsAtomic DEF Overdue, ClientTimeout
<1>4. CASE Server
  BY <1>4, ServerAtomic
<1>5. CASE DeliverToServer \/ DeliverToClient \/ Lose
  BY <1>5, LinkAtomic
<1>6. CASE UNCHANGED vars
  <2>1. /\ srv' = srv /\ mem' = mem /\ accepted' = accepted /\ cli' = cli
        /\ toServer' = toServer
    BY <1>6 DEF vars, serverVars, wires
  <2>2. Taken' = Taken
    BY <2>1 DEF Taken
  <2>3. OnceOnly'
    BY <2>1, <2>2 DEF AtomicInv, OnceOnly
  <2>4. [Abstract!Next]_<<mem["data"], Operation>>
    BY <2>1, Unseen
  <2>5. QED
    BY <2>3, <2>4 DEF AtomicStep
<1>7. QED
  BY <1>1, <1>2, <1>3, <1>4, <1>5, <1>6 DEF Next

\* The pair begins where the atomic transfer does.
LEMMA AtomicInit ==
  ASSUME Init
  PROVE  AtomicInv /\ Abstract!Init
<1>1. PairInv
  BY PairInit
<1>2. /\ cli.state = "IDLE" /\ cli.status = "idle" /\ cli.id = 0 /\ cli.upload = FALSE
      /\ accepted = {} /\ mem = [b \in Buffers |-> [o \in Objects |-> Payload(0, ObjLen[o])]]
  BY DEF Init, ClientInit, ServerInit
<1>3. OnceOnly
  BY <1>2 DEF OnceOnly
<1>4. mem["data"] = [o \in Objects |-> Abstract!Value(0, ObjLen[o])]
  BY <1>2 DEF Buffers, Abstract!Value, Payload
<1>5. Operation = Abstract!NoOp
  <2>1. PICK d : d = FALSE
    OBVIOUS
  <2>2. PICK g : g = <<>>
    OBVIOUS
  <2>3. ~Taken
    BY <1>2 DEF Taken
  <2>4. d = (~cli.upload /\ Taken)
    BY <2>1, <2>3
  <2>5. Operation = [id |-> cli.id, status |-> cli.status, upload |-> cli.upload,
                     done |-> d, got |-> g]
    BY <1>2, <2>2, <2>4, OperationIs
  <2>6. QED
    BY <1>2, <2>1, <2>2, <2>5 DEF Abstract!NoOp
<1>6. QED
  BY <1>1, <1>3, <1>4, <1>5 DEF AtomicInv, Abstract!Init

\* Two state machines, seven-byte segments, temporary and shadow buffers and a
\* bus that loses frames are, seen from the application, one transfer that takes
\* effect at one moment or not at all: the pair implements SdoTransfer.
THEOREM TransferIsAtomic ==
  ASSUME Patient, WholeObjects, AtOnce
  PROVE  Spec => ImplementsTransfer
<1>1. Init => AtomicInv /\ Abstract!Init
  BY AtomicInit
<1>2. PairInv /\ [Next]_vars => PairInv'
  BY PairStep
<1>3. AtomicInv /\ PairInv' /\ [Next]_vars =>
        OnceOnly' /\ [Abstract!Next]_<<mem["data"], Operation>>
  BY EveryStepAtomic DEF AtomicStep
<1>4. AtomicInv => PairInv
  BY DEF AtomicInv
<1>5. PairInv' /\ OnceOnly' => AtomicInv'
  BY DEF AtomicInv
<1>6. QED
  BY <1>1, <1>2, <1>3, <1>4, <1>5, PTL DEF Spec, ImplementsTransfer, Abstract!Spec

----------------------------------------------------------------------------
(* A client that does not wait: hypotheses and invariant.                    *)
(*                                                                          *)
(* A client whose timeout runs out on a prompt bus leaves no frame on it, but *)
(* a server that may still answer, and that answer may be taken for one to a *)
(* later transfer.  The frames that are live form one conversation: the      *)
(* answers on their way to the client come first, then the answer the        *)
(* extension still owes, then the requests on their way to the server.  Each *)
(* has a stamp, the number of the client's request it is or answers; the     *)
(* stamps grow along the conversation, and only the last few are left in it. *)

\* The segment a frame carries, counted from 0.
Opens(f) == f.cs = "DOWNLOAD_INITIATE"
Carries(f) == f.cs = "DOWNLOAD_SEGMENT"
Number(f) == (f.data[1][2] - 1) \div SegmentBytes

\* A segment beyond the first, and the answer to one.
Further(f) == Carries(f) /\ Number(f) >= 1
Confirms(f) == Carries(f) /\ f.t = 1

\* The frames that are live: in a slot (place 0) or on the wire.  The server
\* answers no abort.
AnswerAt(k) == IF k = 0 THEN cli.rx ELSE toClient[k]
AnswerLives(k) == k \in 0..Len(toClient) /\ (k = 0 => cli.new)
RequestAt(k) == IF k = 0 THEN srv.rx ELSE toServer[k]
RequestLives(k) ==
  k \in 0..Len(toServer) /\ (k = 0 => srv.new) /\ RequestAt(k).cs # "ABORT"

\* A request that arrives while the extension is asked is not served as what it
\* is.
Served(k) == RequestLives(k) /\ ~(k = 0 /\ srv.internal)

\* Where the client is: out of a transfer, waiting for an answer, or waiting
\* for the answer to the first, the second or a further segment.
Idle(c) == c.state \in {"IDLE", "DOWNLOAD_INITIATE_REQ", "UPLOAD_INITIATE_REQ"}
Sending(c) == c.state = "DOWNLOAD_SEGMENTED"
Index(c) == (c.offset - 1) \div SegmentBytes
Level(c) == IF Idle(c) THEN -2
            ELSE IF ~Sending(c) THEN -1
            ELSE IF Index(c) >= 2 THEN 2 ELSE Index(c)

\* The server takes segments, and the number of the next.
Taking(s) == s.state = "DOWNLOAD_SEGMENTED" /\ ~s.internal
Due(s) == s.offset \div SegmentBytes

\* The oldest stamp there can be when n is the last one given.
Oldest(L, n) == IF L = -2 THEN n - 1 ELSE IF L = 2 THEN n ELSE n - 2

\* What is left of openings and of further segments.  Outside of a download
\* the openings are younger than v and the further segments are not.
InTurn(L, n, v, opens, further, x) ==
  /\ Oldest(L, n) <= x /\ x <= n
  /\ L < 0 => (further => x <= v) /\ (opens => x > v)
  /\ L = 0 => ~further /\ (opens => x < n)
  /\ L = 1 => (further => x = n) /\ (opens => x = n - 2)
  /\ L = 2 => ~opens

\* p is the stamp of the answer the extension owes; without one it only parts
\* the answers from the requests.
AnswersInTurn(L, n, v, p, ra) ==
  \A k \in Nat : AnswerLives(k) =>
    /\ InTurn(L, n, v, Opens(AnswerAt(k)), Confirms(AnswerAt(k)), ra[k])
    /\ ra[k] <= p /\ (srv.internal => ra[k] < p)
    /\ \A l \in Nat : AnswerLives(l) /\ l < k => ra[l] < ra[k]

OwedInTurn(L, n, v, p) ==
  srv.internal => InTurn(L, n, v, Opens(srv.tx), Confirms(srv.tx), p)

RequestsInTurn(L, n, v, p, qa) ==
  \A k \in Nat : RequestLives(k) =>
    /\ Oldest(L, n) <= qa[k] /\ qa[k] <= n /\ p < qa[k]
    /\ ~(k = 0 /\ srv.internal) =>
         InTurn(L, n, v, Opens(RequestAt(k)), Further(RequestAt(k)), qa[k])
    /\ \A l \in Nat : RequestLives(l) /\ l < k => qa[l] < qa[k]

Stamped(L, n, v, p, ra, qa) ==
  /\ v <= n /\ p <= n
  /\ AnswersInTurn(L, n, v, p, ra) /\ OwedInTurn(L, n, v, p)
  /\ RequestsInTurn(L, n, v, p, qa)

Conversation ==
  \E n \in Int, v \in Int, p \in Int, ra \in [Nat -> Int], qa \in [Nat -> Int] :
    Stamped(Level(cli), n, v, p, ra, qa)

\* The client's own part of a transfer.
ClientInStep(c) ==
  /\ c.state = "IDLE" => ~c.new
  /\ ~Idle(c) => ~c.internal
  /\ c.state \in {"DOWNLOAD_INITIATE_REQ", "DOWNLOAD_INITIATE_RSP", "DOWNLOAD_SEGMENTED"} =>
       Len(c.buf) = c.size /\ \A k \in 1..Len(c.buf) : c.buf[k][2] = k
  /\ c.state \in {"DOWNLOAD_INITIATE_RSP", "DOWNLOAD_SEGMENTED"} => c.len = c.size
  /\ c.state = "DOWNLOAD_INITIATE_RSP" => c.toggle = 0
  /\ c.state = "UPLOAD_SEGMENTED" => c.offset <= c.len
  /\ Sending(c) =>
       /\ c.offset \in 1..c.len /\ c.toggle = Index(c) % 2
       /\ c.offset < c.len => c.offset = SegmentBytes * (Index(c) + 1)

\* The server's own part.
ServerInStep(s) ==
  /\ s.state # "UPLOAD_INITIATE_RSP"
  /\ s.state = "DOWNLOAD_INITIATE_RSP" => s.internal
  /\ s.internal /\ ~s.new /\ s.state = "UPLOAD_SEGMENTED" =>
       s.rx.cs # "UPLOAD_SEGMENT" \/ s.rx.t # s.toggle
  /\ Taking(s) => s.offset = SegmentBytes * Due(s) /\ s.toggle = Due(s) % 2

\* A request carries the bytes of one segment, which its toggle bit goes with.
Placed(f) ==
  /\ Opens(f) => \A m \in 1..Len(f.data) : f.data[m][2] = m
  /\ Carries(f) => /\ f.data # <<>> /\ Number(f) \in Nat /\ f.t = Number(f) % 2
                   /\ \A m \in 1..Len(f.data) : f.data[m][2] = SegmentBytes * Number(f) + m

AllPlaced == \A k \in Nat : RequestLives(k) => Placed(RequestAt(k))

\* The segments under way are within one of the segment that is due, and in
\* order.
AllNear ==
  Taking(srv) => \A k \in Nat : Served(k) /\ Carries(RequestAt(k)) =>
                   Number(RequestAt(k)) \in Due(srv) - 1..Due(srv) + 1

InOrder ==
  \A k, l \in Nat :
    Served(k) /\ Served(l) /\ l < k
    /\ Carries(RequestAt(k)) /\ Carries(RequestAt(l)) =>
      Number(RequestAt(l)) <= Number(RequestAt(k))

\* How far the two sides can be apart, level by level.
NoLateOpening ==
  Level(cli) # 1 /\ Taking(srv) /\ Due(srv) >= 2 =>
    \A k \in Nat : AnswerLives(k) => ~Opens(AnswerAt(k))

NotBeyond ==
  Sending(cli) =>
    /\ Taking(srv) => Due(srv) <= Index(cli) + 1
    /\ \A k \in Nat : Served(k) /\ Carries(RequestAt(k)) =>
         Number(RequestAt(k)) <= Index(cli)

AnswerTellsDue ==
  Sending(cli) /\ Index(cli) >= 1 /\ Taking(srv) =>
    \A k \in Nat : AnswerLives(k) /\ Carries(AnswerAt(k)) /\ AnswerAt(k).t = cli.toggle =>
      Due(srv) = Index(cli) + 1

Lockstep ==
  Sending(cli) /\ Index(cli) >= 2 =>
    /\ Taking(srv) => Due(srv) >= Index(cli)
    /\ \A k \in Nat : Served(k) =>
         Carries(RequestAt(k)) /\ Number(RequestAt(k)) = Index(cli)

Together == NoLateOpening /\ NotBeyond /\ AnswerTellsDue /\ Lockstep

AllData == AllPlaced /\ AllNear /\ InOrder /\ Together

LateInv ==
  /\ IndInv /\ cli \in Clients
  /\ ClientInStep(cli) /\ ServerInStep(srv)
  /\ Conversation /\ AllData
  /\ BytesInPlace

----------------------------------------------------------------------------
(* Live frames.                                                              *)

\* Answers that are still under way after a step keep their stamps.
LEMMA AnswersKept ==
  ASSUME NEW L \in Int, NEW n \in Int, NEW v \in Int, NEW p \in Int,
         NEW ra \in [Nat -> Int], NEW e \in [Nat -> Nat],
         AnswersInTurn(L, n, v, p, ra),
         \A k \in Nat : AnswerLives(k)' => AnswerLives(e[k]) /\ AnswerAt(k)' = AnswerAt(e[k]),
         \A k, l \in Nat : l < k => e[l] < e[k],
         srv'.internal => srv.internal
  PROVE  AnswersInTurn(L, n, v, p, [k \in Nat |-> ra[e[k]]])'
<1> DEFINE rb == [k \in Nat |-> ra[e[k]]]
<1>1. ASSUME NEW k \in Nat, AnswerLives(k)'
      PROVE  /\ InTurn(L, n, v, Opens(AnswerAt(k)'), Confirms(AnswerAt(k)'), rb[k])
             /\ rb[k] <= p /\ (srv'.internal => rb[k] < p)
             /\ \A l \in Nat : AnswerLives(l)' /\ l < k => rb[l] < rb[k]
  <2>1. e[k] \in Nat /\ rb[k] = ra[e[k]] /\ AnswerLives(e[k]) /\ AnswerAt(k)' = AnswerAt(e[k])
    BY <1>1
  <2>2. /\ InTurn(L, n, v, Opens(AnswerAt(e[k])), Confirms(AnswerAt(e[k])), ra[e[k]])
        /\ ra[e[k]] <= p /\ (srv.internal => ra[e[k]] < p)
        /\ \A l \in Nat : AnswerLives(l) /\ l < e[k] => ra[l] < ra[e[k]]
    BY <2>1 DEF AnswersInTurn
  <2>3. ASSUME NEW l \in Nat, AnswerLives(l)', l < k
        PROVE  rb[l] < rb[k]
    BY <2>1, <2>2, <2>3
  <2>4. QED
    BY <2>1, <2>2, <2>3
<1> HIDE DEF rb
<1>2. QED
  BY <1>1 DEF AnswersInTurn, rb

\* So do requests; a request in the slot is served as what it is once the
\* extension has answered.
LEMMA RequestsKept ==
  ASSUME NEW L \in Int, NEW n \in Int, NEW v \in Int, NEW p \in Int,
         NEW qa \in [Nat -> Int], NEW e \in [Nat -> Nat],
         RequestsInTurn(L, n, v, p, qa),
         \A k \in Nat : RequestLives(k)' =>
           /\ RequestLives(e[k]) /\ RequestAt(k)' = RequestAt(e[k])
           /\ e[k] = 0 /\ srv.internal => k = 0 /\ srv'.internal,
         \A k, l \in Nat : l < k => e[l] < e[k]
  PROVE  RequestsInTurn(L, n, v, p, [k \in Nat |-> qa[e[k]]])'
<1> DEFINE qb == [k \in Nat |-> qa[e[k]]]
<1>1. ASSUME NEW k \in Nat, RequestLives(k)'
      PROVE  /\ Oldest(L, n) <= qb[k] /\ qb[k] <= n /\ p < qb[k]
             /\ ~(k = 0 /\ srv'.internal) =>
                  InTurn(L, n, v, Opens(RequestAt(k)'), Further(RequestAt(k)'), qb[k])
             /\ \A l \in Nat : RequestLives(l)' /\ l < k => qb[l] < qb[k]
  <2>1. /\ e[k] \in Nat /\ qb[k] = qa[e[k]] /\ RequestLives(e[k])
        /\ RequestAt(k)' = RequestAt(e[k])
        /\ e[k] = 0 /\ srv.internal => k = 0 /\ srv'.internal
    BY <1>1
  <2>2. /\ Oldest(L, n) <= qa[e[k]] /\ qa[e[k]] <= n /\ p < qa[e[k]]
        /\ ~(e[k] = 0 /\ srv.internal) =>
             InTurn(L, n, v, Opens(RequestAt(e[k])), Further(RequestAt(e[k])), qa[e[k]])
        /\ \A l \in Nat : RequestLives(l) /\ l < e[k] => qa[l] < qa[e[k]]
    BY <2>1 DEF RequestsInTurn
  <2>3. ASSUME NEW l \in Nat, RequestLives(l)', l < k
        PROVE  qb[l] < qb[k]
    BY <2>1, <2>2, <2>3
  <2>4. QED
    BY <2>1, <2>2, <2>3
<1> HIDE DEF qb
<1>2. QED
  BY <1>1 DEF RequestsInTurn, qb

\* The parts of a conversation.
LEMMA ConversationParts ==
  ASSUME Conversation
  PROVE  \E n \in Int, v \in Int, p \in Int, ra \in [Nat -> Int], qa \in [Nat -> Int] :
           /\ v <= n /\ p <= n
           /\ AnswersInTurn(Level(cli), n, v, p, ra)
           /\ OwedInTurn(Level(cli), n, v, p)
           /\ RequestsInTurn(Level(cli), n, v, p, qa)
BY DEF Conversation, Stamped

\* What makes a conversation after a step.
LEMMA MakesConversation ==
  ASSUME NEW n \in Int, NEW v \in Int, NEW p \in Int,
         NEW ra \in [Nat -> Int], NEW qa \in [Nat -> Int],
         v <= n, p <= n, NEW L, Level(cli') = L,
         AnswersInTurn(L, n, v, p, ra)',
         OwedInTurn(L, n, v, p)',
         RequestsInTurn(L, n, v, p, qa)'
  PROVE  Conversation'
BY DEF Conversation, Stamped

\* How far the client is decides its state, and the segment it sent last.
LEMMA LevelType ==
  ASSUME NEW c \in Clients, ClientInStep(c)
  PROVE  /\ Level(c) \in {-2, -1, 0, 1, 2} /\ Level(c) \in Int
         /\ Sending(c) => Index(c) \in Nat
         /\ Level(c) >= 0 <=> Sending(c)
         /\ Level(c) = -2 <=> Idle(c)
         /\ Level(c) = 1 <=> Sending(c) /\ Index(c) = 1
         /\ Level(c) = 2 <=> Sending(c) /\ Index(c) >= 2
<1>1. Sending(c) => Index(c) \in Nat
  <2>1. c.len \in Nat
    BY DEF Clients
  <2>2. Sending(c) => c.offset \in 1..c.len
    BY DEF ClientInStep
  <2>3. QED
    BY <2>1, <2>2 DEF Index, SegmentBytes
<1>2. Idle(c) => ~Sending(c)
  BY DEF Idle, Sending
<1>3. QED
  BY <1>1, <1>2 DEF Level

----------------------------------------------------------------------------
(* The client's moves in the conversation.                                   *)

\* The client leaves a transfer: what is left of it is an old conversation.
LEMMA TurnLeft ==
  ASSUME NEW L \in {-2, -1, 0, 1, 2}, NEW n \in Int, NEW v \in Int, v <= n
  PROVE  \E w \in Int :
           /\ w <= n
           /\ \A x \in Int, opens \in BOOLEAN, further \in BOOLEAN :
                InTurn(L, n, v, opens, further, x) /\ x > Oldest(L, n)
                  => InTurn(-2, n, w, opens, further, x)
<1> DEFINE w == IF L < 0 THEN v ELSE IF L = 0 THEN n - 3 ELSE n
<1>1. w \in Int /\ w <= n
  OBVIOUS
<1>2. ASSUME NEW x \in Int, NEW opens \in BOOLEAN, NEW further \in BOOLEAN,
             InTurn(L, n, v, opens, further, x), x > Oldest(L, n)
      PROVE  InTurn(-2, n, w, opens, further, x)
  BY <1>2, <1>1 DEF InTurn, Oldest
<1>3. QED
  BY <1>1, <1>2

\* Whether a frame opens a download, and whether it is a further segment.
LEMMA ClassType ==
  ASSUME NEW f
  PROVE  Opens(f) \in BOOLEAN /\ Further(f) \in BOOLEAN /\ Confirms(f) \in BOOLEAN
BY DEF Opens, Further, Confirms, Carries

\* The frames that a move of the client leaves, besides the answer it takes.
AnswersLeft ==
  \A k \in Nat : AnswerLives(k)' => k # 0 /\ AnswerLives(k) /\ AnswerAt(k)' = AnswerAt(k)

RequestsLeft ==
  \A k \in Nat : RequestLives(k)' => RequestLives(k) /\ RequestAt(k)' = RequestAt(k)

\* The answer that the client takes is the oldest frame there is.
LEMMA TakenIsOldest ==
  ASSUME NEW L \in {-2, -1, 0, 1, 2}, NEW n \in Int, NEW v \in Int, NEW p \in Int,
         NEW ra \in [Nat -> Int], NEW qa \in [Nat -> Int],
         AnswersInTurn(L, n, v, p, ra), OwedInTurn(L, n, v, p),
         RequestsInTurn(L, n, v, p, qa), AnswerLives(0)
  PROVE  /\ InTurn(L, n, v, Opens(cli.rx), Confirms(cli.rx), ra[0])
         /\ Oldest(L, n) <= ra[0] /\ ra[0] <= n
         /\ \A k \in Nat : AnswerLives(k) /\ k # 0 => ra[0] < ra[k]
         /\ srv.internal => ra[0] < p
         /\ \A k \in Nat : RequestLives(k) => ra[0] < qa[k]
<1>1. AnswerAt(0) = cli.rx
  BY DEF AnswerAt
<1>2. /\ InTurn(L, n, v, Opens(cli.rx), Confirms(cli.rx), ra[0])
      /\ ra[0] <= p /\ (srv.internal => ra[0] < p)
  BY <1>1 DEF AnswersInTurn
<1>3. Oldest(L, n) <= ra[0] /\ ra[0] <= n
  BY <1>2 DEF InTurn
<1>4. ASSUME NEW k \in Nat, AnswerLives(k), k # 0
      PROVE  ra[0] < ra[k]
  BY <1>4 DEF AnswersInTurn
<1>5. ASSUME NEW k \in Nat, RequestLives(k)
      PROVE  ra[0] < qa[k]
  <2>1. p < qa[k]
    BY <1>5 DEF RequestsInTurn
  <2>2. QED
    BY <1>2, <2>1
<1>6. QED
  BY <1>2, <1>3, <1>4, <1>5

\* The client gets an answer and leaves the transfer.
LEMMA ClientLeavesConversation ==
  ASSUME Conversation, NEW L \in {-2, -1, 0, 1, 2}, Level(cli) = L, Level(cli') = -2,
         AnswerLives(0), srv' = srv, AnswersLeft, RequestsLeft
  PROVE  Conversation'
<1>1. PICK n \in Int, v \in Int, p \in Int, ra \in [Nat -> Int], qa \in [Nat -> Int] :
        /\ v <= n /\ p <= n
        /\ AnswersInTurn(L, n, v, p, ra) /\ OwedInTurn(L, n, v, p)
        /\ RequestsInTurn(L, n, v, p, qa)
  BY ConversationParts
<1>2. PICK w \in Int :
        /\ w <= n
        /\ \A x \in Int, opens \in BOOLEAN, further \in BOOLEAN :
             InTurn(L, n, v, opens, further, x) /\ x > Oldest(L, n)
               => InTurn(-2, n, w, opens, further, x)
  BY <1>1, TurnLeft
<1>3. /\ Oldest(L, n) <= ra[0] /\ ra[0] <= n
      /\ \A k \in Nat : AnswerLives(k) /\ k # 0 => ra[0] < ra[k]
      /\ srv.internal => ra[0] < p
      /\ \A k \in Nat : RequestLives(k) => ra[0] < qa[k]
  BY <1>1, TakenIsOldest
<1>4. Oldest(L, n) \in Int
  BY DEF Oldest
<1>5. AnswersInTurn(-2, n, w, p, ra)'
  <2>1. ASSUME NEW k \in Nat, AnswerLives(k)'
        PROVE  /\ InTurn(-2, n, w, Opens(AnswerAt(k)'), Confirms(AnswerAt(k)'), ra[k])
               /\ ra[k] <= p /\ (srv'.internal => ra[k] < p)
               /\ \A l \in Nat : AnswerLives(l)' /\ l < k => ra[l] < ra[k]
    <3>1. k # 0 /\ AnswerLives(k) /\ AnswerAt(k)' = AnswerAt(k)
      BY <2>1 DEF AnswersLeft
    <3>2. /\ InTurn(L, n, v, Opens(AnswerAt(k)), Confirms(AnswerAt(k)), ra[k])
          /\ ra[k] <= p /\ (srv.internal => ra[k] < p)
          /\ \A l \in Nat : AnswerLives(l) /\ l < k => ra[l] < ra[k]
      BY <1>1, <3>1 DEF AnswersInTurn
    <3>3. ra[k] \in Int /\ ra[0] \in Int /\ ra[k] > Oldest(L, n)
      BY <1>3, <1>4, <3>1
    <3>4. InTurn(-2, n, w, Opens(AnswerAt(k)), Confirms(AnswerAt(k)), ra[k])
      BY <1>2, <3>2, <3>3, ClassType
    <3>5. \A l \in Nat : AnswerLives(l)' /\ l < k => ra[l] < ra[k]
      BY <3>2 DEF AnswersLeft
    <3>6. QED
      BY <3>1, <3>2, <3>4, <3>5
  <2>2. QED
    BY <2>1 DEF AnswersInTurn
<1>6. OwedInTurn(-2, n, w, p)'
  BY <1>1, <1>2, <1>3, <1>4, ClassType DEF OwedInTurn
<1>7. RequestsInTurn(-2, n, w, p, qa)'
  <2>1. ASSUME NEW k \in Nat, RequestLives(k)'
        PROVE  /\ Oldest(-2, n) <= qa[k] /\ qa[k] <= n /\ p < qa[k]
               /\ ~(k = 0 /\ srv'.internal) =>
                    InTurn(-2, n, w, Opens(RequestAt(k)'), Further(RequestAt(k)'), qa[k])
               /\ \A l \in Nat : RequestLives(l)' /\ l < k => qa[l] < qa[k]
    <3>1. RequestLives(k) /\ RequestAt(k)' = RequestAt(k)
      BY <2>1 DEF RequestsLeft
    <3>2. /\ Oldest(L, n) <= qa[k] /\ qa[k] <= n /\ p < qa[k]
          /\ ~(k = 0 /\ srv.internal) =>
               InTurn(L, n, v, Opens(RequestAt(k)), Further(RequestAt(k)), qa[k])
          /\ \A l \in Nat : RequestLives(l) /\ l < k => qa[l] < qa[k]
      BY <1>1, <3>1 DEF RequestsInTurn
    <3>3. qa[k] \in Int /\ ra[0] \in Int /\ qa[k] > Oldest(L, n)
      BY <1>3, <1>4, <3>1
    <3>4. Oldest(-2, n) <= qa[k]
      BY <3>2, <3>3 DEF Oldest
    <3>5. ~(k = 0 /\ srv.internal) =>
            InTurn(-2, n, w, Opens(RequestAt(k)), Further(RequestAt(k)), qa[k])
      BY <1>2, <3>2, <3>3, ClassType
    <3>6. \A l \in Nat : RequestLives(l)' /\ l < k => qa[l] < qa[k]
      BY <3>2 DEF RequestsLeft
    <3>7. QED
      BY <3>1, <3>2, <3>4, <3>5, <3>6
  <2>2. QED
    BY <2>1 DEF RequestsInTurn
<1>8. QED
  BY <1>1, <1>2, <1>5, <1>6, <1>7, MakesConversation

\* From one level to the next: what was answered, and what is asked.
Advances(L, M, opened, confirmed, opens, further) ==
  \/ L = -2 /\ M = -1 /\ ~further
  \/ L = -1 /\ M = -1 /\ ~opens /\ ~further
  \/ L = -1 /\ M = 0 /\ opened /\ ~opens /\ ~further
  \/ L = 0 /\ M = 1 /\ ~opens
  \/ L = 1 /\ M = 2 /\ confirmed /\ ~opens
  \/ L = 2 /\ M = 2 /\ ~opens

\* A request is new at place m, behind those that were there.
RequestAdded(m, f) ==
  \A k \in Nat : RequestLives(k)' =>
    \/ k < m /\ RequestLives(k) /\ RequestAt(k)' = RequestAt(k)
    \/ k = m /\ RequestAt(k)' = f

\* The client takes an answer, if it waited for one, and sends a request: its
\* stamp is the next.
LEMMA ClientGoesOnConversation ==
  ASSUME Conversation, NEW L \in {-2, -1, 0, 1, 2}, Level(cli) = L,
         NEW M \in {-2, -1, 0, 1, 2}, Level(cli') = M,
         NEW m \in Nat \ {0}, NEW f, RequestAdded(m, f), Advances(L, M, Opens(cli.rx), Confirms(cli.rx), Opens(f), Further(f)),
         L # -2 => AnswerLives(0), srv' = srv, AnswersLeft
  PROVE  Conversation'
<1>1. PICK n \in Int, v \in Int, p \in Int, ra \in [Nat -> Int], qa \in [Nat -> Int] :
        /\ v <= n /\ p <= n
        /\ AnswersInTurn(L, n, v, p, ra) /\ OwedInTurn(L, n, v, p)
        /\ RequestsInTurn(L, n, v, p, qa)
  BY ConversationParts
<1>2. L # -2 =>
        /\ InTurn(L, n, v, Opens(cli.rx), Confirms(cli.rx), ra[0])
        /\ \A k \in Nat : AnswerLives(k) /\ k # 0 => ra[0] < ra[k]
        /\ srv.internal => ra[0] < p
        /\ \A k \in Nat : RequestLives(k) => ra[0] < qa[k]
  <2>1. CASE L # -2
    BY <1>1, <2>1, TakenIsOldest
  <2>2. QED
    BY <2>1
<1>3. /\ \A x \in Int, opens \in BOOLEAN, further \in BOOLEAN :
           InTurn(L, n, v, opens, further, x) /\ (L # -2 => ra[0] < x)
             => InTurn(M, n + 1, v, opens, further, x)
      /\ InTurn(M, n + 1, v, Opens(f), Further(f), n + 1)
  <2>1. ra[0] \in Int /\ v <= n
    BY <1>1
  <2>2. ASSUME NEW x \in Int, NEW opens \in BOOLEAN, NEW further \in BOOLEAN,
               InTurn(L, n, v, opens, further, x), L # -2 => ra[0] < x
        PROVE  InTurn(M, n + 1, v, opens, further, x)
    BY <1>2, <2>1, <2>2 DEF InTurn, Oldest, Advances
  <2>3. InTurn(M, n + 1, v, Opens(f), Further(f), n + 1)
    BY <2>1 DEF InTurn, Oldest, Advances
  <2>4. QED
    BY <2>2, <2>3
<1>4. AnswersInTurn(M, n + 1, v, p, ra)'
  <2>1. ASSUME NEW k \in Nat, AnswerLives(k)'
        PROVE  /\ InTurn(M, n + 1, v, Opens(AnswerAt(k)'), Confirms(AnswerAt(k)'), ra[k])
               /\ ra[k] <= p /\ (srv'.internal => ra[k] < p)
               /\ \A l \in Nat : AnswerLives(l)' /\ l < k => ra[l] < ra[k]
    <3>1. k # 0 /\ AnswerLives(k) /\ AnswerAt(k)' = AnswerAt(k)
      BY <2>1 DEF AnswersLeft
    <3>2. /\ InTurn(L, n, v, Opens(AnswerAt(k)), Confirms(AnswerAt(k)), ra[k])
          /\ ra[k] <= p /\ (srv.internal => ra[k] < p)
          /\ \A l \in Nat : AnswerLives(l) /\ l < k => ra[l] < ra[k]
      BY <1>1, <3>1 DEF AnswersInTurn
    <3>3. ra[k] \in Int /\ (L # -2 => ra[0] < ra[k])
      BY <1>2, <3>1
    <3>4. InTurn(M, n + 1, v, Opens(AnswerAt(k)), Confirms(AnswerAt(k)), ra[k])
      BY <1>3, <3>2, <3>3, ClassType
    <3>5. \A l \in Nat : AnswerLives(l)' /\ l < k => ra[l] < ra[k]
      BY <3>2 DEF AnswersLeft
    <3>6. QED
      BY <3>1, <3>2, <3>4, <3>5
  <2>2. QED
    BY <2>1 DEF AnswersInTurn
<1>5. OwedInTurn(M, n + 1, v, p)'
  BY <1>1, <1>2, <1>3, ClassType DEF OwedInTurn
<1>6. PICK qb \in [Nat -> Int] : qb = [k \in Nat |-> IF k < m THEN qa[k] ELSE n + 1]
  <2>1. [k \in Nat |-> IF k < m THEN qa[k] ELSE n + 1] \in [Nat -> Int]
    OBVIOUS
  <2>2. QED
    BY <2>1
<1>7. RequestsInTurn(M, n + 1, v, p, qb)'
  <2>1. ASSUME NEW k \in Nat, RequestLives(k)', k < m
        PROVE  /\ Oldest(M, n + 1) <= qb[k] /\ qb[k] <= n /\ p < qb[k]
               /\ ~(k = 0 /\ srv'.internal) =>
                    InTurn(M, n + 1, v, Opens(RequestAt(k)'), Further(RequestAt(k)'), qb[k])
               /\ \A l \in Nat : RequestLives(l)' /\ l < k => qb[l] < qb[k]
    <3>1. RequestLives(k) /\ RequestAt(k)' = RequestAt(k)
      BY <2>1 DEF RequestAdded
    <3>2. /\ Oldest(L, n) <= qa[k] /\ qa[k] <= n /\ p < qa[k]
          /\ ~(k = 0 /\ srv.internal) =>
               InTurn(L, n, v, Opens(RequestAt(k)), Further(RequestAt(k)), qa[k])
          /\ \A l \in Nat : RequestLives(l) /\ l < k => qa[l] < qa[k]
      BY <1>1, <3>1 DEF RequestsInTurn
    <3>3. qb[k] = qa[k] /\ qa[k] \in Int /\ (L # -2 => ra[0] < qa[k])
      BY <1>2, <1>6, <2>1, <3>1
    <3>4. InTurn(L, n, v, FALSE, FALSE, qa[k])
      BY <3>2 DEF InTurn
    <3>5. InTurn(M, n + 1, v, FALSE, FALSE, qa[k])
      BY <1>3, <3>3, <3>4
    <3>6. Oldest(M, n + 1) <= qa[k]
      BY <3>5 DEF InTurn
    <3>7. ~(k = 0 /\ srv.internal) =>
            InTurn(M, n + 1, v, Opens(RequestAt(k)), Further(RequestAt(k)), qa[k])
      BY <1>3, <3>2, <3>3, ClassType
    <3>8. ASSUME NEW l \in Nat, RequestLives(l)', l < k
          PROVE  qb[l] < qb[k]
      <4>1. RequestLives(l) /\ l < m /\ qb[l] = qa[l]
        BY <1>6, <2>1, <3>8 DEF RequestAdded
      <4>2. QED
        BY <3>2, <3>3, <3>8, <4>1
    <3>9. QED
      BY <3>1, <3>2, <3>3, <3>6, <3>7, <3>8
  <2>2. ASSUME NEW k \in Nat, RequestLives(k)', ~(k < m)
        PROVE  /\ Oldest(M, n + 1) <= qb[k] /\ qb[k] = n + 1 /\ p < qb[k]
               /\ InTurn(M, n + 1, v, Opens(RequestAt(k)'), Further(RequestAt(k)'), qb[k])
               /\ \A l \in Nat : RequestLives(l)' /\ l < k => qb[l] < qb[k]
    <3>1. k = m /\ RequestAt(k)' = f /\ qb[k] = n + 1
      BY <1>6, <2>2 DEF RequestAdded
    <3>2. Oldest(M, n + 1) <= n + 1
      BY <1>3 DEF InTurn
    <3>3. ASSUME NEW l \in Nat, RequestLives(l)', l < k
          PROVE  qb[l] < qb[k]
      BY <2>1, <3>1, <3>3
    <3>4. QED
      BY <1>1, <1>3, <3>1, <3>2, <3>3
  <2>3. QED
    BY <2>1, <2>2 DEF RequestsInTurn
<1>8. n + 1 \in Int /\ v <= n + 1 /\ p <= n + 1
  BY <1>1
<1>9. QED
  BY <1>4, <1>5, <1>7, <1>8, MakesConversation

----------------------------------------------------------------------------
(* The bus and the server in the conversation.                               *)

\* Nothing is added to what is under way: d and e say where each frame was.
AnswersFrom(d) ==
  /\ \A k \in Nat : AnswerLives(k)' => AnswerLives(d[k]) /\ AnswerAt(k)' = AnswerAt(d[k])
  /\ \A k, l \in Nat : l < k => d[l] < d[k]

RequestsFrom(e) ==
  /\ \A k \in Nat : RequestLives(k)' => RequestLives(e[k]) /\ RequestAt(k)' = RequestAt(e[k])
  /\ \A k, l \in Nat : l < k => e[l] < e[k]

\* Frames that move on or are lost leave the conversation as it was.
LEMMA FewerConversation ==
  ASSUME Conversation, NEW L \in Int, Level(cli) = L, Level(cli') = L,
         NEW d \in [Nat -> Nat], NEW e \in [Nat -> Nat],
         AnswersFrom(d), RequestsFrom(e),
         \A k \in Nat : RequestLives(k)' /\ e[k] = 0 /\ srv.internal => k = 0 /\ srv'.internal,
         srv'.internal => srv.internal /\ srv'.tx = srv.tx
  PROVE  Conversation'
<1>1. PICK n \in Int, v \in Int, p \in Int, ra \in [Nat -> Int], qa \in [Nat -> Int] :
        /\ v <= n /\ p <= n
        /\ AnswersInTurn(L, n, v, p, ra) /\ OwedInTurn(L, n, v, p)
        /\ RequestsInTurn(L, n, v, p, qa)
  BY ConversationParts
<1>2. AnswersInTurn(L, n, v, p, [k \in Nat |-> ra[d[k]]])'
  BY <1>1, AnswersKept DEF AnswersFrom
<1>3. OwedInTurn(L, n, v, p)'
  BY <1>1 DEF OwedInTurn
<1>4. RequestsInTurn(L, n, v, p, [k \in Nat |-> qa[e[k]]])'
  <2>1. \A k \in Nat : RequestLives(k)' =>
           /\ RequestLives(e[k]) /\ RequestAt(k)' = RequestAt(e[k])
           /\ e[k] = 0 /\ srv.internal => k = 0 /\ srv'.internal
    BY DEF RequestsFrom
  <2>2. \A k, l \in Nat : l < k => e[l] < e[k]
    BY DEF RequestsFrom
  <2>3. QED
    BY <1>1, <2>1, <2>2, RequestsKept
<1>5. [k \in Nat |-> ra[d[k]]] \in [Nat -> Int] /\ [k \in Nat |-> qa[e[k]]] \in [Nat -> Int]
  OBVIOUS
<1>6. QED
  BY <1>1, <1>2, <1>3, <1>4, <1>5, MakesConversation

\* The client has left and the bus is empty: at most one frame is left, in the
\* server's slot, and one answer is owed.
LEMMA LastOfConversation ==
  ASSUME Level(cli') = -2,
         \A k \in Nat : ~AnswerLives(k)',
         \A k \in Nat : RequestLives(k)' => k = 0
  PROVE  Conversation'
<1> DEFINE f == IF srv'.internal THEN srv'.tx ELSE RequestAt(0)'
<1>1. PICK v \in Int : v = IF Opens(f) THEN -3 ELSE 0
  OBVIOUS
<1>2. Opens(f) => ~Further(f) /\ ~Confirms(f)
  BY DEF Opens, Further, Confirms, Carries
<1>3. PICK ra \in [Nat -> Int] : ra = [k \in Nat |-> 0]
  <2>1. [k \in Nat |-> 0] \in [Nat -> Int]
    OBVIOUS
  <2>2. QED
    BY <2>1
<1>4. AnswersInTurn(-2, 0, v, -1, ra)'
  BY DEF AnswersInTurn
<1> HIDE DEF f
<1>5. OwedInTurn(-2, 0, v, -1)'
  <2>1. srv'.internal => srv'.tx = f
    BY DEF f
  <2>2. QED
    BY <1>1, <1>2, <2>1 DEF OwedInTurn, InTurn, Oldest
<1>6. RequestsInTurn(-2, 0, v, -1, ra)'
  <2>1. ASSUME NEW k \in Nat, RequestLives(k)'
        PROVE  /\ Oldest(-2, 0) <= ra[k] /\ ra[k] <= 0 /\ -1 < ra[k]
               /\ ~(k = 0 /\ srv'.internal) =>
                    InTurn(-2, 0, v, Opens(RequestAt(k)'), Further(RequestAt(k)'), ra[k])
               /\ \A l \in Nat : ~(l < k)
    <3>1. k = 0 /\ ra[k] = 0
      BY <1>3, <2>1
    <3>2. ~srv'.internal => RequestAt(k)' = f
      BY <3>1 DEF f
    <3>3. QED
      BY <1>1, <1>2, <3>1, <3>2 DEF InTurn, Oldest
  <2>2. QED
    BY <2>1 DEF RequestsInTurn
<1>7. v <= 0 /\ 0 \in Int /\ -1 \in Int /\ -1 <= 0
  BY <1>1
<1>8. QED
  BY <1>4, <1>5, <1>6, <1>7, MakesConversation

AnswerAdded(m, f) ==
  \A k \in Nat : AnswerLives(k)' =>
    \/ k < m /\ AnswerLives(k) /\ AnswerAt(k)' = AnswerAt(k)
    \/ k = m /\ AnswerAt(k)' = f

SlotCleared ==
  \A k \in Nat : RequestLives(k)' => k # 0 /\ RequestLives(k) /\ RequestAt(k)' = RequestAt(k)

\* A request that has left the slot or waits on the wire keeps its stamp.
LEMMA RequestsBehind ==
  ASSUME NEW L \in Int, NEW n \in Int, NEW v \in Int, NEW p \in Int,
         NEW qa \in [Nat -> Int], RequestsInTurn(L, n, v, p, qa), SlotCleared,
         NEW q \in Int, q = p \/ (q = qa[0] /\ RequestLives(0))
  PROVE  RequestsInTurn(L, n, v, q, qa)'
<1>1. ASSUME NEW k \in Nat, RequestLives(k)'
      PROVE  /\ Oldest(L, n) <= qa[k] /\ qa[k] <= n /\ q < qa[k]
             /\ InTurn(L, n, v, Opens(RequestAt(k)'), Further(RequestAt(k)'), qa[k])
             /\ \A l \in Nat : RequestLives(l)' /\ l < k => qa[l] < qa[k]
  <2>1. k # 0 /\ RequestLives(k) /\ RequestAt(k)' = RequestAt(k)
    BY <1>1 DEF SlotCleared
  <2>2. /\ Oldest(L, n) <= qa[k] /\ qa[k] <= n /\ p < qa[k]
        /\ InTurn(L, n, v, Opens(RequestAt(k)), Further(RequestAt(k)), qa[k])
        /\ \A l \in Nat : RequestLives(l) /\ l < k => qa[l] < qa[k]
    BY <2>1 DEF RequestsInTurn
  <2>3. \A l \in Nat : RequestLives(l)' /\ l < k => qa[l] < qa[k]
    BY <2>2 DEF SlotCleared
  <2>4. q < qa[k]
    BY <2>1, <2>2
  <2>5. QED
    BY <2>1, <2>2, <2>3, <2>4
<1>2. QED
  BY <1>1 DEF RequestsInTurn

\* The server sends an answer: that of the extension, whose stamp is p, or one
\* to the request in its slot.  A request it takes up while the extension is
\* asked becomes what is owed.
LEMMA ServerAnswersConversation ==
  ASSUME Conversation, NEW L \in {-2, -1, 0, 1, 2}, Level(cli) = L, Level(cli') = L,
         NEW m \in Nat \ {0}, NEW f, AnswerAdded(m, f), SlotCleared,
         IF srv.internal
         THEN (Opens(f) => Opens(srv.tx)) /\ (Confirms(f) => Confirms(srv.tx))
         ELSE /\ RequestLives(0)
              /\ (Opens(f) => Opens(srv.rx)) /\ (Confirms(f) => Further(srv.rx)),
         srv'.internal => /\ srv.internal /\ RequestLives(0)
                          /\ ~Opens(srv'.tx) /\ ~Confirms(srv'.tx)
  PROVE  Conversation'
<1>1. PICK n \in Int, v \in Int, p \in Int, ra \in [Nat -> Int], qa \in [Nat -> Int] :
        /\ v <= n /\ p <= n
        /\ AnswersInTurn(L, n, v, p, ra) /\ OwedInTurn(L, n, v, p)
        /\ RequestsInTurn(L, n, v, p, qa)
  BY ConversationParts
<1>2. PICK x \in Int : x = IF srv.internal THEN p ELSE qa[0]
  OBVIOUS
<1>3. PICK q \in Int : q = IF srv.internal /\ ~srv'.internal THEN p ELSE qa[0]
  OBVIOUS
<1>4. RequestLives(0) =>
        /\ Oldest(L, n) <= qa[0] /\ qa[0] <= n /\ p < qa[0]
        /\ ~srv.internal => InTurn(L, n, v, Opens(srv.rx), Further(srv.rx), qa[0])
  <2>1. RequestAt(0) = srv.rx
    BY DEF RequestAt
  <2>2. QED
    BY <1>1, <2>1 DEF RequestsInTurn
<1>5. InTurn(L, n, v, Opens(f), Confirms(f), x)
  BY <1>1, <1>2, <1>4 DEF OwedInTurn, InTurn
<1>6. /\ q = p \/ (q = qa[0] /\ RequestLives(0))
      /\ x <= q /\ (srv'.internal => x < q) /\ q <= n
      /\ \A k \in Nat : AnswerLives(k) => ra[k] < x
  <2>1. \A k \in Nat : AnswerLives(k) => ra[k] <= p /\ (srv.internal => ra[k] < p)
    BY <1>1 DEF AnswersInTurn
  <2>2. QED
    BY <1>1, <1>2, <1>3, <1>4, <2>1
<1>7. PICK rb \in [Nat -> Int] : rb = [k \in Nat |-> IF k < m THEN ra[k] ELSE x]
  <2>1. [k \in Nat |-> IF k < m THEN ra[k] ELSE x] \in [Nat -> Int]
    OBVIOUS
  <2>2. QED
    BY <2>1
<1>8. AnswersInTurn(L, n, v, q, rb)'
  <2>1. ASSUME NEW k \in Nat, AnswerLives(k)', k < m
        PROVE  /\ InTurn(L, n, v, Opens(AnswerAt(k)'), Confirms(AnswerAt(k)'), rb[k])
               /\ rb[k] < x
               /\ \A l \in Nat : AnswerLives(l)' /\ l < k => rb[l] < rb[k]
    <3>1. AnswerLives(k) /\ AnswerAt(k)' = AnswerAt(k) /\ rb[k] = ra[k]
      BY <1>7, <2>1 DEF AnswerAdded
    <3>2. /\ InTurn(L, n, v, Opens(AnswerAt(k)), Confirms(AnswerAt(k)), ra[k])
          /\ \A l \in Nat : AnswerLives(l) /\ l < k => ra[l] < ra[k]
      BY <1>1, <3>1 DEF AnswersInTurn
    <3>3. ASSUME NEW l \in Nat, AnswerLives(l)', l < k
          PROVE  rb[l] < rb[k]
      <4>1. AnswerLives(l) /\ l < m /\ rb[l] = ra[l]
        BY <1>7, <2>1, <3>3 DEF AnswerAdded
      <4>2. QED
        BY <3>1, <3>2, <3>3, <4>1
    <3>4. QED
      BY <1>6, <3>1, <3>2, <3>3
  <2>2. ASSUME NEW k \in Nat, AnswerLives(k)', ~(k < m)
        PROVE  /\ InTurn(L, n, v, Opens(AnswerAt(k)'), Confirms(AnswerAt(k)'), rb[k])
               /\ rb[k] = x
               /\ \A l \in Nat : AnswerLives(l)' /\ l < k => rb[l] < rb[k]
    <3>1. k = m /\ AnswerAt(k)' = f /\ rb[k] = x
      BY <1>7, <2>2 DEF AnswerAdded
    <3>2. \A l \in Nat : AnswerLives(l)' /\ l < k => rb[l] < x
      BY <2>1, <3>1
    <3>3. QED
      BY <1>5, <3>1, <3>2
  <2>3. ASSUME NEW k \in Nat, AnswerLives(k)'
        PROVE  /\ InTurn(L, n, v, Opens(AnswerAt(k)'), Confirms(AnswerAt(k)'), rb[k])
               /\ rb[k] <= q /\ (srv'.internal => rb[k] < q)
               /\ \A l \in Nat : AnswerLives(l)' /\ l < k => rb[l] < rb[k]
    <3>1. rb[k] <= x /\ rb[k] \in Int
      BY <2>1, <2>2, <2>3
    <3>2. rb[k] <= q /\ (srv'.internal => rb[k] < q)
      BY <1>6, <3>1
    <3>3. QED
      BY <2>1, <2>2, <2>3, <3>2
  <2>4. QED
    BY <2>3 DEF AnswersInTurn
<1>9. OwedInTurn(L, n, v, q)'
  <2>1. ASSUME srv'.internal
        PROVE  InTurn(L, n, v, Opens(srv'.tx), Confirms(srv'.tx), q)
    <3>1. q = qa[0] /\ Oldest(L, n) <= q /\ q <= n
      BY <1>3, <1>4, <2>1
    <3>2. QED
      BY <2>1, <3>1 DEF InTurn
  <2>2. QED
    BY <2>1 DEF OwedInTurn
<1>10. RequestsInTurn(L, n, v, q, qa)'
  BY <1>1, <1>6, RequestsBehind
<1>11. QED
  BY <1>1, <1>6, <1>8, <1>9, <1>10, MakesConversation

\* The request in the slot becomes what the extension owes an answer to.
LEMMA ServerTakesConversation ==
  ASSUME Conversation, NEW L \in {-2, -1, 0, 1, 2}, Level(cli) = L, Level(cli') = L,
         \A k \in Nat : AnswerLives(k)' => AnswerLives(k) /\ AnswerAt(k)' = AnswerAt(k),
         SlotCleared, RequestLives(0), ~srv.internal,
         Opens(srv'.tx) => Opens(srv.rx), Confirms(srv'.tx) => Further(srv.rx)
  PROVE  Conversation'
<1>1. PICK n \in Int, v \in Int, p \in Int, ra \in [Nat -> Int], qa \in [Nat -> Int] :
        /\ v <= n /\ p <= n
        /\ AnswersInTurn(L, n, v, p, ra) /\ OwedInTurn(L, n, v, p)
        /\ RequestsInTurn(L, n, v, p, qa)
  BY ConversationParts
<1>2. PICK q \in Int : q = qa[0]
  OBVIOUS
<1>3. /\ q <= n /\ p < q
      /\ InTurn(L, n, v, Opens(srv.rx), Further(srv.rx), q)
  <2>1. RequestAt(0) = srv.rx
    BY DEF RequestAt
  <2>2. QED
    BY <1>1, <1>2, <2>1 DEF RequestsInTurn
<1>4. AnswersInTurn(L, n, v, q, ra)'
  <2>1. ASSUME NEW k \in Nat, AnswerLives(k)'
        PROVE  /\ InTurn(L, n, v, Opens(AnswerAt(k)'), Confirms(AnswerAt(k)'), ra[k])
               /\ ra[k] < q
               /\ \A l \in Nat : AnswerLives(l)' /\ l < k => ra[l] < ra[k]
    <3>1. AnswerLives(k) /\ AnswerAt(k)' = AnswerAt(k)
      BY <2>1
    <3>2. /\ InTurn(L, n, v, Opens(AnswerAt(k)), Confirms(AnswerAt(k)), ra[k])
          /\ ra[k] <= p
          /\ \A l \in Nat : AnswerLives(l) /\ l < k => ra[l] < ra[k]
      BY <1>1, <3>1 DEF AnswersInTurn
    <3>3. QED
      BY <1>3, <3>1, <3>2
  <2>2. QED
    BY <2>1 DEF AnswersInTurn
<1>5. OwedInTurn(L, n, v, q)'
  BY <1>3 DEF OwedInTurn, InTurn
<1>6. RequestsInTurn(L, n, v, q, qa)'
  BY <1>1, <1>2, RequestsBehind
<1>7. QED
  BY <1>1, <1>3, <1>4, <1>5, <1>6, MakesConversation

----------------------------------------------------------------------------
(* What the stamps say of the frames that are left.                          *)

\* When the client takes an answer.
LEMMA WhatTheClientTakes ==
  ASSUME Conversation, NEW L \in {-2, -1, 0, 1, 2}, Level(cli) = L, AnswerLives(0)
  PROVE  /\ L < 0 /\ Opens(cli.rx) =>
              \A k \in Nat : Served(k) => ~Further(RequestAt(k))
         /\ L = 0 => \A k \in Nat : AnswerLives(k) => ~Confirms(AnswerAt(k))
         /\ L = 1 => \A k \in Nat : AnswerLives(k) /\ k # 0 => ~Opens(AnswerAt(k))
         /\ L = 2 \/ (L = 1 /\ Confirms(cli.rx)) =>
              /\ \A k \in Nat : AnswerLives(k) => k = 0
              /\ \A k \in Nat : ~RequestLives(k)
<1>1. PICK n \in Int, v \in Int, p \in Int, ra \in [Nat -> Int], qa \in [Nat -> Int] :
        /\ v <= n /\ p <= n
        /\ AnswersInTurn(L, n, v, p, ra) /\ OwedInTurn(L, n, v, p)
        /\ RequestsInTurn(L, n, v, p, qa)
  BY ConversationParts
<1>2. /\ InTurn(L, n, v, Opens(cli.rx), Confirms(cli.rx), ra[0])
      /\ \A k \in Nat : AnswerLives(k) /\ k # 0 => ra[0] < ra[k]
      /\ \A k \in Nat : RequestLives(k) => ra[0] < qa[k]
  BY <1>1, TakenIsOldest
<1>3. \A k \in Nat : ra[k] \in Int /\ qa[k] \in Int
  BY <1>1
<1>4. ASSUME NEW k \in Nat, AnswerLives(k)
      PROVE  InTurn(L, n, v, Opens(AnswerAt(k)), Confirms(AnswerAt(k)), ra[k])
  BY <1>1, <1>4 DEF AnswersInTurn
<1>5. ASSUME NEW k \in Nat, RequestLives(k)
      PROVE  qa[k] <= n
  BY <1>1, <1>5 DEF RequestsInTurn
<1>6. ASSUME NEW k \in Nat, Served(k)
      PROVE  InTurn(L, n, v, Opens(RequestAt(k)), Further(RequestAt(k)), qa[k])
  BY <1>1, <1>6 DEF RequestsInTurn, Served
<1>7. ASSUME L < 0, Opens(cli.rx), NEW k \in Nat, Served(k)
      PROVE  ~Further(RequestAt(k))
  <2>1. ra[0] > v
    BY <1>2, <1>7 DEF InTurn
  <2>2. ra[0] < qa[k]
    BY <1>2, <1>7 DEF Served
  <2>3. Further(RequestAt(k)) => qa[k] <= v
    BY <1>6, <1>7 DEF InTurn
  <2>4. QED
    BY <1>3, <2>1, <2>2, <2>3
<1>8. ASSUME L = 0, NEW k \in Nat, AnswerLives(k)
      PROVE  ~Confirms(AnswerAt(k))
  BY <1>4, <1>8 DEF InTurn
<1>9. ASSUME L = 1, NEW k \in Nat, AnswerLives(k), k # 0
      PROVE  ~Opens(AnswerAt(k))
  <2>1. n - 2 <= ra[0]
    BY <1>2, <1>9 DEF InTurn, Oldest
  <2>2. ra[0] < ra[k]
    BY <1>2, <1>9
  <2>3. Opens(AnswerAt(k)) => ra[k] = n - 2
    BY <1>4, <1>9 DEF InTurn
  <2>4. QED
    BY <1>3, <2>1, <2>2, <2>3
<1>10. ASSUME L = 2 \/ (L = 1 /\ Confirms(cli.rx))
       PROVE  /\ \A k \in Nat : AnswerLives(k) => k = 0
              /\ \A k \in Nat : ~RequestLives(k)
  <2>1. ra[0] = n
    <3>1. CASE L = 2
      BY <1>2, <1>3, <3>1 DEF InTurn, Oldest
    <3>2. CASE L = 1 /\ Confirms(cli.rx)
      BY <1>2, <3>2 DEF InTurn
    <3>3. QED
      BY <1>10, <3>1, <3>2
  <2>2. ASSUME NEW k \in Nat, AnswerLives(k), k # 0
        PROVE  FALSE
    <3>1. ra[k] <= n
      BY <1>4, <2>2 DEF InTurn
    <3>2. ra[0] < ra[k]
      BY <1>2, <2>2
    <3>3. QED
      BY <1>3, <2>1, <3>1, <3>2
  <2>3. ASSUME NEW k \in Nat, RequestLives(k)
        PROVE  FALSE
    BY <1>2, <1>3, <1>5, <2>1, <2>3
  <2>4. QED
    BY <2>2, <2>3
<1>11. QED
  BY <1>7, <1>8, <1>9, <1>10

\* When the server takes the request in its slot.
LEMMA WhatTheServerTakes ==
  ASSUME Conversation, NEW L \in {-2, -1, 0, 1, 2}, Level(cli) = L, Served(0)
  PROVE  /\ L < 0 /\ Opens(srv.rx) =>
              \A k \in Nat : RequestLives(k) /\ k # 0 => ~Further(RequestAt(k))
         /\ L = 1 => \A k \in Nat : AnswerLives(k) => ~Confirms(AnswerAt(k))
         /\ L # 1 /\ Further(srv.rx) =>
              \A k \in Nat : AnswerLives(k) => ~Opens(AnswerAt(k))
<1>1. PICK n \in Int, v \in Int, p \in Int, ra \in [Nat -> Int], qa \in [Nat -> Int] :
        /\ v <= n /\ p <= n
        /\ AnswersInTurn(L, n, v, p, ra) /\ OwedInTurn(L, n, v, p)
        /\ RequestsInTurn(L, n, v, p, qa)
  BY ConversationParts
<1>2. /\ qa[0] <= n /\ p < qa[0]
      /\ InTurn(L, n, v, Opens(srv.rx), Further(srv.rx), qa[0])
  <2>1. RequestAt(0) = srv.rx
    BY DEF RequestAt
  <2>2. QED
    BY <1>1, <2>1 DEF RequestsInTurn, Served
<1>3. \A k \in Nat : ra[k] \in Int /\ qa[k] \in Int
  BY <1>1
<1>4. ASSUME NEW k \in Nat, AnswerLives(k)
      PROVE  InTurn(L, n, v, Opens(AnswerAt(k)), Confirms(AnswerAt(k)), ra[k]) /\ ra[k] <= p
  BY <1>1, <1>4 DEF AnswersInTurn
<1>5. ASSUME L < 0, Opens(srv.rx), NEW k \in Nat, RequestLives(k), k # 0
      PROVE  ~Further(RequestAt(k))
  <2>1. /\ InTurn(L, n, v, Opens(RequestAt(k)), Further(RequestAt(k)), qa[k])
        /\ \A l \in Nat : RequestLives(l) /\ l < k => qa[l] < qa[k]
    BY <1>1, <1>5 DEF RequestsInTurn
  <2>2. qa[0] < qa[k]
    BY <1>5, <2>1 DEF Served
  <2>3. qa[0] > v
    BY <1>2, <1>5 DEF InTurn
  <2>4. Further(RequestAt(k)) => qa[k] <= v
    BY <1>5, <2>1 DEF InTurn
  <2>5. QED
    BY <1>3, <2>2, <2>3, <2>4
<1>6. ASSUME L = 1, NEW k \in Nat, AnswerLives(k)
      PROVE  ~Confirms(AnswerAt(k))
  <2>1. Confirms(AnswerAt(k)) => ra[k] = n
    BY <1>4, <1>6 DEF InTurn
  <2>2. ra[k] <= p
    BY <1>4, <1>6
  <2>3. QED
    BY <1>2, <1>3, <2>1, <2>2
<1>7. ASSUME L # 1, Further(srv.rx), NEW k \in Nat, AnswerLives(k)
      PROVE  ~Opens(AnswerAt(k))
  <2>1. ra[k] <= p
    BY <1>4, <1>7
  <2>2. InTurn(L, n, v, Opens(AnswerAt(k)), Confirms(AnswerAt(k)), ra[k])
    BY <1>4, <1>7
  <2>3. CASE L < 0
    <3>1. qa[0] <= v
      BY <1>2, <1>7, <2>3 DEF InTurn
    <3>2. Opens(AnswerAt(k)) => ra[k] > v
      BY <2>2, <2>3 DEF InTurn
    <3>3. QED
      BY <1>2, <1>3, <2>1, <3>1, <3>2
  <2>4. CASE L = 0
    BY <1>2, <1>7, <2>4 DEF InTurn
  <2>5. CASE L = 2
    BY <2>2, <2>5 DEF InTurn
  <2>6. QED
    BY <1>7, <2>3, <2>4, <2>5
<1>8. QED
  BY <1>5, <1>6, <1>7

----------------------------------------------------------------------------
(* What becomes of the segments and of the answers.                          *)

\* A client that is where it was, and one that has left its transfer.
ClientIsWhere ==
  Level(cli') = Level(cli)
  /\ (Sending(cli') => /\ Sending(cli)
                       /\ Index(cli') = Index(cli) /\ cli'.toggle = cli.toggle)

ServerIsWhere == Taking(srv') => Taking(srv) /\ Due(srv') = Due(srv)

\* A request that is served after such a step was served before it.
LEMMA StillServed ==
  ASSUME NEW e \in [Nat -> Nat], RequestsFrom(e),
         \A k \in Nat : RequestLives(k)' /\ e[k] = 0 /\ srv.internal => k = 0 /\ srv'.internal,
         NEW k \in Nat, Served(k)'
  PROVE  Served(e[k]) /\ RequestAt(k)' = RequestAt(e[k])
BY DEF Served, RequestsFrom

\* Where frames only move on or go, all stays as it is.
LEMMA FewerData ==
  ASSUME AllData, NEW d \in [Nat -> Nat], NEW e \in [Nat -> Nat],
         AnswersFrom(d), RequestsFrom(e),
         \A k \in Nat : RequestLives(k)' /\ e[k] = 0 /\ srv.internal => k = 0 /\ srv'.internal,
         ClientIsWhere, ServerIsWhere
  PROVE  AllData'
<1>1. ASSUME NEW k \in Nat, Served(k)'
      PROVE  e[k] \in Nat /\ Served(e[k]) /\ RequestAt(k)' = RequestAt(e[k])
  BY <1>1, StillServed
<1>2. \A k \in Nat : AnswerLives(k)' =>
        d[k] \in Nat /\ AnswerLives(d[k]) /\ AnswerAt(k)' = AnswerAt(d[k])
  BY DEF AnswersFrom
<1>3. AllPlaced'
  BY DEF AllPlaced, RequestsFrom, AllData
<1>4. AllNear'
  BY <1>1 DEF AllNear, AllData, ServerIsWhere
<1>5. InOrder'
  BY <1>1 DEF InOrder, AllData, RequestsFrom
<1>6. Together'
  <2>1. NoLateOpening'
    BY <1>2 DEF NoLateOpening, AllData, Together, ServerIsWhere, ClientIsWhere
  <2>2. NotBeyond'
    BY <1>1 DEF NotBeyond, AllData, Together, ServerIsWhere, ClientIsWhere
  <2>3. AnswerTellsDue'
    BY <1>2 DEF AnswerTellsDue, AllData, Together, ServerIsWhere, ClientIsWhere
  <2>4. Lockstep'
    BY <1>1 DEF Lockstep, AllData, Together, ServerIsWhere, ClientIsWhere
  <2>5. QED
    BY <2>1, <2>2, <2>3, <2>4 DEF Together
<1>7. QED
  BY <1>3, <1>4, <1>5, <1>6 DEF AllData

\* The client leaves its transfer.
LEMMA ClientLeavesData ==
  ASSUME AllData, Conversation, NEW L \in {-2, -1, 0, 1, 2}, Level(cli) = L, Idle(cli'),
         AnswerLives(0), srv' = srv, AnswersLeft, RequestsLeft
  PROVE  AllData'
<1>1. /\ \A k \in Nat : RequestLives(k)' => RequestLives(k) /\ RequestAt(k)' = RequestAt(k)
      /\ \A k \in Nat : Served(k)' => Served(k) /\ RequestAt(k)' = RequestAt(k)
      /\ \A k \in Nat : AnswerLives(k)' => k # 0 /\ AnswerLives(k) /\ AnswerAt(k)' = AnswerAt(k)
  BY DEF RequestsLeft, AnswersLeft, Served
<1>2. ~Sending(cli')
  BY DEF Idle, Sending
<1>3. AllPlaced'
  BY <1>1 DEF AllPlaced, AllData
<1>4. AllNear'
  BY <1>1 DEF AllNear, AllData
<1>5. InOrder'
  BY <1>1 DEF InOrder, AllData
<1>6. NoLateOpening'
  <2>1. CASE L = 1
    <3>1. \A k \in Nat : AnswerLives(k) /\ k # 0 => ~Opens(AnswerAt(k))
      BY <2>1, WhatTheClientTakes
    <3>2. QED
      BY <1>1, <3>1 DEF NoLateOpening
  <2>2. CASE L # 1
    BY <1>1, <2>2 DEF NoLateOpening, AllData, Together
  <2>3. QED
    BY <2>1, <2>2
<1>7. NotBeyond' /\ AnswerTellsDue' /\ Lockstep'
  BY <1>2 DEF NotBeyond, AnswerTellsDue, Lockstep
<1>8. QED
  BY <1>3, <1>4, <1>5, <1>6, <1>7 DEF AllData, Together

\* The client gives up: the bus is empty.
LEMMA ClientGivesUpData ==
  ASSUME AllData, Idle(cli'), srv' = srv, RequestsLeft,
         \A k \in Nat : ~AnswerLives(k)'
  PROVE  AllData'
<1>1. /\ \A k \in Nat : RequestLives(k)' => RequestLives(k) /\ RequestAt(k)' = RequestAt(k)
      /\ \A k \in Nat : Served(k)' => Served(k) /\ RequestAt(k)' = RequestAt(k)
  BY DEF RequestsLeft, Served
<1>2. ~Sending(cli')
  BY DEF Idle, Sending
<1>3. AllPlaced' /\ AllNear' /\ InOrder'
  BY <1>1 DEF AllPlaced, AllNear, InOrder, AllData
<1>4. NoLateOpening'
  BY DEF NoLateOpening
<1>5. NotBeyond' /\ AnswerTellsDue' /\ Lockstep'
  BY <1>2 DEF NotBeyond, AnswerTellsDue, Lockstep
<1>6. QED
  BY <1>3, <1>4, <1>5 DEF AllData, Together

\* The client sends a request: the next segment, if it is in a download.
LEMMA ClientGoesOnData ==
  ASSUME AllData, Conversation, cli \in Clients, cli' \in Clients,
         ClientInStep(cli), ClientInStep(cli'), srv \in Servers,
         NEW m \in Nat \ {0}, NEW f, RequestAdded(m, f), Placed(f),
         Carries(f) <=> Sending(cli'), Sending(cli') => Number(f) = Index(cli'),
         Sending(cli') =>
           IF Sending(cli) THEN Index(cli') = Index(cli) + 1 ELSE Index(cli') = 0,
         Sending(cli) => Carries(cli.rx) /\ cli.rx.t = cli.toggle,
         Advances(Level(cli), Level(cli'), Opens(cli.rx), Confirms(cli.rx), Opens(f), Further(f)),
         Level(cli) # -2 => AnswerLives(0), srv' = srv, AnswersLeft
  PROVE  AllData'
<1>1. PICK L \in {-2, -1, 0, 1, 2}, M \in {-2, -1, 0, 1, 2} :
        Level(cli) = L /\ Level(cli') = M
  BY LevelType
<1>2. /\ Sending(cli) => Index(cli) \in Nat
      /\ L >= 0 <=> Sending(cli)
      /\ L = 1 <=> Sending(cli) /\ Index(cli) = 1
      /\ L = 2 <=> Sending(cli) /\ Index(cli) >= 2
  BY <1>1, LevelType
<1>3. /\ Sending(cli') => Index(cli') \in Nat
      /\ M >= 0 <=> Sending(cli')
      /\ M = 1 <=> Sending(cli') /\ Index(cli') = 1
      /\ M = 2 <=> Sending(cli') /\ Index(cli') >= 2
  BY <1>1, LevelType
<1>4. Advances(L, M, Opens(cli.rx), Confirms(cli.rx), Opens(f), Further(f))
  BY <1>1
<1>5. Due(srv) \in Nat
  BY DEF Due, Servers, SegmentBytes
<1>6. ASSUME NEW k \in Nat, Served(k)'
      PROVE  \/ k < m /\ Served(k) /\ RequestAt(k)' = RequestAt(k)
             \/ k = m /\ RequestAt(k)' = f
  BY <1>6 DEF RequestAdded, Served
<1>7. \A k \in Nat : AnswerLives(k)' => k # 0 /\ AnswerLives(k) /\ AnswerAt(k)' = AnswerAt(k)
  BY DEF AnswersLeft
<1>8. \A k \in Nat : Served(k) /\ Carries(RequestAt(k)) => Number(RequestAt(k)) \in Nat
  BY DEF AllData, AllPlaced, Placed, Served
<1>9. AllPlaced'
  BY DEF AllPlaced, AllData, RequestAdded
<1>10. Sending(cli') =>
         /\ Taking(srv) => Index(cli') \in Due(srv) - 1..Due(srv) + 1 /\ Due(srv) <= Index(cli') + 1
         /\ Taking(srv) /\ M = 2 => Due(srv) >= Index(cli')
         /\ \A k \in Nat : Served(k) /\ Carries(RequestAt(k)) =>
              Number(RequestAt(k)) <= Index(cli')
  <2>1. CASE M = 0
    <3>1. L = -1 /\ Opens(cli.rx) /\ Index(cli') = 0 /\ AnswerLives(0)
      BY <1>1, <1>2, <1>3, <1>4, <2>1 DEF Advances
    <3>2. \A k \in Nat : Served(k) => ~Further(RequestAt(k))
      BY <1>1, <3>1, WhatTheClientTakes
    <3>3. Taking(srv) => Due(srv) < 2
      <4>1. AnswerAt(0) = cli.rx
        BY DEF AnswerAt
      <4>2. QED
        BY <1>1, <1>5, <3>1, <4>1 DEF AllData, Together, NoLateOpening
    <3>4. QED
      BY <1>5, <1>8, <2>1, <3>1, <3>2, <3>3 DEF Further
  <2>2. CASE M = 1
    <3>1. L = 0 /\ Sending(cli) /\ Index(cli) = 0 /\ Index(cli') = 1
      BY <1>2, <1>3, <1>4, <2>2 DEF Advances
    <3>2. /\ Taking(srv) => Due(srv) <= 1
          /\ \A k \in Nat : Served(k) /\ Carries(RequestAt(k)) => Number(RequestAt(k)) <= 0
      BY <3>1 DEF AllData, Together, NotBeyond
    <3>3. QED
      BY <1>5, <1>8, <2>2, <3>1, <3>2
  <2>3. CASE M = 2
    <3>1. /\ L \in {1, 2} /\ Sending(cli) /\ Index(cli') = Index(cli) + 1 /\ AnswerLives(0)
          /\ L = 1 => Confirms(cli.rx)
      BY <1>1, <1>2, <1>3, <1>4, <2>3 DEF Advances
    <3>2. \A k \in Nat : ~RequestLives(k)
      BY <1>1, <3>1, WhatTheClientTakes
    <3>3. Taking(srv) => Due(srv) = Index(cli) + 1
      <4>1. AnswerAt(0) = cli.rx
        BY DEF AnswerAt
      <4>2. QED
        BY <1>2, <3>1, <4>1 DEF AllData, Together, AnswerTellsDue
    <3>4. QED
      BY <1>2, <1>5, <3>1, <3>2, <3>3 DEF Served
  <2>4. QED
    BY <1>3, <2>1, <2>2, <2>3
<1>11. AllNear'
  BY <1>6, <1>10 DEF AllNear, AllData
<1>12. InOrder'
  BY <1>6, <1>10 DEF InOrder, AllData
<1>13. M = 2 => /\ \A k \in Nat : ~AnswerLives(k)'
                /\ \A k \in Nat : ~RequestLives(k)
  <2>1. M = 2 => L = 2 \/ (L = 1 /\ Confirms(cli.rx))
    BY <1>4 DEF Advances
  <2>2. L \in {1, 2} => AnswerLives(0)
    BY <1>1
  <2>3. QED
    BY <1>1, <1>7, <2>1, <2>2, WhatTheClientTakes
<1>14. NoLateOpening'
  <2>1. CASE M = 2
    BY <1>13, <2>1 DEF NoLateOpening
  <2>2. CASE M = 1
    BY <1>1, <2>2 DEF NoLateOpening
  <2>3. CASE M < 1
    <3>1. L # 1
      BY <1>4, <2>3 DEF Advances
    <3>2. QED
      BY <1>1, <1>7, <3>1 DEF NoLateOpening, AllData, Together
  <2>4. QED
    BY <2>1, <2>2, <2>3
<1>15. NotBeyond'
  BY <1>3, <1>6, <1>10 DEF NotBeyond
<1>16. AnswerTellsDue'
  <2>1. CASE M = 2
    BY <1>13, <2>1 DEF AnswerTellsDue
  <2>2. CASE M = 1
    <3>1. L = 0 /\ Index(cli') = 1 /\ Sending(cli')
      BY <1>3, <1>4, <2>2 DEF Advances
    <3>2. cli'.toggle = 1 /\ AnswerLives(0)
      BY <1>1, <3>1 DEF ClientInStep
    <3>3. \A k \in Nat : AnswerLives(k) => ~Confirms(AnswerAt(k))
      BY <1>1, <3>1, <3>2, WhatTheClientTakes
    <3>4. QED
      BY <1>7, <3>2, <3>3 DEF AnswerTellsDue, Confirms
  <2>3. CASE M < 1
    BY <1>3, <2>3 DEF AnswerTellsDue
  <2>4. QED
    BY <2>1, <2>2, <2>3
<1>17. Lockstep'
  <2>1. CASE M = 2
    BY <1>3, <1>6, <1>10, <1>13, <2>1 DEF Lockstep, Served
  <2>2. CASE M # 2
    BY <1>3, <2>2 DEF Lockstep
  <2>3. QED
    BY <2>1, <2>2
<1>18. QED
  BY <1>9, <1>11, <1>12, <1>14, <1>15, <1>16, <1>17 DEF AllData, Together

\* Requests that wait on the wire.
LEMMA SlotServed ==
  ASSUME SlotCleared, NEW k \in Nat, RequestLives(k)'
  PROVE  k # 0 /\ RequestLives(k) /\ Served(k) /\ RequestAt(k)' = RequestAt(k)
BY DEF SlotCleared, Served

\* A request taken from the slot leaves the others placed and in order.
LEMMA SlotClearedData ==
  ASSUME AllData, cli' = cli, SlotCleared
  PROVE  AllPlaced' /\ InOrder'
<1>1. \A k \in Nat : Served(k)' => RequestLives(k)'
  BY DEF Served
<1>2. \A k \in Nat : RequestLives(k)' =>
        k # 0 /\ RequestLives(k) /\ Served(k) /\ RequestAt(k)' = RequestAt(k)
  BY SlotServed
<1>3. AllPlaced'
  BY <1>2 DEF AllData, AllPlaced
<1>4. InOrder'
  BY <1>1, <1>2 DEF AllData, InOrder
<1>5. QED
  BY <1>3, <1>4

\* The server takes no segments after the call.
LEMMA ServerLeavesData ==
  ASSUME AllData, cli' = cli, SlotCleared, ~Taking(srv')
  PROVE  AllData'
<1>1. \A k \in Nat : Served(k)' => Served(k) /\ RequestAt(k)' = RequestAt(k)
  BY SlotServed DEF Served
<1>2. AllPlaced' /\ InOrder'
  BY SlotClearedData
<1>3. AllNear' /\ NoLateOpening' /\ AnswerTellsDue'
  BY DEF AllNear, NoLateOpening, AnswerTellsDue
<1>4. NotBeyond' /\ Lockstep'
  BY <1>1 DEF AllData, Together, NotBeyond, Lockstep
<1>5. QED
  BY <1>2, <1>3, <1>4 DEF AllData, Together

\* The server begins a segmented download.
LEMMA ServerOpensData ==
  ASSUME AllData, Conversation, cli \in Clients, ClientInStep(cli), cli' = cli,
         SlotCleared, Served(0), Opens(srv.rx), Taking(srv'), Due(srv') = 0,
         NEW m, NEW f, AnswerAdded(m, f), Opens(f)
  PROVE  AllData'
<1>1. /\ Level(cli) \in {-2, -1, 0, 1, 2}
      /\ Sending(cli) => Index(cli) \in Nat
      /\ Level(cli) >= 0 <=> Sending(cli)
      /\ Level(cli) = 1 <=> Sending(cli) /\ Index(cli) = 1
      /\ Level(cli) = 2 <=> Sending(cli) /\ Index(cli) >= 2
  BY LevelType
<1>2. \A k \in Nat : Served(k)' =>
        k # 0 /\ RequestLives(k) /\ Served(k) /\ RequestAt(k)' = RequestAt(k)
  BY SlotServed DEF Served
<1>3. RequestAt(0) = srv.rx
  BY DEF RequestAt
<1>4. Level(cli) # 2
  BY <1>1, <1>3 DEF AllData, Together, Lockstep, Opens, Carries
<1>5. AllPlaced' /\ InOrder'
  BY SlotClearedData
<1>6. AllNear'
  <2>1. ASSUME NEW k \in Nat, k # 0, RequestLives(k), Served(k), Carries(RequestAt(k))
        PROVE  Number(RequestAt(k)) \in -1..1
    <3>1. Number(RequestAt(k)) \in Nat
      BY <2>1 DEF AllData, AllPlaced, Placed
    <3>2. CASE Level(cli) < 0
      <4>1. ~Further(RequestAt(k))
        BY <1>1, <2>1, <3>2, WhatTheServerTakes
      <4>2. QED
        BY <2>1, <3>1, <4>1 DEF Further
    <3>3. CASE Level(cli) >= 0
      <4>1. Sending(cli) /\ Index(cli) \in Nat /\ Index(cli) <= 1
        BY <1>1, <1>4, <3>3
      <4>2. Number(RequestAt(k)) <= Index(cli)
        BY <2>1, <4>1 DEF AllData, Together, NotBeyond
      <4>3. QED
        BY <3>1, <4>1, <4>2
    <3>4. QED
      BY <1>1, <3>2, <3>3
  <2>2. QED
    BY <1>2, <2>1 DEF AllNear
<1>7. NoLateOpening'
  BY DEF NoLateOpening
<1>8. NotBeyond'
  BY <1>1, <1>2 DEF AllData, Together, NotBeyond
<1>9. AnswerTellsDue'
  <2>1. CASE Level(cli) = 1
    <3>1. cli.toggle = 1
      BY <1>1, <2>1 DEF ClientInStep
    <3>2. \A k \in Nat : AnswerLives(k) => ~Confirms(AnswerAt(k))
      BY <2>1, WhatTheServerTakes
    <3>3. ~Carries(f)
      BY DEF Opens, Carries
    <3>4. QED
      BY <3>1, <3>2, <3>3 DEF AnswerTellsDue, AnswerAdded, Confirms
  <2>2. CASE Level(cli) # 1
    BY <1>1, <1>4, <2>2 DEF AnswerTellsDue
  <2>3. QED
    BY <2>1, <2>2
<1>10. Lockstep'
  BY <1>1, <1>4 DEF Lockstep
<1>11. QED
  BY <1>5, <1>6, <1>7, <1>8, <1>9, <1>10 DEF AllData, Together

\* The segment a server takes is the one that is due: its toggle bit tells it
\* from the one before and from the one behind.
LEMMA SegmentIsDue ==
  ASSUME AllData, srv \in Servers, ServerInStep(srv), Taking(srv), Served(0),
         Carries(srv.rx), srv.rx.t = srv.toggle
  PROVE  Number(srv.rx) = Due(srv) /\ Due(srv) \in Nat
<1>1. RequestAt(0) = srv.rx
  BY DEF RequestAt
<1>2. Number(srv.rx) \in Nat /\ srv.rx.t = Number(srv.rx) % 2
  BY <1>1 DEF AllData, AllPlaced, Placed, Served
<1>3. Due(srv) \in Nat /\ srv.toggle = Due(srv) % 2
  BY DEF Due, Servers, SegmentBytes, ServerInStep
<1>4. Number(srv.rx) \in Due(srv) - 1..Due(srv) + 1
  BY <1>1 DEF AllData, AllNear
<1>5. PICK a \in Nat, b \in Nat : a = Number(srv.rx) /\ b = Due(srv)
  BY <1>2, <1>3
<1>6. a % 2 = b % 2 /\ a \in {b - 1, b, b + 1}
  <2>1. a % 2 = b % 2
    BY <1>2, <1>3, <1>5
  <2>2. a \in b - 1..b + 1
    BY <1>4, <1>5
  <2>3. QED
    BY <2>1, <2>2
<1>7. \A c \in Nat : (c + 1) % 2 # c % 2
  OBVIOUS
<1>8. a = b
  <2>1. a # b + 1
    BY <1>6, <1>7
  <2>2. a # b - 1
    <3>1. a = b - 1 => b = a + 1
      OBVIOUS
    <3>2. QED
      BY <1>6, <1>7, <3>1
  <2>3. QED
    BY <1>6, <2>1, <2>2
<1>9. QED
  BY <1>5, <1>8

\* The server takes a segment and waits for the next.
LEMMA ServerSegmentData ==
  ASSUME AllData, Conversation, cli \in Clients, ClientInStep(cli), cli' = cli,
         srv \in Servers, ServerInStep(srv), SlotCleared, Served(0),
         Carries(srv.rx), srv.rx.t = srv.toggle,
         Taking(srv), Taking(srv'), Due(srv') = Due(srv) + 1,
         NEW m, NEW f, AnswerAdded(m, f), Carries(f), f.t = srv.toggle
  PROVE  AllData'
<1>1. /\ Level(cli) \in {-2, -1, 0, 1, 2}
      /\ Sending(cli) => Index(cli) \in Nat
      /\ Level(cli) >= 0 <=> Sending(cli)
      /\ Level(cli) = 1 <=> Sending(cli) /\ Index(cli) = 1
      /\ Level(cli) = 2 <=> Sending(cli) /\ Index(cli) >= 2
  BY LevelType
<1>2. \A k \in Nat : Served(k)' =>
        k # 0 /\ RequestLives(k) /\ Served(k) /\ RequestAt(k)' = RequestAt(k)
  BY SlotServed DEF Served
<1>3. RequestAt(0) = srv.rx
  BY DEF RequestAt
<1>4. Number(srv.rx) = Due(srv) /\ Due(srv) \in Nat
  BY SegmentIsDue
<1>5. AllPlaced' /\ InOrder'
  BY SlotClearedData
<1>6. AllNear'
  <2>1. ASSUME NEW k \in Nat, k # 0, Served(k), Carries(RequestAt(k))
        PROVE  Number(RequestAt(k)) \in Due(srv)..Due(srv) + 2
    <3>1. Number(RequestAt(k)) \in Due(srv) - 1..Due(srv) + 1
      BY <2>1 DEF AllData, AllNear
    <3>2. 0 < k
      BY <2>1
    <3>3. Due(srv) <= Number(RequestAt(k))
      BY <1>3, <1>4, <2>1, <3>2 DEF AllData, InOrder
    <3>4. QED
      BY <1>4, <3>1, <3>3
  <2>2. QED
    BY <1>2, <1>4, <2>1 DEF AllNear
<1>7. NoLateOpening'
  <2>1. ~Opens(f)
    BY DEF Opens, Carries
  <2>2. CASE Level(cli) # 1 /\ Due(srv) >= 1
    <3>1. Further(srv.rx)
      BY <1>4, <2>2 DEF Further
    <3>2. \A k \in Nat : AnswerLives(k) => ~Opens(AnswerAt(k))
      BY <1>1, <2>2, <3>1, WhatTheServerTakes
    <3>3. QED
      BY <2>1, <3>2 DEF NoLateOpening, AnswerAdded
  <2>3. CASE ~(Level(cli) # 1 /\ Due(srv) >= 1)
    BY <1>4, <2>3 DEF NoLateOpening
  <2>4. QED
    BY <2>2, <2>3
<1>8. Sending(cli) => Due(srv) <= Index(cli)
  BY <1>3, <1>4 DEF AllData, Together, NotBeyond
<1>9. NotBeyond'
  <2>1. Sending(cli) => \A k \in Nat : Served(k) /\ Carries(RequestAt(k)) =>
                          Number(RequestAt(k)) <= Index(cli)
    BY DEF AllData, Together, NotBeyond
  <2>2. Sending(cli) => Due(srv') <= Index(cli) + 1
    BY <1>1, <1>4, <1>8
  <2>3. QED
    BY <1>2, <2>1, <2>2 DEF NotBeyond
<1>10. Sending(cli) /\ Index(cli) >= 2 => Due(srv) = Index(cli)
  BY <1>3, <1>4 DEF AllData, Together, Lockstep
<1>11. AnswerTellsDue'
  <2>1. CASE Level(cli) = 1
    <3>1. cli.toggle = 1 /\ Sending(cli) /\ Index(cli) = 1
      BY <1>1, <2>1 DEF ClientInStep
    <3>2. \A k \in Nat : AnswerLives(k) => ~Confirms(AnswerAt(k))
      BY <2>1, WhatTheServerTakes
    <3>3. f.t = 1 => Due(srv) = 1
      <4>1. f.t = Due(srv) % 2
        BY DEF ServerInStep
      <4>2. Due(srv) \in {0, 1}
        BY <1>4, <1>8, <3>1
      <4>3. QED
        BY <4>1, <4>2
    <3>4. QED
      BY <3>1, <3>2, <3>3 DEF AnswerTellsDue, AnswerAdded, Confirms
  <2>2. CASE Level(cli) = 2
    BY <1>1, <1>10, <2>2 DEF AnswerTellsDue
  <2>3. CASE Level(cli) < 1
    BY <1>1, <2>3 DEF AnswerTellsDue
  <2>4. QED
    BY <1>1, <2>1, <2>2, <2>3
<1>12. Lockstep'
  BY <1>1, <1>2, <1>4, <1>10 DEF AllData, Together, Lockstep
<1>13. QED
  BY <1>5, <1>6, <1>7, <1>9, <1>11, <1>12 DEF AllData, Together

----------------------------------------------------------------------------
(* Buffers whose bytes are in place.                                         *)

InPlace(b) == \A k \in DOMAIN b : b[k] = Stray \/ b[k][2] = k

AllInPlace(m) == \A b \in Buffers, o \in Objects : InPlace(m[b][o])

\* The property, in terms of the buffers.
LEMMA BytesAreInPlace == BytesInPlace <=> AllInPlace(mem)
BY DEF BytesInPlace, AllInPlace, InPlace

\* What is stored at its offset is in place.
LEMMA CopyInPlace ==
  ASSUME NEW b \in Seq(Byte), InPlace(b), NEW off \in Nat, NEW d \in Seq(Byte), NEW n \in Nat,
         \A k \in 1..Len(d) : d[k][2] = off + k
  PROVE  InPlace(Copy(b, off, d, n))
<1>1. DOMAIN Copy(b, off, d, n) = DOMAIN b /\ DOMAIN b \subseteq Nat
  BY DEF Copy
<1>2. ASSUME NEW k \in DOMAIN b
      PROVE  Copy(b, off, d, n)[k] = Stray \/ Copy(b, off, d, n)[k][2] = k
  <2>1. Copy(b, off, d, n)[k] = IF k - off \in 1..n
                                THEN IF k - off <= Len(d) THEN d[k - off] ELSE Stray
                                ELSE b[k]
    BY <1>2 DEF Copy
  <2>2. CASE k - off \in 1..n /\ k - off <= Len(d)
    <3>1. k - off \in 1..Len(d) /\ off + (k - off) = k
      BY <1>1, <2>2
    <3>2. d[k - off][2] = k
      BY <3>1
    <3>3. QED
      BY <2>1, <2>2, <3>2
  <2>3. CASE ~(k - off \in 1..n /\ k - off <= Len(d))
    BY <2>1, <2>3 DEF InPlace
  <2>4. QED
    BY <2>2, <2>3
<1>3. QED
  BY <1>1, <1>2 DEF InPlace

\* A buffer in place of another.
LEMMA StoreInPlace ==
  ASSUME NEW m, Memory(m), AllInPlace(m), NEW b \in Buffers, NEW o \in Objects,
         NEW v, InPlace(v)
  PROVE  AllInPlace([m EXCEPT ![b][o] = v])
<1>1. ASSUME NEW c \in Buffers, NEW p \in Objects
      PROVE  InPlace([m EXCEPT ![b][o] = v][c][p])
  <2>1. [m EXCEPT ![b][o] = v][c][p] = IF c = b /\ p = o THEN v ELSE m[c][p]
    BY DEF Memory
  <2>2. QED
    BY <2>1 DEF AllInPlace
<1>2. QED
  BY <1>1 DEF AllInPlace

\* A frame's bytes stored in the buffer of its object.
LEMMA FillInPlace ==
  ASSUME NEW m, Memory(m), AllInPlace(m), NEW o \in Objects, NEW off \in Nat,
         NEW d \in Seq(Byte), NEW n \in Nat, \A k \in 1..Len(d) : d[k][2] = off + k
  PROVE  AllInPlace([m EXCEPT ![Itf(o)][o] = Copy(m[Itf(o)][o], off, d, n)])
<1>1. Itf(o) \in Buffers
  BY ItfType
<1>2. m[Itf(o)][o] \in Seq(Byte) /\ InPlace(m[Itf(o)][o])
  BY <1>1 DEF Memory, AllInPlace
<1>3. InPlace(Copy(m[Itf(o)][o], off, d, n))
  BY <1>2, CopyInPlace
<1>4. QED
  BY <1>1, <1>3, StoreInPlace

\* Temporary data become the data.
LEMMA CommitInPlace ==
  ASSUME NEW m, Memory(m), AllInPlace(m), NEW o \in Objects
  PROVE  AllInPlace(Commit(m, o))
<1>1. "data" \in Buffers /\ InPlace(m["temp"][o])
  BY DEF AllInPlace, Buffers
<1>2. AllInPlace([m EXCEPT !["data"][o] = m["temp"][o]])
  BY <1>1, StoreInPlace
<1>3. QED
  BY <1>2 DEF Commit

\* Shadow data become the data, or the temporary data.
LEMMA CopyShadowInPlace ==
  ASSUME NEW o \in Objects, Memory(mem), AllInPlace(mem)
  PROVE  AllInPlace(CopyShadow(o))
<1> DEFINE v == mem["shadow"][o]
           t == IF o \in Temp THEN v ELSE mem["temp"][o]
           m == [mem EXCEPT !["temp"][o] = t]
           d == IF o \in Temp \cap AfterReset THEN mem["data"][o] ELSE v
<1>1. /\ InPlace(v) /\ InPlace(t) /\ InPlace(d)
      /\ t \in Seq(Byte) /\ Len(t) = ObjLen[o]
      /\ "temp" \in Buffers /\ "data" \in Buffers
  BY DEF AllInPlace, Memory, Buffers
<1>2. CopyShadow(o) = [m EXCEPT !["data"][o] = d]
  <2>1. CopyShadow(o) =
          [mem EXCEPT !["temp"][o] = IF o \in Temp THEN v ELSE @,
                      !["data"][o] = IF o \in Temp \cap AfterReset THEN @ ELSE v]
    BY DEF CopyShadow
  <2>2. m["data"][o] = mem["data"][o]
    BY DEF Memory, Buffers
  <2>3. QED
    BY <2>1, <2>2, Zenon
<1> HIDE DEF t, d, v
<1>3. Memory(m) /\ AllInPlace(m)
  BY <1>1, StoreType, StoreInPlace
<1> HIDE DEF m
<1>4. AllInPlace([m EXCEPT !["data"][o] = d])
  BY <1>1, <1>3, StoreInPlace
<1>5. QED
  BY <1>2, <1>4, Zenon

----------------------------------------------------------------------------
(* The server's calls.                                                       *)

\* What LateInv says, part by part.
LEMMA LateParts ==
  LateInv <=>
    /\ IndInv /\ cli \in Clients /\ srv \in Servers
    /\ ClientInStep(cli) /\ ServerInStep(srv) /\ Conversation /\ AllData
    /\ AllInPlace(mem)
BY BytesAreInPlace, IndInvParts DEF LateInv

\* What is left to show after a step.
LEMMA LateAfter ==
  ASSUME IndInv', cli' \in Clients, ClientInStep(cli'), ServerInStep(srv'),
         Conversation', AllData', AllInPlace(mem')
  PROVE  LateInv'
BY DEF LateInv, BytesInPlace, AllInPlace, InPlace

\* Only the order in which the frames were sent matters.
LEMMA SlotTurn ==
  ASSUME srv.new, srv.rx.cs # "ABORT"
  PROVE  RequestLives(0) /\ RequestAt(0) = srv.rx /\ (~srv.internal => Served(0))
BY DEF RequestLives, RequestAt, Served

\* The slot is free again.
LEMMA SlotFreed ==
  ASSUME ~srv'.new, toServer' = toServer
  PROVE  SlotCleared
BY DEF SlotCleared, RequestLives, RequestAt

\* An answer goes behind those on the bus.
LEMMA AnswerSent ==
  ASSUME toClient \in Seq(Frame), NEW f \in Frame, ServerSend(f), cli' = cli
  PROVE  AnswerAdded(Len(toClient) + 1, f) /\ Len(toClient) + 1 \in Nat \ {0}
<1>1. toClient' = Append(toClient, f)
  BY DEF ServerSend
<1>2. Len(toClient) \in Nat /\ Len(toClient') = Len(toClient) + 1
  BY <1>1
<1>3. ASSUME NEW k \in Nat, AnswerLives(k)'
      PROVE  \/ k < Len(toClient) + 1 /\ AnswerLives(k) /\ AnswerAt(k)' = AnswerAt(k)
             \/ k = Len(toClient) + 1 /\ AnswerAt(k)' = f
  <2>1. k \in 0..Len(toClient) + 1 /\ (k = 0 => cli.new)
    BY <1>2, <1>3 DEF AnswerLives
  <2>2. CASE k = 0
    BY <1>2, <2>1, <2>2 DEF AnswerLives, AnswerAt
  <2>3. CASE k \in 1..Len(toClient)
    BY <1>1, <1>2, <2>1, <2>3 DEF AnswerLives, AnswerAt
  <2>4. CASE k = Len(toClient) + 1
    BY <1>1, <1>2, <2>4 DEF AnswerAt
  <2>5. QED
    BY <1>2, <2>1, <2>2, <2>3, <2>4
<1>4. QED
  BY <1>2, <1>3 DEF AnswerAdded

\* Frames where they were.
LEMMA AnswersStay ==
  ASSUME cli' = cli, toClient' = toClient, NEW d, d = [k \in Nat |-> k]
  PROVE  d \in [Nat -> Nat] /\ AnswersFrom(d)
BY DEF AnswersFrom, AnswerLives, AnswerAt

\* Requests where they were.
LEMMA RequestsStay ==
  ASSUME toServer' = toServer, srv'.new => srv.new /\ srv'.rx = srv.rx,
         NEW e, e = [k \in Nat |-> k]
  PROVE  e \in [Nat -> Nat] /\ RequestsFrom(e)
<1>1. ASSUME NEW k \in Nat, RequestLives(k)'
      PROVE  RequestLives(k) /\ RequestAt(k)' = RequestAt(k)
  BY <1>1 DEF RequestLives, RequestAt
<1>2. QED
  BY <1>1 DEF RequestsFrom

\* A call that sends nothing and asks nothing of the extension.
LEMMA ServerQuiet ==
  ASSUME LateInv, IndInv', cli' = cli, UNCHANGED wires, mem' = mem,
         srv'.new => srv.new /\ srv'.rx = srv.rx /\ srv'.internal,
         srv'.internal => srv.internal /\ srv'.tx = srv.tx,
         ServerIsWhere, ServerInStep(srv')
  PROVE  LateInv'
<1>1. PICK d : d = [k \in Nat |-> k]
  OBVIOUS
<1>2. toServer' = toServer /\ toClient' = toClient
  BY DEF wires
<1>3. d \in [Nat -> Nat] /\ AnswersFrom(d) /\ RequestsFrom(d)
  BY <1>1, <1>2, AnswersStay, RequestsStay
<1>4. \A k \in Nat : RequestLives(k)' /\ d[k] = 0 /\ srv.internal => k = 0 /\ srv'.internal
  BY <1>1 DEF RequestLives
<1>5. PICK L \in {-2, -1, 0, 1, 2} : Level(cli) = L /\ L \in Int
  BY LevelType, LateParts
<1>6. Level(cli') = L /\ ClientIsWhere
  BY <1>5 DEF ClientIsWhere
<1>7. Conversation'
  BY <1>3, <1>4, <1>5, <1>6, FewerConversation, LateParts
<1>8. AllData'
  BY <1>3, <1>4, <1>6, FewerData, LateParts
<1>9. QED
  BY <1>7, <1>8, LateParts, LateAfter

\* A call that sends an answer and frees the slot.
LEMMA ServerReplies ==
  ASSUME LateInv, IndInv', cli' = cli, NEW f \in Frame, ServerSend(f),
         ~srv'.new, AllInPlace(mem'), ServerInStep(srv'), AllData',
         IF srv.internal
         THEN (Opens(f) => Opens(srv.tx)) /\ (Confirms(f) => Confirms(srv.tx))
         ELSE /\ RequestLives(0)
              /\ (Opens(f) => Opens(srv.rx)) /\ (Confirms(f) => Further(srv.rx)),
         srv'.internal => /\ srv.internal /\ RequestLives(0)
                          /\ ~Opens(srv'.tx) /\ ~Confirms(srv'.tx)
  PROVE  LateInv'
<1>1. PICK L \in {-2, -1, 0, 1, 2} : Level(cli) = L
  BY LevelType, LateParts
<1>2. PICK m \in Nat \ {0} : AnswerAdded(m, f)
  BY AnswerSent, LateParts, IndInvParts
<1>3. SlotCleared
  BY SlotFreed DEF ServerSend
<1>4. Level(cli') = L
  BY <1>1
<1>5. Conversation'
  BY <1>1, <1>2, <1>3, <1>4, ServerAnswersConversation, LateParts
<1>6. QED
  BY <1>5, LateParts, LateAfter

\* The same, from a call that leaves no download behind.
LEMMA ServerRepliesOutside ==
  ASSUME LateInv, IndInv', cli' = cli, NEW f \in Frame, ServerSend(f),
         ~srv'.new, AllInPlace(mem'), ServerInStep(srv'), ~Taking(srv'),
         IF srv.internal
         THEN (Opens(f) => Opens(srv.tx)) /\ (Confirms(f) => Confirms(srv.tx))
         ELSE /\ RequestLives(0)
              /\ (Opens(f) => Opens(srv.rx)) /\ (Confirms(f) => Further(srv.rx)),
         srv'.internal => /\ srv.internal /\ RequestLives(0)
                          /\ ~Opens(srv'.tx) /\ ~Confirms(srv'.tx)
  PROVE  LateInv'
<1>1. SlotCleared
  BY SlotFreed DEF ServerSend
<1>2. AllData'
  BY <1>1, ServerLeavesData, LateParts
<1>3. QED
  BY <1>2, ServerReplies

\* The switch on the state, and what it leaves alone.
LEMMA EnteredKeeps ==
  ASSUME srv \in Servers
  PROVE  /\ Entered.internal = srv.internal /\ Entered.new = srv.new
         /\ Entered.rx = srv.rx /\ Entered.tx = srv.tx
         /\ Entered.toggle = srv.toggle /\ Entered.offset = srv.offset
<1> DEFINE s == IF srv.new THEN [srv EXCEPT !.timer = FALSE] ELSE srv
           t == [s EXCEPT !.obj = srv.rx.mux,
                          !.state = IF srv.rx.cs = "DOWNLOAD_INITIATE"
                                    THEN "DOWNLOAD_INITIATE_RSP"
                                    ELSE "UPLOAD_INITIATE_RSP"]
<1>1. /\ s.internal = srv.internal /\ s.new = srv.new /\ s.rx = srv.rx /\ s.tx = srv.tx
      /\ s.toggle = srv.toggle /\ s.offset = srv.offset
  BY DEF Servers
<1>2. /\ t.internal = srv.internal /\ t.new = srv.new /\ t.rx = srv.rx /\ t.tx = srv.tx
      /\ t.toggle = srv.toggle /\ t.offset = srv.offset
  BY DEF Servers
<1>3. Entered = t \/ Entered = s
  BY DEF Entered
<1> HIDE DEF s, t
<1>4. QED
  BY <1>1, <1>2, <1>3

\* A server that is idle.
LEMMA IdleInStep ==
  ASSUME NEW s, s.state = "IDLE"
  PROVE  ServerInStep(s) /\ ~Taking(s)
BY DEF ServerInStep, Taking

\* A server that waits for the extension.
LEMMA AskedInStep ==
  ASSUME NEW s, s.internal, s.state \in {"DOWNLOAD_INITIATE_RSP", "DOWNLOAD_SEGMENTED"}
  PROVE  ServerInStep(s) /\ ~Taking(s)
BY DEF ServerInStep, Taking

\* Calls that end without an answer.
LEMMA ServerSilentLate ==
  ASSUME LateInv, cli' = cli,
         ServerTimeout \/ ServerNothing \/ ClientAbort \/ ConfirmPending \/ ConfirmThroughNull
  PROVE  LateInv'
<1>1. srv \in Servers /\ IndInv /\ ServerInStep(srv)
  BY LateParts
<1>2. IndInv'
  BY <1>1, SilentIndInv, ConfirmIndInv
<1>3. UNCHANGED wires /\ mem' = mem
  BY DEF ServerTimeout, ServerNothing, ClientAbort, ConfirmPending, ConfirmThroughNull
<1>4. CASE ServerTimeout
  <2>1. srv' = Aborted(srv, "abort")
    BY <1>4 DEF ServerTimeout
  <2>2. srv'.state = "IDLE" /\ ~srv'.new /\ ~srv'.internal
    BY <1>1, <2>1 DEF Aborted, Servers
  <2>3. ServerInStep(srv') /\ ServerIsWhere
    BY <2>2, IdleInStep DEF ServerIsWhere
  <2>4. QED
    BY <1>2, <1>3, <2>2, <2>3, ServerQuiet
<1>5. CASE ServerNothing
  <2>1. Return(srv) /\ ~srv.new
    BY <1>5 DEF ServerNothing
  <2>2. /\ srv'.state = srv.state /\ ~srv'.new /\ srv'.internal = srv.internal
        /\ srv'.rx = srv.rx /\ srv'.tx = srv.tx
        /\ srv'.toggle = srv.toggle /\ srv'.offset = srv.offset
    BY <1>1, <2>1 DEF Return, Servers
  <2>3. ServerInStep(srv') /\ ServerIsWhere
    BY <1>1, <2>1, <2>2 DEF ServerIsWhere, ServerInStep, Taking, Due
  <2>4. QED
    BY <1>2, <1>3, <2>2, <2>3, ServerQuiet
<1>6. CASE ClientAbort
  <2>1. /\ srv'.state = "IDLE" /\ ~srv'.new /\ srv'.internal = srv.internal
        /\ srv'.tx = srv.tx
    BY <1>1, <1>6 DEF ClientAbort, Servers
  <2>2. ServerInStep(srv') /\ ServerIsWhere
    BY <2>1, IdleInStep DEF ServerIsWhere
  <2>3. QED
    BY <1>2, <1>3, <2>1, <2>2, ServerQuiet
<1>7. ASSUME ConfirmPending \/ ConfirmThroughNull
      PROVE  srv.internal /\ Entered \in Servers
             /\ Entered.state \in {"DOWNLOAD_INITIATE_RSP", "DOWNLOAD_SEGMENTED"}
  BY <1>1, <1>7, ReachedType DEF ConfirmPending, ConfirmThroughNull, Answer, Asked
<1>8. CASE ConfirmPending
  <2>1. Return(Entered)
    BY <1>8 DEF ConfirmPending
  <2>2. /\ srv'.state = Entered.state /\ ~srv'.new /\ srv'.internal = srv.internal
        /\ srv'.tx = srv.tx
    BY <1>1, <1>7, <1>8, <2>1, EnteredKeeps DEF Return, Servers
  <2>3. ServerInStep(srv') /\ ServerIsWhere
    BY <1>7, <1>8, <2>2, AskedInStep DEF ServerIsWhere
  <2>4. QED
    BY <1>2, <1>3, <1>7, <1>8, <2>2, <2>3, ServerQuiet
<1>9. CASE ConfirmThroughNull
  <2>1. srv' = [Entered EXCEPT !.fault = TRUE]
    BY <1>9 DEF ConfirmThroughNull
  <2>2. /\ srv'.state = Entered.state /\ srv'.new = srv.new /\ srv'.internal = srv.internal
        /\ srv'.tx = srv.tx /\ srv'.rx = srv.rx
    BY <1>1, <1>7, <1>9, <2>1, EnteredKeeps DEF Servers
  <2>3. ServerInStep(srv') /\ ServerIsWhere
    BY <1>7, <1>9, <2>2, AskedInStep DEF ServerIsWhere
  <2>4. QED
    BY <1>2, <1>3, <1>7, <1>9, <2>2, <2>3, ServerQuiet
<1>10. QED
  BY <1>4, <1>5, <1>6, <1>8, <1>9

\* An abort is no answer to a download.
LEMMA NoClass ==
  ASSUME NEW f, f.cs \notin {"DOWNLOAD_INITIATE", "DOWNLOAD_SEGMENT"}
  PROVE  ~Opens(f) /\ ~Carries(f) /\ ~Further(f) /\ ~Confirms(f)
BY DEF Opens, Carries, Further, Confirms

\* The command of a frame.
LEMMA PlainFacts ==
  ASSUME NEW cs
  PROVE  Plain(cs).cs = cs
BY DEF Plain

\* CO_SDO_abort_and_response, from any state.
LEMMA RefusedLate ==
  ASSUME LateInv, IndInv', cli' = cli, NEW s \in Servers, NEW st, Respond_Abort(s, st),
         srv.internal \/ RequestLives(0)
  PROVE  LateInv'
<1>1. /\ srv' = [Aborted(s, st) EXCEPT !.tx = AbortFrame]
      /\ ServerSend(AbortFrame) /\ mem' = mem
  BY DEF Respond_Abort
<1>2. srv'.state = "IDLE" /\ ~srv'.new /\ ~srv'.internal
  BY <1>1 DEF Aborted, Servers
<1>3. ~Opens(AbortFrame) /\ ~Confirms(AbortFrame)
  BY NoClass, PlainFacts DEF AbortFrame
<1>4. AllInPlace(mem')
  BY <1>1, LateParts
<1>5. QED
  BY <1>1, <1>2, <1>3, <1>4, IdleInStep, AbortFrameType, ServerRepliesOutside

\* Every call that refuses.
LEMMA ServerRefusesLate ==
  ASSUME LateInv, cli' = cli,
         \/ RefuseFirstMsg \/ DownloadInitiateRefused \/ DownloadSegmentRefused
         \/ ConfirmAbort \/ UploadSegmentRefused
  PROVE  LateInv'
<1>1. srv \in Servers /\ IndInv
  BY LateParts
<1>2. IndInv'
  BY <1>1, RefusalIndInv
<1>3. \A st : Reached(st) => Entered \in Servers /\ (srv.internal \/ RequestLives(0))
  BY <1>1, ReachedType, SlotTurn DEF Reached
<1>4. CASE RefuseFirstMsg
  <2>1. RequestLives(0) /\ Respond_Abort(srv, "abort")
    BY <1>4, SlotTurn DEF RefuseFirstMsg, FirstMsg
  <2>2. QED
    BY <1>1, <1>2, <2>1, RefusedLate
<1>5. CASE DownloadInitiateRefused
  <2> DEFINE s == [Begun(Entered) EXCEPT
                     !.len = IF srv.rx.s THEN TransLen(srv.rx.size) ELSE @]
  <2>1. Entered \in Servers /\ (srv.internal \/ RequestLives(0))
    BY <1>3, <1>5 DEF DownloadInitiateRefused
  <2>2. Begun(Entered) \in Servers
    BY <2>1, BegunType
  <2>3. TransLen(srv.rx.size) \in Nat
    BY <1>1, TransLenType DEF Servers, Frame
  <2>4. s \in Servers
    BY <2>2, <2>3 DEF Servers
  <2>5. Respond_Abort(s, "idle")
    BY <1>5 DEF DownloadInitiateRefused
  <2> HIDE DEF s
  <2>6. QED
    BY <1>2, <2>1, <2>4, <2>5, RefusedLate
<1>6. CASE DownloadSegmentRefused
  BY <1>2, <1>3, <1>6, RefusedLate DEF DownloadSegmentRefused
<1>7. CASE ConfirmAbort
  BY <1>2, <1>3, <1>7, RefusedLate DEF ConfirmAbort, Answer, Asked
<1>8. CASE UploadSegmentRefused
  BY <1>2, <1>3, <1>8, RefusedLate DEF UploadSegmentRefused
<1>9. QED
  BY <1>4, <1>5, <1>6, <1>7, <1>8

\* All bytes of a download are there: the server answers, or the extension does.
LEMMA CompletedLate ==
  ASSUME LateInv, IndInv', cli' = cli, NEW s \in Servers, NEW m, Memory(m), AllInPlace(m),
         Completed(s, m), RequestLives(0), ~srv.internal, ~s.internal,
         s.state \in {"DOWNLOAD_INITIATE_RSP", "DOWNLOAD_SEGMENTED"},
         Opens(s.tx) => Opens(srv.rx), Confirms(s.tx) => Further(srv.rx)
  PROVE  LateInv'
<1>1. s.obj \in Objects /\ s.tx \in Frame
  BY DEF Servers
<1>2. CASE s.obj \in Ext
  <2>1. Return(Armed([s EXCEPT !.internal = TRUE])) /\ mem' = m /\ UNCHANGED wires
    BY <1>2 DEF Completed
  <2>2. srv'.internal /\ ~srv'.new /\ srv'.state = s.state /\ srv'.tx = s.tx
    BY <2>1 DEF Return, Armed, Servers
  <2>3. ServerInStep(srv') /\ ~Taking(srv')
    BY <2>2, AskedInStep
  <2>4. SlotCleared
    BY <2>1, <2>2, SlotFreed DEF wires
  <2>5. \A k \in Nat : AnswerLives(k)' => AnswerLives(k) /\ AnswerAt(k)' = AnswerAt(k)
    BY <2>1 DEF AnswerLives, AnswerAt, wires
  <2>6. PICK L \in {-2, -1, 0, 1, 2} : Level(cli) = L
    BY LevelType, LateParts
  <2>7. Level(cli') = L
    BY <2>6
  <2>8. Opens(srv'.tx) => Opens(srv.rx)
    BY <2>2
  <2>9. Confirms(srv'.tx) => Further(srv.rx)
    BY <2>2
  <2>10. Conversation'
    BY <2>4, <2>5, <2>6, <2>7, <2>8, <2>9, ServerTakesConversation, LateParts
  <2>11. AllData'
    BY <2>3, <2>4, ServerLeavesData, LateParts
  <2>12. AllInPlace(mem')
    BY <2>1
  <2>13. QED
    BY <2>3, <2>10, <2>11, <2>12, LateParts, LateAfter
<1>3. CASE s.obj \notin Ext
  <2>1. Return([s EXCEPT !.state = "IDLE"]) /\ mem' = Commit(m, s.obj) /\ ServerSend(s.tx)
    BY <1>3 DEF Completed
  <2>2. ~srv'.internal /\ ~srv'.new /\ srv'.state = "IDLE"
    BY <2>1 DEF Return, Servers
  <2>3. AllInPlace(mem')
    BY <1>1, <2>1, CommitInPlace
  <2>4. QED
    BY <1>1, <2>1, <2>2, <2>3, IdleInStep, ServerRepliesOutside
<1>4. QED
  BY <1>2, <1>3

\* A download request is in the slot when its handler is reached.
LEMMA DownloadAsked ==
  ASSUME IndInv, ServerInStep(srv), Reached("DOWNLOAD_INITIATE_RSP"), ~srv.internal
  PROVE  RequestLives(0) /\ Served(0) /\ RequestAt(0) = srv.rx /\ Opens(srv.rx)
<1>1. srv.new /\ srv.rx.cs # "ABORT"
  BY DEF Reached
<1>2. Entered.state = "DOWNLOAD_INITIATE_RSP" /\ (FirstMsg => FirstMsgOK(srv.rx))
  BY DEF Reached
<1>3. FirstMsg
  BY <1>2, EnteredType, IndInvParts DEF ServerInStep
<1>4. Entered.state = IF srv.rx.cs = "DOWNLOAD_INITIATE"
                      THEN "DOWNLOAD_INITIATE_RSP" ELSE "UPLOAD_INITIATE_RSP"
  <2>1. srv \in Servers
    BY IndInvParts
  <2>2. QED
    BY <1>3, <2>1 DEF Entered, Servers
<1>5. QED
  BY <1>1, <1>2, <1>4, SlotTurn DEF Opens

\* What the start of a transfer sets.
LEMMA BegunKeeps ==
  ASSUME NEW s \in Servers
  PROVE  /\ Begun(s).internal = s.internal /\ Begun(s).offset = 0
         /\ Begun(s).toggle = 0 /\ Begun(s).rx = s.rx
BY DEF Begun, Servers

\* A download of at most four bytes.
LEMMA DownloadExpeditedLate ==
  ASSUME LateInv, cli' = cli, DownloadExpedited
  PROVE  LateInv'
<1> DEFINE n == srv.rx.size
           answer == [Plain("DOWNLOAD_INITIATE") EXCEPT !.mux = srv.rx.mux]
           s == [Begun(Entered) EXCEPT !.len = n, !.offset = n, !.tx = answer]
           m == [mem EXCEPT ![Itf(s.obj)][s.obj] =
                   Copy(mem[Itf(s.obj)][s.obj], 0, srv.rx.data, n)]
<1>1. srv \in Servers /\ IndInv /\ ServerInStep(srv) /\ srv.rx \in Frame
  BY LateParts DEF Servers
<1>2. n \in Nat /\ answer \in Frame /\ srv.rx.data \in Seq(Byte) /\ ~Confirms(answer)
  <2>1. answer.cs = "DOWNLOAD_INITIATE"
    BY DEF Plain
  <2>2. QED
    BY <1>1, <2>1, PlainType DEF Frame, Specifiers, Confirms, Carries
<1>3. Entered \in Servers /\ Entered.state = "DOWNLOAD_INITIATE_RSP" /\ ~srv.internal
  BY <1>1, ReachedType DEF DownloadExpedited
<1>4. RequestLives(0) /\ RequestAt(0) = srv.rx /\ Opens(srv.rx)
  BY <1>1, DownloadAsked DEF DownloadExpedited
<1>5. Completed(s, m)
  BY DEF DownloadExpedited
<1>6. IndInv'
  BY <1>1, DownloadExpeditedIndInv
<1> HIDE DEF n, answer
<1>7. /\ s \in Servers /\ s.obj \in Objects /\ ~s.internal
      /\ s.state = "DOWNLOAD_INITIATE_RSP" /\ s.tx = answer
  <2>1. /\ Begun(Entered) \in Servers /\ Begun(Entered).state = "DOWNLOAD_INITIATE_RSP"
        /\ ~Begun(Entered).internal
    BY <1>1, <1>3, BegunType, BegunKeeps, EnteredKeeps
  <2>2. QED
    BY <1>2, <2>1 DEF Servers
<1> HIDE DEF s
<1>8. \A k \in 1..Len(srv.rx.data) : srv.rx.data[k][2] = 0 + k
  BY <1>4, LateParts DEF AllData, AllPlaced, Placed
<1>9. Memory(m) /\ AllInPlace(m)
  BY <1>2, <1>7, <1>8, FillType, FillInPlace, LateParts, IndInvParts
<1> HIDE DEF m
<1>10. QED
  BY <1>2, <1>3, <1>4, <1>5, <1>6, <1>7, <1>9, CompletedLate

\* A segmented download begins.
LEMMA DownloadInitiateLate ==
  ASSUME LateInv, cli' = cli, DownloadInitiate
  PROVE  LateInv'
<1> DEFINE answer == [Plain("DOWNLOAD_INITIATE") EXCEPT !.mux = srv.rx.mux]
           n == TransLen(srv.rx.size)
           s == [Begun(Entered) EXCEPT !.len = n, !.tx = answer,
                                       !.state = "DOWNLOAD_SEGMENTED"]
<1>1. srv \in Servers /\ IndInv /\ ServerInStep(srv) /\ srv.rx \in Frame
  BY LateParts DEF Servers
<1>2. answer \in Frame /\ Opens(answer) /\ ~Confirms(answer)
  <2>1. answer.cs = "DOWNLOAD_INITIATE"
    BY DEF Plain
  <2>2. QED
    BY <1>1, <2>1, PlainType DEF Frame, Specifiers, Opens, Confirms, Carries
<1>3. Entered \in Servers /\ ~srv.internal
  BY <1>1, ReachedType DEF DownloadInitiate
<1>4. RequestLives(0) /\ Served(0) /\ RequestAt(0) = srv.rx /\ Opens(srv.rx)
  BY <1>1, DownloadAsked DEF DownloadInitiate
<1>5. Return(Armed(s)) /\ ServerSend(answer) /\ mem' = mem
  BY DEF DownloadInitiate
<1>6. IndInv'
  BY <1>1, DownloadInitiateIndInv
<1> HIDE DEF answer, n
<1>7. /\ ~srv'.new /\ ~srv'.internal /\ srv'.state = "DOWNLOAD_SEGMENTED"
      /\ srv'.offset = 0 /\ srv'.toggle = 0
  <2>1. Begun(Entered) \in Servers /\ ~Begun(Entered).internal
        /\ Begun(Entered).offset = 0 /\ Begun(Entered).toggle = 0
    BY <1>1, <1>3, BegunType, BegunKeeps, EnteredKeeps
  <2>2. QED
    BY <1>5, <2>1 DEF Return, Armed, Servers
<1>8. Taking(srv') /\ Due(srv') = 0 /\ ServerInStep(srv')
  BY <1>7 DEF Taking, Due, ServerInStep, SegmentBytes
<1>9. SlotCleared
  BY <1>5, <1>7, SlotFreed DEF ServerSend
<1>10. PICK m \in Nat \ {0} : AnswerAdded(m, answer)
  BY <1>1, <1>2, <1>5, AnswerSent, IndInvParts
<1>11. AllData'
  BY <1>2, <1>4, <1>8, <1>9, <1>10, ServerOpensData, LateParts
<1>12. AllInPlace(mem')
  BY <1>5, LateParts
<1>13. QED
  BY <1>2, <1>3, <1>4, <1>5, <1>6, <1>7, <1>8, <1>11, <1>12, ServerReplies

\* The number and the toggle bit of the next segment.
LEMMA NextDue ==
  ASSUME NEW d \in Nat
  PROVE  /\ (SegmentBytes * d + SegmentBytes) \div SegmentBytes = d + 1
         /\ Flip(d % 2) = (d + 1) % 2
BY DEF SegmentBytes, Flip

\* A segment with the toggle bit the server expects: it is the one that is due.
LEMMA DownloadSegmentLate ==
  ASSUME LateInv, cli' = cli, DownloadSegment
  PROVE  LateInv'
<1> DEFINE n == SegmentLen(srv)
           o == srv.obj
           answer == [Plain("DOWNLOAD_SEGMENT") EXCEPT !.t = srv.toggle]
           s == [Entered EXCEPT !.offset = srv.offset + n, !.tx = answer]
           m == [mem EXCEPT ![Itf(o)][o] =
                   Copy(mem[Itf(o)][o], srv.offset, srv.rx.data, n)]
<1>1. /\ srv \in Servers /\ IndInv /\ ServerInStep(srv) /\ srv.rx \in Frame
      /\ o \in Objects /\ srv.offset \in Nat /\ srv.toggle \in {0, 1}
      /\ srv.rx.data \in Seq(Byte)
  BY LateParts DEF Servers, Frame
<1>2. /\ Entered \in Servers /\ Entered.state = "DOWNLOAD_SEGMENTED"
      /\ srv.state = "DOWNLOAD_SEGMENTED" /\ ~srv.internal /\ ~Entered.internal
      /\ Entered.len = srv.len
  BY <1>1, ReachedType, EnteredKeeps DEF DownloadSegment
<1>3. RequestLives(0) /\ Served(0) /\ RequestAt(0) = srv.rx
  BY <1>2, SlotTurn DEF DownloadSegment, Reached
<1>4. Carries(srv.rx) /\ srv.rx.t = srv.toggle /\ Taking(srv)
  BY <1>2 DEF DownloadSegment, Carries, Taking
<1>5. /\ Number(srv.rx) = Due(srv) /\ Due(srv) \in Nat
      /\ srv.offset = SegmentBytes * Due(srv) /\ srv.toggle = Due(srv) % 2
  <2>1. Number(srv.rx) = Due(srv) /\ Due(srv) \in Nat
    BY <1>1, <1>3, <1>4, SegmentIsDue, LateParts
  <2>2. srv.offset = SegmentBytes * Due(srv) /\ srv.toggle = Due(srv) % 2
    BY <1>1, <1>4 DEF ServerInStep
  <2>3. QED
    BY <2>1, <2>2
<1>6. /\ answer \in Frame /\ Carries(answer) /\ ~Opens(answer) /\ answer.t = srv.toggle
      /\ Confirms(answer) => Further(srv.rx)
  <2>1. answer.cs = "DOWNLOAD_SEGMENT" /\ answer.t = srv.toggle
    BY DEF Plain
  <2>2. answer \in Frame
    BY <1>1, PlainType DEF Frame, Specifiers
  <2>3. srv.toggle = 1 => Due(srv) >= 1
    BY <1>5
  <2>4. QED
    BY <1>4, <1>5, <2>1, <2>2, <2>3 DEF Carries, Opens, Confirms, Further
<1>7. IF LastSegment(srv)
      THEN Completed(s, m)
      ELSE /\ Return(Armed([s EXCEPT !.toggle = Flip(srv.toggle)]))
           /\ mem' = m
           /\ ServerSend(answer)
           /\ UNCHANGED accepted
  BY DEF DownloadSegment
<1>8. IndInv'
  BY <1>1, DownloadSegmentIndInv
<1>9. srv.offset <= srv.len
  BY <1>1, <1>2, IndInvParts DEF InObject
<1>10. n \in Nat /\ (~LastSegment(srv) => n = SegmentBytes)
  BY <1>1, <1>9, SegmentLenType DEF SegmentLen
<1>11. \A k \in 1..Len(srv.rx.data) : srv.rx.data[k][2] = srv.offset + k
  <2>1. Placed(srv.rx)
    BY <1>3, LateParts DEF AllData, AllPlaced
  <2>2. QED
    BY <1>4, <1>5, <2>1 DEF Placed
<1>12. Memory(m) /\ AllInPlace(m)
  BY <1>1, <1>10, <1>11, FillType, FillInPlace, LateParts, IndInvParts
<1> HIDE DEF n, answer, m
<1>13. /\ s \in Servers /\ s.state = "DOWNLOAD_SEGMENTED" /\ ~s.internal
       /\ s.tx = answer /\ s.offset = srv.offset + n
  <2> DEFINE next == srv.offset + n
  <2>1. next \in Nat
    BY <1>1, <1>10
  <2> HIDE DEF next
  <2>2. s = [Entered EXCEPT !.offset = next, !.tx = answer]
    BY DEF next
  <2>3. s \in Servers /\ s.state = "DOWNLOAD_SEGMENTED" /\ ~s.internal
        /\ s.tx = answer /\ s.offset = next
    BY <1>2, <1>6, <2>1, <2>2 DEF Servers
  <2>4. QED
    BY <2>3 DEF next
<1> HIDE DEF s
<1>14. CASE LastSegment(srv)
  <2>1. Completed(s, m)
    BY <1>7, <1>14
  <2>2. QED
    BY <1>2, <1>3, <1>6, <1>8, <1>12, <1>13, <2>1, CompletedLate
<1>15. CASE ~LastSegment(srv)
  <2>1. Return(Armed([s EXCEPT !.toggle = Flip(srv.toggle)])) /\ mem' = m /\ ServerSend(answer)
    BY <1>7, <1>15
  <2>2. /\ ~srv'.new /\ ~srv'.internal /\ srv'.state = "DOWNLOAD_SEGMENTED"
        /\ srv'.offset = srv.offset + SegmentBytes /\ srv'.toggle = Flip(srv.toggle)
    BY <1>10, <1>13, <1>15, <2>1 DEF Return, Armed, Servers
  <2>3. Taking(srv') /\ Due(srv') = Due(srv) + 1 /\ srv'.toggle = Due(srv') % 2
    <3>1. Due(srv') = Due(srv) + 1 /\ srv'.toggle = (Due(srv) + 1) % 2
      BY <1>5, <2>2, NextDue DEF Due
    <3>2. QED
      BY <2>2, <3>1 DEF Taking
  <2>4. ServerInStep(srv')
    <3>1. srv'.offset = SegmentBytes * Due(srv')
      BY <1>5, <2>2, <2>3 DEF SegmentBytes
    <3>2. QED
      BY <2>2, <2>3, <3>1 DEF ServerInStep
  <2>5. SlotCleared
    BY <2>1, <2>2, SlotFreed DEF ServerSend
  <2>6. PICK p \in Nat \ {0} : AnswerAdded(p, answer)
    BY <1>1, <1>6, <2>1, AnswerSent, IndInvParts
  <2>7. AllData'
    BY <1>1, <1>3, <1>4, <1>6, <2>3, <2>5, <2>6, ServerSegmentData, LateParts
  <2>8. AllInPlace(mem')
    BY <1>12, <2>1
  <2>9. QED
    BY <1>2, <1>3, <1>6, <1>8, <2>1, <2>2, <2>4, <2>7, <2>8, ServerReplies
<1>16. QED
  BY <1>14, <1>15

\* The extension has answered.
LEMMA ConfirmSuccessLate ==
  ASSUME LateInv, cli' = cli, NEW a \in {"success", "copy_and_success"}, ConfirmSuccess(a)
  PROVE  LateInv'
<1> DEFINE s == [Entered EXCEPT !.internal = FALSE, !.timer = FALSE, !.state = "IDLE"]
<1>1. srv \in Servers /\ IndInv /\ srv.internal /\ srv.tx \in Frame
  BY LateParts DEF Servers, ConfirmSuccess, Answer, Asked
<1>2. Entered \in Servers /\ Entered.obj \in Objects
  BY <1>1, ReachedType DEF ConfirmSuccess, Answer, Asked, Servers
<1>3. /\ Return(s) /\ ServerSend(srv.tx)
      /\ mem' = IF a = "copy_and_success" THEN CopyShadow(Entered.obj) ELSE mem
  BY DEF ConfirmSuccess
<1>4. ~srv'.new /\ ~srv'.internal /\ srv'.state = "IDLE"
  BY <1>2, <1>3 DEF Return, Servers
<1>5. IndInv'
  BY <1>1, ConfirmIndInv
<1>6. AllInPlace(mem')
  BY <1>2, <1>3, CopyShadowInPlace, LateParts, IndInvParts
<1>7. QED
  BY <1>1, <1>3, <1>4, <1>5, <1>6, IdleInStep, ServerRepliesOutside

\* An upload request is in the slot when the switch reaches its handler.
LEMMA UploadAsked ==
  ASSUME IndInv, ServerInStep(srv), Reached("UPLOAD_INITIATE_RSP")
  PROVE  RequestLives(0) /\ srv.rx.cs = "UPLOAD_INITIATE"
<1>1. Entered.state = "UPLOAD_INITIATE_RSP" /\ (FirstMsg => FirstMsgOK(srv.rx))
  BY DEF Reached
<1>2. FirstMsg
  BY <1>1, EnteredType, IndInvParts DEF ServerInStep
<1>3. srv.new /\ srv.rx.cs # "ABORT"
  BY <1>2 DEF FirstMsg, Reached
<1>4. Entered.state = IF srv.rx.cs = "DOWNLOAD_INITIATE"
                      THEN "DOWNLOAD_INITIATE_RSP" ELSE "UPLOAD_INITIATE_RSP"
  <2>1. srv \in Servers
    BY IndInvParts
  <2>2. QED
    BY <1>2, <2>1 DEF Entered, Servers
<1>5. QED
  BY <1>1, <1>2, <1>3, <1>4, SlotTurn DEF FirstMsgOK

\* An upload of at most four bytes.
LEMMA UploadExpeditedLate ==
  ASSUME LateInv, cli' = cli, UploadExpedited
  PROVE  LateInv'
<1> DEFINE o == Entered.obj
           answer == [Plain("UPLOAD_INITIATE") EXCEPT
                        !.mux = srv.rx.mux, !.e = TRUE, !.s = TRUE,
                        !.size = Announced(ObjLen[o]), !.data = mem["data"][o]]
           s == [Begun(Entered) EXCEPT !.len = ObjLen[o], !.offset = ObjLen[o],
                                       !.tx = answer, !.state = "IDLE"]
<1>1. srv \in Servers /\ IndInv /\ ServerInStep(srv) /\ srv.rx \in Frame
  BY LateParts DEF Servers
<1>2. Entered \in Servers /\ o \in Objects
  BY <1>1, ReachedType DEF UploadExpedited, Servers
<1>3. RequestLives(0)
  BY <1>1, UploadAsked DEF UploadExpedited
<1>4. ~Opens(answer) /\ ~Confirms(answer)
  <2>1. answer.cs = "UPLOAD_INITIATE"
    BY DEF Plain
  <2>2. QED
    BY <2>1, NoClass
<1>5. Return(s) /\ ServerSend(answer) /\ mem' = mem /\ ObjLen[o] <= ExpeditedBytes
  BY DEF UploadExpedited
<1>6. IndInv'
  BY <1>1, UploadExpeditedIndInv
<1>7. answer \in Frame
  <2>1. Announced(ObjLen[o]) \in Nat
    <3>1. ObjLen[o] \in 0..4
      BY <1>2, <1>5, ObjLenType DEF ExpeditedBytes
    <3>2. QED
      BY <3>1, AnnouncedIsSize
  <2>2. mem["data"][o] \in Seq(Byte)
    BY <1>1, <1>2, IndInvParts DEF Memory, Buffers
  <2>3. QED
    BY <1>1, <2>1, <2>2, PlainType DEF Frame, Specifiers
<1> HIDE DEF answer, o
<1>8. ~srv'.new /\ srv'.state = "IDLE" /\ srv'.internal = srv.internal /\ srv'.tx = answer
  <2>1. Begun(Entered) \in Servers /\ Begun(Entered).internal = srv.internal
    BY <1>1, <1>2, BegunType, BegunKeeps, EnteredKeeps
  <2>2. QED
    BY <1>5, <2>1 DEF Return, Servers
<1>9. AllInPlace(mem')
  BY <1>5, LateParts
<1>10. QED
  BY <1>3, <1>4, <1>5, <1>6, <1>7, <1>8, <1>9, IdleInStep, ServerRepliesOutside

\* A segmented upload begins.
LEMMA UploadInitiateLate ==
  ASSUME LateInv, cli' = cli, UploadInitiate
  PROVE  LateInv'
<1> DEFINE o == Entered.obj
           answer == [Plain("UPLOAD_INITIATE") EXCEPT !.mux = srv.rx.mux, !.s = TRUE,
                                                      !.size = ObjLen[o]]
           s == [Begun(Entered) EXCEPT !.len = ObjLen[o],
                                       !.tx = answer, !.state = "UPLOAD_SEGMENTED"]
<1>1. srv \in Servers /\ IndInv /\ ServerInStep(srv) /\ srv.rx \in Frame
  BY LateParts DEF Servers
<1>2. Entered \in Servers /\ o \in Objects
  BY <1>1, ReachedType DEF UploadInitiate, Servers
<1>3. RequestLives(0) /\ srv.rx.cs = "UPLOAD_INITIATE"
  BY <1>1, UploadAsked DEF UploadInitiate
<1>4. ~Opens(answer) /\ ~Confirms(answer) /\ answer \in Frame
  <2>1. answer.cs = "UPLOAD_INITIATE"
    BY DEF Plain
  <2>2. answer \in Frame
    BY <1>1, <1>2, ObjLenType, PlainType DEF Frame, Specifiers
  <2>3. QED
    BY <2>1, <2>2, NoClass
<1>5. Return(Armed(s)) /\ ServerSend(answer) /\ mem' = mem
  BY DEF UploadInitiate
<1>6. IndInv'
  BY <1>1, UploadInitiateIndInv
<1> HIDE DEF answer, o
<1>7. /\ ~srv'.new /\ srv'.state = "UPLOAD_SEGMENTED" /\ srv'.internal = srv.internal
      /\ srv'.tx = answer /\ srv'.rx = srv.rx
  <2>1. /\ Begun(Entered) \in Servers /\ Begun(Entered).internal = srv.internal
        /\ Begun(Entered).rx = srv.rx
    BY <1>1, <1>2, BegunType, BegunKeeps, EnteredKeeps
  <2>2. QED
    BY <1>5, <2>1 DEF Return, Armed, Servers
<1>8. ServerInStep(srv') /\ ~Taking(srv')
  BY <1>3, <1>7 DEF ServerInStep, Taking
<1>9. AllInPlace(mem')
  BY <1>5, LateParts
<1>10. QED
  BY <1>3, <1>4, <1>5, <1>6, <1>7, <1>8, <1>9, ServerRepliesOutside

\* A segment of an upload.
LEMMA UploadSegmentLate ==
  ASSUME LateInv, cli' = cli, UploadSegment
  PROVE  LateInv'
<1> DEFINE last == LastSegment(srv)
           answer == [Plain("UPLOAD_SEGMENT") EXCEPT !.t = srv.toggle, !.c = last,
                                                     !.data = Outgoing]
           s == [Entered EXCEPT !.offset = srv.offset + SegmentLen(srv), !.tx = answer,
                                !.toggle = Flip(srv.toggle)]
<1>1. srv \in Servers /\ IndInv /\ ServerInStep(srv) /\ srv.rx \in Frame
      /\ srv.toggle \in {0, 1}
  BY LateParts DEF Servers
<1>2. /\ Entered \in Servers /\ Entered.state = "UPLOAD_SEGMENTED"
      /\ srv.state = "UPLOAD_SEGMENTED"
      /\ Entered.internal = srv.internal /\ Entered.rx = srv.rx
  BY <1>1, ReachedType, EnteredKeeps DEF UploadSegment
<1>3. RequestLives(0)
  <2>1. srv.new
    BY <1>1, <1>2 DEF UploadSegment, Reached, ServerInStep
  <2>2. QED
    BY <2>1, SlotTurn DEF UploadSegment, Reached
<1>4. ~Opens(answer) /\ ~Confirms(answer)
  <2>1. answer.cs = "UPLOAD_SEGMENT"
    BY DEF Plain
  <2>2. QED
    BY <2>1, NoClass
<1>5. /\ Return(IF last THEN [s EXCEPT !.state = "IDLE"] ELSE Armed(s))
      /\ ServerSend(answer) /\ mem' = mem /\ srv.rx.t = srv.toggle
  BY DEF UploadSegment
<1>6. IndInv'
  BY <1>1, UploadSegmentIndInv
<1>7. answer \in Frame
  <2>1. srv.obj \in Objects /\ srv.offset \in Nat /\ srv.len \in Nat
    BY <1>1 DEF Servers
  <2>2. srv.offset <= srv.len /\ srv.len <= ObjLen[srv.obj]
    BY <1>1, <1>2, IndInvParts DEF InObject
  <2>3. SegmentLen(srv) \in Nat /\ srv.offset + SegmentLen(srv) <= srv.len
    BY <1>1, <2>2, SegmentLenType
  <2>4. mem["data"][srv.obj] \in Seq(Byte) /\ Len(mem["data"][srv.obj]) = ObjLen[srv.obj]
    BY <1>1, <2>1, IndInvParts DEF Memory, Buffers
  <2>5. srv.offset + SegmentLen(srv) <= Len(mem["data"][srv.obj])
    BY <2>1, <2>2, <2>3, <2>4, ObjLenType
  <2>6. Outgoing \in Seq(Byte)
    BY <2>1, <2>3, <2>4, <2>5, SliceType DEF Outgoing
  <2>7. last \in BOOLEAN
    BY DEF LastSegment
  <2> HIDE DEF last
  <2>8. QED
    BY <1>1, <2>6, <2>7, PlainType DEF Frame, Specifiers
<1> HIDE DEF answer, last
<1>8. /\ ~srv'.new /\ srv'.internal = srv.internal
      /\ srv'.state \in {"IDLE", "UPLOAD_SEGMENTED"}
      /\ srv'.tx = answer /\ srv'.rx = srv.rx /\ srv'.toggle = Flip(srv.toggle)
  BY <1>2, <1>5 DEF Return, Armed, Servers
<1>9. ServerInStep(srv') /\ ~Taking(srv')
  BY <1>1, <1>5, <1>8 DEF ServerInStep, Taking, Flip
<1>10. AllInPlace(mem')
  BY <1>5, LateParts
<1>11. QED
  BY <1>3, <1>4, <1>5, <1>6, <1>7, <1>8, <1>9, <1>10, ServerRepliesOutside

\* Every way a call of CO_SDOserver_process can go.
LEMMA ServerLate ==
  ASSUME LateInv, Server
  PROVE  LateInv'
<1>1. cli' = cli /\ (ServerTimeout \/ ServerNothing \/ ServerStep)
  BY DEF Server, ServerProcess
<1>2. CASE ServerTimeout \/ ServerNothing
  BY <1>1, <1>2, ServerSilentLate
<1>3. CASE ServerStep
  BY <1>1, <1>3, ServerSilentLate, ServerRefusesLate, DownloadExpeditedLate,
     DownloadInitiateLate, DownloadSegmentLate, ConfirmSuccessLate,
     UploadExpeditedLate, UploadInitiateLate, UploadSegmentLate
  DEF ServerStep
<1>4. QED
  BY <1>1, <1>2, <1>3

----------------------------------------------------------------------------
(* The client's calls.                                                       *)

\* A request goes behind those on the bus; an abort is answered by nothing.
LEMMA RequestSent ==
  ASSUME toServer \in Seq(Frame), NEW f \in Frame, toServer' = Append(toServer, f), srv' = srv
  PROVE  /\ RequestAdded(Len(toServer) + 1, f) /\ Len(toServer) + 1 \in Nat \ {0}
         /\ f.cs = "ABORT" => RequestsLeft
<1>1. Len(toServer) \in Nat /\ Len(toServer') = Len(toServer) + 1
  OBVIOUS
<1>2. ASSUME NEW k \in Nat, RequestLives(k)'
      PROVE  \/ k < Len(toServer) + 1 /\ RequestLives(k) /\ RequestAt(k)' = RequestAt(k)
             \/ k = Len(toServer) + 1 /\ RequestAt(k)' = f /\ f.cs # "ABORT"
  <2>1. k \in 0..Len(toServer) + 1 /\ (k = 0 => srv.new) /\ RequestAt(k)'.cs # "ABORT"
    BY <1>1, <1>2 DEF RequestLives
  <2>2. CASE k = 0
    BY <1>1, <2>1, <2>2 DEF RequestLives, RequestAt
  <2>3. CASE k \in 1..Len(toServer)
    <3>1. RequestAt(k)' = RequestAt(k)
      BY <1>1, <2>3 DEF RequestAt
    <3>2. QED
      BY <1>1, <2>1, <2>3, <3>1 DEF RequestLives
  <2>4. CASE k = Len(toServer) + 1
    <3>1. RequestAt(k)' = f
      BY <1>1, <2>4 DEF RequestAt
    <3>2. QED
      BY <2>1, <2>4, <3>1
  <2>5. QED
    BY <1>1, <2>1, <2>2, <2>3, <2>4
<1>3. QED
  BY <1>1, <1>2 DEF RequestAdded, RequestsLeft

\* The client has handled the answer in its slot.
LEMMA AnswerTakenOff ==
  ASSUME ~cli'.new, toClient' = toClient
  PROVE  AnswersLeft
BY DEF AnswersLeft, AnswerLives, AnswerAt

\* The answer in the client's slot is the first there is.
LEMMA ClientHasAnswer ==
  ASSUME cli.new, toClient \in Seq(Frame)
  PROVE  AnswerLives(0) /\ AnswerAt(0) = cli.rx
BY DEF AnswerLives, AnswerAt

\* A client that is out of a transfer.
LEMMA IdleClient ==
  ASSUME NEW c, c.state = "IDLE", ~c.new
  PROVE  ClientInStep(c) /\ Idle(c) /\ Level(c) = -2 /\ ~Sending(c)
BY DEF ClientInStep, Idle, Sending, Level

\* A client that waits for an answer does not call itself.
LEMMA WaitingClient ==
  ASSUME ClientInStep(cli), NEW st, ClientAt(st),
         st \in {"DOWNLOAD_INITIATE_RSP", "DOWNLOAD_SEGMENTED",
                 "UPLOAD_INITIATE_RSP", "UPLOAD_SEGMENTED"}
  PROVE  cli.new /\ cli.state = st /\ ~Idle(cli)
BY DEF ClientAt, ClientInStep, Idle

\* A call that ends the transfer.
LEMMA ClientEndsLate ==
  ASSUME LateInv, UNCHANGED serverVars, cli.new,
         cli' \in Clients, cli'.state = "IDLE", ~cli'.new,
         UNCHANGED wires \/ ClientSend(AbortFrame)
  PROVE  LateInv'
<1>1. IndInv /\ srv' = srv /\ mem' = mem
  BY LateParts DEF serverVars
<1>2. toServer \in Seq(Frame) /\ toClient \in Seq(Frame)
  BY <1>1, IndInvParts
<1>3. /\ toClient' = toClient /\ toServer' \in Seq(Frame)
      /\ toServer' = toServer \/ toServer' = Append(toServer, AbortFrame)
  BY <1>2, AbortFrameType DEF wires, ClientSend
<1>4. IndInv'
  BY <1>1, <1>2, <1>3, ServerStays
<1>5. AnswersLeft /\ AnswerLives(0)
  BY <1>2, <1>3, AnswerTakenOff, ClientHasAnswer
<1>6. RequestsLeft
  <2>1. CASE toServer' = toServer
    BY <1>1, <2>1 DEF RequestsLeft, RequestLives, RequestAt
  <2>2. CASE toServer' = Append(toServer, AbortFrame)
    <3>1. AbortFrame.cs = "ABORT"
      BY PlainFacts DEF AbortFrame
    <3>2. QED
      BY <1>1, <1>2, <2>2, <3>1, AbortFrameType, RequestSent
  <2>3. QED
    BY <1>3, <2>1, <2>2
<1>7. ClientInStep(cli') /\ Idle(cli') /\ Level(cli') = -2
  BY IdleClient
<1>8. PICK L \in {-2, -1, 0, 1, 2} : Level(cli) = L
  BY LevelType, LateParts
<1>9. Conversation'
  BY <1>1, <1>5, <1>6, <1>7, <1>8, ClientLeavesConversation, LateParts
<1>10. AllData'
  BY <1>1, <1>5, <1>6, <1>7, <1>8, ClientLeavesData, LateParts
<1>11. ServerInStep(srv') /\ AllInPlace(mem')
  BY <1>1, LateParts
<1>12. QED
  BY <1>4, <1>7, <1>9, <1>10, <1>11, LateAfter

\* A call that goes on with the transfer.
LEMMA ClientGoesOnLate ==
  ASSUME LateInv, UNCHANGED serverVars, Idle(cli) \/ cli.new,
         cli' \in Clients, ClientInStep(cli'), ~cli'.new,
         NEW f \in Frame, ClientSend(f), Placed(f),
         Carries(f) <=> Sending(cli'), Sending(cli') => Number(f) = Index(cli'),
         Sending(cli') =>
           IF Sending(cli) THEN Index(cli') = Index(cli) + 1 ELSE Index(cli') = 0,
         Sending(cli) => Carries(cli.rx) /\ cli.rx.t = cli.toggle,
         Advances(Level(cli), Level(cli'), Opens(cli.rx), Confirms(cli.rx), Opens(f), Further(f))
  PROVE  LateInv'
<1>1. IndInv /\ srv' = srv /\ mem' = mem
  BY LateParts DEF serverVars
<1>2. toServer \in Seq(Frame) /\ toClient \in Seq(Frame)
  BY <1>1, IndInvParts
<1>3. toClient' = toClient /\ toServer' = Append(toServer, f) /\ toServer' \in Seq(Frame)
  BY <1>2 DEF ClientSend
<1>4. IndInv'
  BY <1>1, <1>2, <1>3, ServerStays
<1>5. AnswersLeft
  BY <1>3, AnswerTakenOff
<1>6. PICK m \in Nat \ {0} : RequestAdded(m, f)
  BY <1>1, <1>2, <1>3, RequestSent
<1>7. PICK L \in {-2, -1, 0, 1, 2}, M \in {-2, -1, 0, 1, 2} :
        Level(cli) = L /\ Level(cli') = M
  BY LevelType, LateParts
<1>8. L # -2 => AnswerLives(0)
  <2>1. L = -2 <=> Idle(cli)
    BY <1>7, LevelType, LateParts
  <2>2. QED
    BY <1>2, <2>1, ClientHasAnswer
<1>9. Conversation'
  <2>1. Advances(L, M, Opens(cli.rx), Confirms(cli.rx), Opens(f), Further(f))
    BY <1>7
  <2>2. QED
    BY <1>1, <1>5, <1>6, <1>7, <1>8, <2>1, ClientGoesOnConversation, LateParts
<1>10. AllData'
  <2>1. Level(cli) # -2 => AnswerLives(0)
    BY <1>7, <1>8
  <2>2. QED
    BY <1>1, <1>5, <1>6, <2>1, ClientGoesOnData, LateParts
<1>11. ServerInStep(srv') /\ AllInPlace(mem')
  BY <1>1, LateParts
<1>12. QED
  BY <1>4, <1>9, <1>10, <1>11, LateAfter

\* What a request that is sent leaves of the client's record.
LEMMA AwaitKeeps ==
  ASSUME NEW s \in Clients, NEW f, Await(s, f)
  PROVE  /\ cli' \in Clients /\ ~cli'.new /\ cli'.state = s.state /\ cli'.internal = s.internal
         /\ cli'.size = s.size /\ cli'.len = s.len /\ cli'.buf = s.buf
         /\ cli'.toggle = s.toggle /\ cli'.offset = s.offset
         /\ ClientSend(f)
BY DEF Await, Clients

\* Every way a transfer ends.
LEMMA ClientStopsLate ==
  ASSUME LateInv, UNCHANGED serverVars,
         \/ ServerAbort \/ DownloadAnswerRefused \/ DownloadSegmentAnswerRefused
         \/ UploadAnswerRefused \/ UploadExpeditedTooLong \/ UploadSegmentAnswerRefused
  PROVE  LateInv'
<1>1. cli \in Clients /\ ClientInStep(cli)
  BY LateParts
<1>2. ClientAborted \in Clients /\ ClientAborted.state = "IDLE" /\ ~ClientAborted.new
  BY <1>1, ClientAbortedFacts
<1>3. CASE ServerAbort
  <2>1. cli.new /\ cli' = Ended(cli, "abort") /\ UNCHANGED wires
    BY <1>3 DEF ServerAbort
  <2>2. cli' \in Clients /\ cli'.state = "IDLE" /\ ~cli'.new
    BY <1>1, <2>1, EndedFacts
  <2>3. QED
    BY <2>1, <2>2, ClientEndsLate
<1>4. CASE UploadExpeditedTooLong
  <2>1. cli.new /\ cli' = ClientAborted /\ UNCHANGED wires
    BY <1>1, <1>4, WaitingClient DEF UploadExpeditedTooLong
  <2>2. QED
    BY <1>2, <2>1, ClientEndsLate
<1>5. CASE \/ DownloadAnswerRefused \/ DownloadSegmentAnswerRefused
           \/ UploadAnswerRefused \/ UploadSegmentAnswerRefused
  <2>1. cli.new
    BY <1>1, <1>5, WaitingClient
    DEF DownloadAnswerRefused, DownloadSegmentAnswerRefused,
        UploadAnswerRefused, UploadSegmentAnswerRefused
  <2>2. cli' = ClientAborted /\ ClientSend(AbortFrame)
    BY <1>5
    DEF DownloadAnswerRefused, DownloadSegmentAnswerRefused,
        UploadAnswerRefused, UploadSegmentAnswerRefused, ClientRefuse
  <2>3. QED
    BY <1>2, <2>1, <2>2, ClientEndsLate
<1>6. QED
  BY <1>3, <1>4, <1>5

\* The request of a download.
LEMMA RequestDownloadLate ==
  ASSUME LateInv, UNCHANGED serverVars, RequestDownload
  PROVE  LateInv'
<1> DEFINE e == cli.size <= ExpeditedBytes
           s == [cli EXCEPT !.state = "DOWNLOAD_INITIATE_RSP", !.internal = FALSE,
                            !.toggle = 0, !.offset = 0, !.len = cli.size]
           f == [Plain("DOWNLOAD_INITIATE") EXCEPT
                   !.mux = cli.mux, !.e = e, !.s = TRUE,
                   !.size = IF e THEN Announced(cli.size) ELSE cli.size,
                   !.data = IF e THEN cli.buf ELSE <<>>]
<1>1. cli \in Clients /\ ClientInStep(cli) /\ cli.state = "DOWNLOAD_INITIATE_REQ"
  BY LateParts DEF RequestDownload, ClientAt
<1>2. cli.mux \in Muxes /\ cli.size \in Nat /\ cli.buf \in Seq(Byte)
  BY <1>1 DEF Clients
<1>3. s \in Clients
  BY <1>1 DEF Clients, ClientStates
<1>4. Await(s, f)
  BY DEF RequestDownload
<1>5. f \in Frame
  <2>1. (IF e THEN Announced(cli.size) ELSE cli.size) \in Nat
    <3>1. e => cli.size \in 0..4
      BY <1>2 DEF ExpeditedBytes
    <3>2. QED
      BY <1>2, <3>1, AnnouncedIsSize
  <2>2. e \in BOOLEAN /\ (IF e THEN cli.buf ELSE <<>>) \in Seq(Byte)
    BY <1>2
  <2> HIDE DEF e
  <2>3. QED
    BY <1>2, <2>1, <2>2, PlainType DEF Frame, Specifiers
<1>6. f.cs = "DOWNLOAD_INITIATE" /\ f.data = IF e THEN cli.buf ELSE <<>>
  BY DEF Plain
<1>7. \A m \in 1..Len(cli.buf) : cli.buf[m][2] = m
  BY <1>1 DEF ClientInStep
<1> HIDE DEF e, f
<1>8. ~Carries(f) /\ ~Further(f) /\ Placed(f)
  <2>1. ~Carries(f)
    BY <1>6 DEF Carries
  <2>2. \A m \in 1..Len(f.data) : f.data[m][2] = m
    BY <1>6, <1>7
  <2>3. QED
    BY <2>1, <2>2 DEF Further, Placed
<1>9. /\ cli' \in Clients /\ ~cli'.new /\ ~cli'.internal /\ cli'.state = "DOWNLOAD_INITIATE_RSP"
      /\ cli'.size = cli.size /\ cli'.len = cli.size /\ cli'.buf = cli.buf /\ cli'.toggle = 0
      /\ ClientSend(f)
  <2>1. /\ s.state = "DOWNLOAD_INITIATE_RSP" /\ ~s.internal /\ s.size = cli.size
        /\ s.len = cli.size /\ s.buf = cli.buf /\ s.toggle = 0
    BY <1>1 DEF Clients
  <2> HIDE DEF s
  <2>2. QED
    BY <1>3, <1>4, <2>1, AwaitKeeps
<1>10. Idle(cli) /\ ~Sending(cli) /\ Level(cli) = -2
  BY <1>1 DEF Idle, Sending, Level
<1>11. ~Idle(cli') /\ ~Sending(cli') /\ Level(cli') = -1
  BY <1>9 DEF Idle, Sending, Level
<1>12. ClientInStep(cli')
  BY <1>1, <1>9, <1>11 DEF ClientInStep
<1>13. Advances(Level(cli), Level(cli'), Opens(cli.rx), Confirms(cli.rx), Opens(f), Further(f))
  BY <1>8, <1>10, <1>11 DEF Advances
<1>14. QED
  BY <1>5, <1>8, <1>9, <1>10, <1>11, <1>12, <1>13, ClientGoesOnLate

\* A request of an upload: the client stays outside of downloads.
LEMMA ClientUploadsLate ==
  ASSUME LateInv, UNCHANGED serverVars, Idle(cli) \/ (~Sending(cli) /\ cli.new),
         NEW s \in Clients, NEW f \in Frame, Await(s, f), ~s.internal,
         s.state \in {"UPLOAD_INITIATE_RSP", "UPLOAD_SEGMENTED"},
         s.state = "UPLOAD_SEGMENTED" => s.offset <= s.len,
         f.cs \in {"UPLOAD_INITIATE", "UPLOAD_SEGMENT"}
  PROVE  LateInv'
<1>1. /\ cli' \in Clients /\ ~cli'.new /\ ~cli'.internal
      /\ cli'.state \in {"UPLOAD_INITIATE_RSP", "UPLOAD_SEGMENTED"} /\ ClientSend(f)
      /\ cli'.state = "UPLOAD_SEGMENTED" => cli'.offset <= cli'.len
  BY AwaitKeeps
<1>2. ~Opens(f) /\ ~Carries(f) /\ ~Further(f) /\ Placed(f)
  BY NoClass DEF Placed
<1>3. ~Sending(cli) /\ Level(cli) \in {-2, -1}
  BY DEF Idle, Sending, Level
<1>4. ~Idle(cli') /\ ~Sending(cli') /\ Level(cli') = -1
  BY <1>1 DEF Idle, Sending, Level
<1>5. ClientInStep(cli')
  BY <1>1, <1>4 DEF ClientInStep
<1>6. Advances(Level(cli), Level(cli'), Opens(cli.rx), Confirms(cli.rx), Opens(f), Further(f))
  BY <1>2, <1>3, <1>4 DEF Advances
<1>7. QED
  BY <1>1, <1>2, <1>3, <1>4, <1>5, <1>6, ClientGoesOnLate

\* The request of an upload.
LEMMA RequestUploadLate ==
  ASSUME LateInv, UNCHANGED serverVars, RequestUpload
  PROVE  LateInv'
<1> DEFINE s == [cli EXCEPT !.state = "UPLOAD_INITIATE_RSP", !.internal = FALSE,
                            !.toggle = 0, !.offset = 0]
           f == [Plain("UPLOAD_INITIATE") EXCEPT !.mux = cli.mux]
<1>1. cli \in Clients /\ cli.state = "UPLOAD_INITIATE_REQ" /\ cli.mux \in Muxes
  BY LateParts DEF RequestUpload, ClientAt, Clients
<1>2. s \in Clients /\ s.state = "UPLOAD_INITIATE_RSP" /\ ~s.internal
  BY <1>1 DEF Clients, ClientStates
<1>3. f \in Frame /\ f.cs = "UPLOAD_INITIATE"
  <2>1. f.cs = "UPLOAD_INITIATE"
    BY DEF Plain
  <2>2. QED
    BY <1>1, <2>1, PlainType DEF Frame, Specifiers
<1>4. Await(s, f)
  BY DEF RequestUpload
<1>5. Idle(cli)
  BY <1>1 DEF Idle
<1> HIDE DEF s, f
<1>6. QED
  BY <1>2, <1>3, <1>4, <1>5, ClientUploadsLate

\* An upload ends with its first answer.
LEMMA UploadExpeditedAnsweredLate ==
  ASSUME LateInv, UNCHANGED serverVars, UploadExpeditedAnswered
  PROVE  LateInv'
<1>1. cli \in Clients /\ ClientInStep(cli)
  BY LateParts
<1>2. cli.new
  BY <1>1, WaitingClient DEF UploadExpeditedAnswered
<1> DEFINE n == cli.rx.size
           b == Copy(cli.buf, 0, cli.rx.data, n)
           t == Ended(cli, "success")
<1>3. n \in Nat /\ b \in Seq(Byte)
  <2>1. cli.buf \in Seq(Byte) /\ n \in Nat /\ cli.rx.data \in Seq(Byte)
    BY <1>1 DEF Clients, Frame
  <2>2. QED
    BY <2>1, CopyType
<1>4. t \in Clients /\ t.state = "IDLE" /\ ~t.new /\ t.buf = cli.buf
  BY <1>1, EndedFacts
<1>5. cli' = [t EXCEPT !.len = n, !.offset = n, !.buf = b] /\ UNCHANGED wires
  BY <1>4 DEF UploadExpeditedAnswered
<1> HIDE DEF n, b, t
<1>6. cli' \in Clients /\ cli'.state = "IDLE" /\ ~cli'.new
  BY <1>3, <1>4, <1>5 DEF Clients
<1>7. QED
  BY <1>2, <1>5, <1>6, ClientEndsLate

\* The first segment of an upload is asked for.
LEMMA UploadAnsweredLate ==
  ASSUME LateInv, UNCHANGED serverVars, UploadAnswered
  PROVE  LateInv'
<1> DEFINE n == TransLen(cli.rx.size)
           s == [cli EXCEPT !.state = "UPLOAD_SEGMENTED", !.offset = 0, !.len = n]
           f == Plain("UPLOAD_SEGMENT")
<1>1. cli \in Clients /\ ClientInStep(cli)
  BY LateParts
<1>2. cli.new /\ cli.state = "UPLOAD_INITIATE_RSP" /\ ~cli.internal /\ ~Sending(cli)
  BY <1>1, WaitingClient DEF UploadAnswered, ClientInStep, Sending
<1>3. n \in Nat
  BY <1>1, TransLenType DEF Clients, Frame
<1>4. Await(s, f)
  BY DEF UploadAnswered
<1> HIDE DEF n
<1>5. s \in Clients /\ s.state = "UPLOAD_SEGMENTED" /\ ~s.internal /\ s.offset <= s.len
  <2>1. /\ s \in Clients /\ s.state = "UPLOAD_SEGMENTED" /\ ~s.internal
        /\ s.offset = 0 /\ s.len = n
    BY <1>1, <1>2, <1>3 DEF Clients, ClientStates
  <2>2. QED
    BY <1>3, <2>1
<1>6. f \in Frame /\ f.cs = "UPLOAD_SEGMENT"
  BY PlainType, PlainFacts DEF Specifiers
<1> HIDE DEF s, f
<1>7. QED
  BY <1>2, <1>4, <1>5, <1>6, ClientUploadsLate

\* A segment of an upload has come: the next is asked for, or it was the last.
LEMMA UploadSegmentAnsweredLate ==
  ASSUME LateInv, UNCHANGED serverVars, UploadSegmentAnswered
  PROVE  LateInv'
<1> DEFINE n == Smaller(cli.len - cli.offset, SegmentBytes)
           b == Copy(cli.buf, cli.offset, cli.rx.data, n)
           s == [cli EXCEPT !.toggle = Flip(@), !.offset = @ + n, !.buf = b]
           f == [Plain("UPLOAD_SEGMENT") EXCEPT !.t = s.toggle]
<1>1. cli \in Clients /\ ClientInStep(cli)
  BY LateParts
<1>2. cli.new /\ cli.state = "UPLOAD_SEGMENTED" /\ ~cli.internal /\ ~Sending(cli)
  BY <1>1, WaitingClient DEF UploadSegmentAnswered, ClientInStep, Sending
<1>3. /\ cli.offset \in Nat /\ cli.len \in Nat /\ cli.offset <= cli.len
      /\ cli.toggle \in {0, 1} /\ cli.buf \in Seq(Byte) /\ cli.rx.data \in Seq(Byte)
  BY <1>1, <1>2 DEF ClientInStep, Clients, Frame
<1>4. n \in Nat /\ cli.offset + n \in Nat /\ cli.offset + n <= cli.len
  BY <1>3 DEF Smaller, SegmentBytes
<1>5. b \in Seq(Byte)
  <2> HIDE DEF n
  <2>1. QED
    BY <1>3, <1>4, CopyType
<1>6. IF LastToCome
      THEN cli' = Ended(s, "success") /\ UNCHANGED wires
      ELSE Await(s, f)
  BY DEF UploadSegmentAnswered
<1> HIDE DEF n, b
<1>7. /\ s \in Clients /\ s.state = "UPLOAD_SEGMENTED" /\ ~s.internal
      /\ s.toggle \in {0, 1} /\ s.offset <= s.len
  BY <1>1, <1>2, <1>3, <1>4, <1>5, FlipType DEF Clients
<1>8. f \in Frame /\ f.cs = "UPLOAD_SEGMENT"
  <2> HIDE DEF s
  <2>1. QED
    BY <1>7, AskSegmentFrame
<1> HIDE DEF s, f
<1>9. CASE LastToCome
  <2>1. cli' \in Clients /\ cli'.state = "IDLE" /\ ~cli'.new /\ UNCHANGED wires
    BY <1>6, <1>7, <1>9, EndedFacts
  <2>2. QED
    BY <1>2, <2>1, ClientEndsLate
<1>10. CASE ~LastToCome
  <2>1. Await(s, f)
    BY <1>6, <1>10
  <2>2. QED
    BY <1>2, <1>7, <1>8, <2>1, ClientUploadsLate
<1>11. QED
  BY <1>9, <1>10

\* Where a segment's bytes come from, and where they go.
LEMMA SegmentPlace ==
  ASSUME NEW i \in Nat, NEW n \in 1..SegmentBytes
  PROVE  /\ (SegmentBytes * i + n - 1) \div SegmentBytes = i
         /\ (SegmentBytes * i + 1 - 1) \div SegmentBytes = i
BY DEF SegmentBytes

\* The next segment of a download, number i.
LEMMA SendSegmentLate ==
  ASSUME LateInv, UNCHANGED serverVars, cli.new, NEW i \in Nat, NEW t, t = i % 2,
         cli.state \in {"DOWNLOAD_INITIATE_RSP", "DOWNLOAD_SEGMENTED"},
         NEW off \in Nat, off = SegmentBytes * i, off < cli.len, SendSegment(off, t),
         IF Sending(cli)
         THEN i = Index(cli) + 1 /\ Carries(cli.rx) /\ cli.rx.t = cli.toggle
         ELSE i = 0 /\ Opens(cli.rx)
  PROVE  LateInv'
<1>1. cli \in Clients /\ ClientInStep(cli) /\ ~Idle(cli)
  BY LateParts DEF Idle
<1>2. /\ cli.len \in Nat /\ cli.buf \in Seq(Byte) /\ Len(cli.buf) = cli.len
      /\ cli.len = cli.size /\ ~cli.internal
      /\ \A k \in 1..Len(cli.buf) : cli.buf[k][2] = k
  BY <1>1 DEF Clients, ClientInStep
<1>3. PICK n : n = SegmentSize(off)
  OBVIOUS
<1>4. /\ n \in Nat /\ n \in 1..SegmentBytes /\ off + n <= cli.len /\ off + n \in Nat
      /\ off + n < cli.len => n = SegmentBytes
  <2>1. PICK l \in Nat : l = cli.len
    BY <1>2
  <2>2. l - off \in Nat /\ l - off >= 1
    BY <2>1
  <2>3. n = IF l - off < SegmentBytes THEN l - off ELSE SegmentBytes
    BY <1>3, <2>1 DEF SegmentSize, Smaller
  <2>4. n \in Nat /\ n \in 1..SegmentBytes
    BY <2>2, <2>3 DEF SegmentBytes
  <2>5. off + n <= l /\ off + n \in Nat /\ (off + n < l => n = SegmentBytes)
    BY <2>2, <2>3, <2>4 DEF SegmentBytes
  <2>6. QED
    BY <2>1, <2>4, <2>5
<1>5. PICK d : d = NextBytes(off)
  OBVIOUS
<1>6. d \in Seq(Byte) /\ Len(d) = n /\ \A k \in 1..n : d[k][2] = off + k
  <2>1. d = Slice(cli.buf, off, n)
    BY <1>3, <1>5 DEF NextBytes
  <2>2. d \in Seq(Byte) /\ Len(d) = n /\ \A k \in 1..n : d[k] = cli.buf[off + k]
    <3>1. cli.buf \in Seq(Byte) /\ n \in Nat /\ off + n <= Len(cli.buf)
      BY <1>2, <1>4
    <3>2. /\ Slice(cli.buf, off, n) \in Seq(Byte) /\ Len(Slice(cli.buf, off, n)) = n
          /\ \A k \in 1..n : Slice(cli.buf, off, n)[k] = cli.buf[off + k]
      BY <3>1, SliceBytes
    <3>3. QED
      BY <2>1, <3>2
  <2>3. \A k \in 1..n : off + k \in 1..Len(cli.buf)
    BY <1>2, <1>4
  <2>4. QED
    BY <1>2, <2>2, <2>3
<1>7. PICK c \in BOOLEAN : c = (cli.len <= off + SegmentBytes)
  <2> DEFINE e == cli.len <= off + SegmentBytes
  <2>1. e \in BOOLEAN
    OBVIOUS
  <2> HIDE DEF e
  <2>2. QED
    BY <2>1 DEF e
<1>8. PICK f : f = [Plain("DOWNLOAD_SEGMENT") EXCEPT !.t = t, !.c = c, !.data = d]
  OBVIOUS
<1>9. f \in Frame /\ f.cs = "DOWNLOAD_SEGMENT" /\ f.t = t /\ f.data = d
  <2>1. Plain("DOWNLOAD_SEGMENT") \in Frame /\ Plain("DOWNLOAD_SEGMENT").cs = "DOWNLOAD_SEGMENT"
    BY PlainType, PlainFacts DEF Specifiers
  <2>2. t \in {0, 1}
    OBVIOUS
  <2>3. QED
    BY <1>6, <1>8, <2>1, <2>2 DEF Frame
<1>10. PICK s : s = [cli EXCEPT !.state = "DOWNLOAD_SEGMENTED", !.toggle = t, !.offset = off + n]
  OBVIOUS
<1>11. Await(s, f)
  BY <1>3, <1>5, <1>7, <1>8, <1>10 DEF SendSegment
<1>12. /\ s \in Clients /\ s.state = "DOWNLOAD_SEGMENTED" /\ ~s.internal
       /\ s.toggle = t /\ s.offset = off + n /\ s.len = cli.len /\ s.size = cli.size
       /\ s.buf = cli.buf
  <2>1. t \in {0, 1}
    OBVIOUS
  <2>2. QED
    BY <1>1, <1>2, <1>4, <1>10, <2>1 DEF Clients, ClientStates
<1>13. /\ cli' \in Clients /\ ~cli'.new /\ ~cli'.internal
       /\ cli'.state = "DOWNLOAD_SEGMENTED" /\ cli'.toggle = t /\ cli'.offset = off + n
       /\ cli'.len = cli.len /\ cli'.size = cli.size /\ cli'.buf = cli.buf
       /\ ClientSend(f)
  BY <1>11, <1>12, AwaitKeeps
<1>14. Number(f) = i
  <2>1. f.data[1][2] = off + 1
    BY <1>4, <1>6, <1>9 DEF SegmentBytes
  <2>2. QED
    BY <1>4, <2>1, SegmentPlace DEF Number
<1>15. Carries(f) /\ ~Opens(f) /\ (Further(f) <=> i >= 1) /\ Placed(f)
  <2>1. Carries(f) /\ ~Opens(f) /\ (Further(f) <=> i >= 1)
    BY <1>9, <1>14 DEF Carries, Opens, Further
  <2>2. f.data # <<>>
    BY <1>4, <1>6, <1>9, EmptySeq
  <2>3. \A m \in 1..Len(f.data) : f.data[m][2] = SegmentBytes * Number(f) + m
    BY <1>6, <1>9, <1>14
  <2>4. QED
    BY <1>9, <1>14, <2>1, <2>2, <2>3 DEF Placed
<1>16. Sending(cli') /\ ~Idle(cli') /\ Index(cli') = i
  <2>1. Index(cli') = i
    BY <1>4, <1>13, SegmentPlace DEF Index
  <2>2. QED
    BY <1>13, <2>1 DEF Sending, Idle
<1>17. ClientInStep(cli')
  <2>1. cli'.offset \in 1..cli'.len
    BY <1>2, <1>4, <1>13
  <2>2. cli'.offset < cli'.len => cli'.offset = SegmentBytes * (Index(cli') + 1)
    BY <1>4, <1>13, <1>16 DEF SegmentBytes
  <2>3. QED
    BY <1>2, <1>13, <1>16, <2>1, <2>2 DEF ClientInStep
<1>18. Advances(Level(cli), Level(cli'), Opens(cli.rx), Confirms(cli.rx), Opens(f), Further(f))
  <2>1. Level(cli') = IF i >= 2 THEN 2 ELSE i
    BY <1>16 DEF Level
  <2>2. CASE ~Sending(cli)
    <3>1. Level(cli) = -1
      BY <1>1, <2>2 DEF Level
    <3>2. QED
      BY <1>15, <2>1, <2>2, <3>1 DEF Advances
  <2>3. CASE Sending(cli)
    <3>1. Index(cli) \in Nat /\ i = Index(cli) + 1
      BY <1>1, <2>3, LevelType
    <3>2. Level(cli) = IF Index(cli) >= 2 THEN 2 ELSE Index(cli)
      BY <1>1, <2>3 DEF Level
    <3>3. cli.toggle = Index(cli) % 2 /\ Carries(cli.rx) /\ cli.rx.t = cli.toggle
      BY <1>1, <2>3 DEF ClientInStep
    <3>4. Index(cli) = 1 => Confirms(cli.rx)
      BY <3>3 DEF Confirms
    <3>5. QED
      BY <1>15, <2>1, <3>1, <3>2, <3>4 DEF Advances
  <2>4. QED
    BY <2>2, <2>3
<1>19. /\ Sending(cli') => Number(f) = Index(cli')
       /\ Sending(cli') =>
            IF Sending(cli) THEN Index(cli') = Index(cli) + 1 ELSE Index(cli') = 0
       /\ Sending(cli) => Carries(cli.rx) /\ cli.rx.t = cli.toggle
       /\ Carries(f) <=> Sending(cli')
  BY <1>14, <1>15, <1>16
<1>20. QED
  BY <1>9, <1>13, <1>15, <1>17, <1>18, <1>19, ClientGoesOnLate

\* The server has taken the request: the first segment follows, or nothing.
LEMMA DownloadAnsweredLate ==
  ASSUME LateInv, UNCHANGED serverVars, DownloadAnswered
  PROVE  LateInv'
<1>1. cli \in Clients /\ ClientInStep(cli)
  BY LateParts
<1>2. cli.new /\ cli.state = "DOWNLOAD_INITIATE_RSP" /\ ~Sending(cli)
  BY <1>1, WaitingClient DEF DownloadAnswered, Sending
<1>3. Opens(cli.rx)
  BY DEF DownloadAnswered, InitiateAnswered, Opens
<1>4. CASE cli.len <= ExpeditedBytes
  <2>1. cli' = Ended(cli, "success") /\ UNCHANGED wires
    BY <1>4 DEF DownloadAnswered
  <2>2. QED
    BY <1>1, <1>2, <2>1, EndedFacts, ClientEndsLate
<1>5. CASE ~(cli.len <= ExpeditedBytes)
  <2>1. SendSegment(0, 0) /\ 0 < cli.len
    BY <1>1, <1>2, <1>5 DEF DownloadAnswered, ClientInStep, Clients, ExpeditedBytes
  <2>2. 0 = SegmentBytes * 0 /\ 0 = 0 % 2
    BY DEF SegmentBytes
  <2>3. QED
    BY <1>2, <1>3, <2>1, <2>2, SendSegmentLate
<1>6. QED
  BY <1>4, <1>5

\* A segment is confirmed: the next follows, or the download is done.
LEMMA DownloadSegmentAnsweredLate ==
  ASSUME LateInv, UNCHANGED serverVars, DownloadSegmentAnswered
  PROVE  LateInv'
<1>1. cli \in Clients /\ ClientInStep(cli)
  BY LateParts
<1>2. cli.new /\ cli.state = "DOWNLOAD_SEGMENTED" /\ Sending(cli)
  BY <1>1, WaitingClient DEF DownloadSegmentAnswered, Sending
<1>3. Carries(cli.rx) /\ cli.rx.t = cli.toggle
  BY DEF DownloadSegmentAnswered, SegmentAnswered, Carries
<1>4. cli.toggle \in {0, 1} /\ cli.offset \in Nat /\ cli.len \in Nat
  BY <1>1 DEF Clients
<1>5. CASE AllSent
  <2>1. cli' = [Ended(cli, "success") EXCEPT !.toggle = Flip(cli.toggle)] /\ UNCHANGED wires
    BY <1>5 DEF DownloadSegmentAnswered
  <2>2. PICK s : s = Ended(cli, "success")
    OBVIOUS
  <2>3. s \in Clients /\ s.state = "IDLE" /\ ~s.new
    BY <1>1, <2>2, EndedFacts
  <2>4. cli' = [s EXCEPT !.toggle = Flip(cli.toggle)]
    BY <2>1, <2>2
  <2>5. cli' \in Clients /\ cli'.state = "IDLE" /\ ~cli'.new
    BY <1>4, <2>3, <2>4, FlipType DEF Clients
  <2>6. QED
    BY <1>2, <2>1, <2>5, ClientEndsLate
<1>6. CASE ~AllSent
  <2>1. SendSegment(cli.offset, Flip(cli.toggle)) /\ cli.offset < cli.len
    BY <1>4, <1>6 DEF DownloadSegmentAnswered, AllSent
  <2>2. /\ Index(cli) \in Nat /\ cli.toggle = Index(cli) % 2
        /\ cli.offset = SegmentBytes * (Index(cli) + 1)
    BY <1>1, <1>2, <2>1, LevelType DEF ClientInStep
  <2>3. PICK i \in Nat : i = Index(cli) + 1
    BY <2>2
  <2>4. cli.offset = SegmentBytes * i /\ Flip(cli.toggle) = i % 2
    BY <2>2, <2>3, NextDue
  <2>5. QED
    BY <1>2, <1>3, <1>4, <2>1, <2>3, <2>4, SendSegmentLate
<1>7. QED
  BY <1>5, <1>6

\* Every call of CO_SDOclient_process.
LEMMA ClientLate ==
  ASSUME LateInv, Client
  PROVE  LateInv'
<1>1. ClientStep /\ UNCHANGED serverVars
  BY DEF Client
<1>2. QED
  BY <1>1, ClientStopsLate, RequestDownloadLate, RequestUploadLate, DownloadAnsweredLate,
     DownloadSegmentAnsweredLate, UploadExpeditedAnsweredLate, UploadAnsweredLate,
     UploadSegmentAnsweredLate
  DEF ClientStep

----------------------------------------------------------------------------
(* The bus, the application and the clock.                                   *)

\* A step that adds no frame and leaves both sides where they are.
LEMMA FewerLate ==
  ASSUME LateInv, IndInv', cli' \in Clients, ClientInStep(cli'), ServerInStep(srv'), mem' = mem,
         NEW d \in [Nat -> Nat], NEW e \in [Nat -> Nat], AnswersFrom(d), RequestsFrom(e),
         \A k \in Nat : RequestLives(k)' /\ e[k] = 0 /\ srv.internal => k = 0 /\ srv'.internal,
         srv'.internal => srv.internal /\ srv'.tx = srv.tx,
         ClientIsWhere, ServerIsWhere
  PROVE  LateInv'
<1>1. PICK L \in {-2, -1, 0, 1, 2} : Level(cli) = L /\ L \in Int
  BY LevelType, LateParts
<1>2. Level(cli') = L
  BY <1>1 DEF ClientIsWhere
<1>3. Conversation'
  BY <1>1, <1>2, FewerConversation, LateParts
<1>4. AllData'
  BY FewerData, LateParts
<1>5. QED
  BY <1>3, <1>4, LateParts, LateAfter

\* The frames of a wire once the first one is gone.
LEMMA TailAt ==
  ASSUME NEW w \in Seq(Frame), w # <<>>
  PROVE  /\ Head(w) \in Frame /\ Head(w) = w[1]
         /\ Tail(w) \in Seq(Frame) /\ Len(w) \in Nat /\ Len(Tail(w)) = Len(w) - 1
         /\ \A k \in 1..Len(w) - 1 : Tail(w)[k] = w[k + 1]
<1>1. /\ Head(w) \in Frame /\ Tail(w) \in Seq(Frame) /\ Len(Tail(w)) = Len(w) - 1
      /\ \A k \in 1..Len(Tail(w)) : Tail(w)[k] = w[k + 1]
  BY HeadTailProperties
<1>2. Len(w) \in Nat /\ Head(w) = w[1]
  BY LenProperties
<1>3. QED
  BY <1>1, <1>2

\* Where the frames of one direction were before the first one left the wire:
\* it was lost, or it is in the slot now.
LEMMA OneGone ==
  ASSUME NEW d, d = [k \in Nat |-> IF k = 0 THEN 0 ELSE k + 1] \/ d = [k \in Nat |-> k + 1]
  PROVE  d \in [Nat -> Nat] /\ \A k, l \in Nat : l < k => d[l] < d[k]
<1>1. CASE d = [k \in Nat |-> IF k = 0 THEN 0 ELSE k + 1]
  BY <1>1
<1>2. CASE d = [k \in Nat |-> k + 1]
  BY <1>2
<1>3. QED
  BY <1>1, <1>2

\* A frame arrives at the server.
LEMMA DeliverToServerLate ==
  ASSUME LateInv, DeliverToServer
  PROVE  LateInv'
<1>1. toServer # <<>> /\ srv' = [srv EXCEPT !.rx = Head(toServer), !.new = TRUE]
      /\ toServer' = Tail(toServer) /\ UNCHANGED <<mem, accepted, cli, toClient, losses>>
  BY DEF DeliverToServer, ServerReceive
<1>2. toServer \in Seq(Frame) /\ toClient \in Seq(Frame) /\ srv \in Servers /\ IndInv
  BY LateParts, IndInvParts
<1>3. /\ Head(toServer) \in Frame /\ Head(toServer) = toServer[1] /\ Tail(toServer) \in Seq(Frame)
      /\ Len(toServer) \in Nat /\ Len(Tail(toServer)) = Len(toServer) - 1
      /\ \A k \in 1..Len(toServer) - 1 : Tail(toServer)[k] = toServer[k + 1]
  BY <1>1, <1>2, TailAt
<1>4. /\ srv' \in Servers /\ srv'.rx = Head(toServer) /\ srv'.new /\ srv'.internal = srv.internal
      /\ srv'.state = srv.state /\ srv'.obj = srv.obj /\ srv'.len = srv.len /\ srv'.tx = srv.tx
      /\ srv'.offset = srv.offset /\ srv'.toggle = srv.toggle /\ srv'.fault = srv.fault
  BY <1>1, <1>2, <1>3 DEF Servers
<1>5. IndInv'
  <2>1. InObject(srv')
    BY <1>2, <1>4 DEF IndInv, InObject
  <2>2. mem' = mem /\ accepted' = accepted /\ toServer' \in Seq(Frame) /\ toClient' \in Seq(Frame)
    BY <1>1, <1>2, <1>3
  <2>3. QED
    BY <1>2, <1>4, <2>1, <2>2 DEF IndInv, AnyTypeOK, ServerTypeOK, Memory
<1>6. ServerInStep(srv') /\ ServerIsWhere
  <2>1. ServerInStep(srv)
    BY LateParts
  <2>2. Taking(srv') => Taking(srv)
    BY <1>4 DEF Taking
  <2>3. Due(srv') = Due(srv)
    BY <1>4 DEF Due
  <2>4. QED
    BY <1>4, <2>1, <2>2, <2>3 DEF ServerInStep, ServerIsWhere
<1>7. PICK d : d = [k \in Nat |-> k]
  OBVIOUS
<1>8. PICK e : e = [k \in Nat |-> k + 1]
  OBVIOUS
<1>9. d \in [Nat -> Nat] /\ AnswersFrom(d)
  BY <1>1, <1>7, AnswersStay
<1>10. e \in [Nat -> Nat] /\ RequestsFrom(e) /\ \A k \in Nat : e[k] # 0
  <2>1. e \in [Nat -> Nat] /\ \A k, l \in Nat : l < k => e[l] < e[k]
    BY <1>8, OneGone
  <2>2. ASSUME NEW k \in Nat, RequestLives(k)'
        PROVE  RequestLives(e[k]) /\ RequestAt(k)' = RequestAt(e[k])
    <3>1. k \in 0..Len(toServer) - 1 /\ e[k] = k + 1 /\ e[k] \in 0..Len(toServer) /\ e[k] # 0
      BY <1>1, <1>3, <1>8, <2>2 DEF RequestLives
    <3>2. RequestAt(k)' = toServer[k + 1]
      <4>1. CASE k = 0
        BY <1>3, <1>4, <4>1 DEF RequestAt
      <4>2. CASE k # 0
        <5>1. k \in 1..Len(toServer) - 1
          BY <1>3, <3>1, <4>2
        <5>2. RequestAt(k)' = Tail(toServer)[k]
          BY <1>1, <4>2 DEF RequestAt
        <5>3. QED
          BY <1>3, <5>1, <5>2
      <4>3. QED
        BY <4>1, <4>2
    <3>3. RequestAt(e[k]) = toServer[k + 1]
      BY <3>1 DEF RequestAt
    <3>4. RequestAt(k)'.cs # "ABORT"
      BY <2>2 DEF RequestLives
    <3>5. QED
      BY <3>1, <3>2, <3>3, <3>4 DEF RequestLives
  <2>3. QED
    BY <1>8, <2>1, <2>2 DEF RequestsFrom
<1>11. ClientIsWhere /\ cli' \in Clients /\ ClientInStep(cli')
  BY <1>1, LateParts DEF ClientIsWhere
<1>12. QED
  BY <1>1, <1>4, <1>5, <1>6, <1>9, <1>10, <1>11, FewerLate

\* A frame arrives at the client; an idle client does not take it.
LEMMA DeliverToClientLate ==
  ASSUME LateInv, DeliverToClient
  PROVE  LateInv'
<1>1. toClient # <<>> /\ ClientReceive(Head(toClient))
      /\ toClient' = Tail(toClient) /\ UNCHANGED <<serverVars, toServer, losses>>
  BY DEF DeliverToClient
<1>2. /\ toServer \in Seq(Frame) /\ toClient \in Seq(Frame) /\ cli \in Clients /\ IndInv
      /\ ClientInStep(cli)
  BY LateParts, IndInvParts
<1>3. /\ Head(toClient) \in Frame /\ Head(toClient) = toClient[1] /\ Tail(toClient) \in Seq(Frame)
      /\ Len(toClient) \in Nat /\ Len(Tail(toClient)) = Len(toClient) - 1
      /\ \A k \in 1..Len(toClient) - 1 : Tail(toClient)[k] = toClient[k + 1]
  BY <1>1, <1>2, TailAt
<1>4. IndInv' /\ srv' = srv /\ mem' = mem
  BY <1>1, <1>2, <1>3, ServerStays DEF serverVars
<1>5. /\ cli' \in Clients /\ ClientInStep(cli') /\ ClientIsWhere
      /\ cli'.new => cli'.rx = Head(toClient)
  <2>1. CASE cli.state = "IDLE"
    <3>1. cli' = cli
      BY <1>1, <2>1 DEF ClientReceive
    <3>2. ~cli.new
      BY <1>2, <2>1 DEF ClientInStep
    <3>3. QED
      BY <1>2, <3>1, <3>2 DEF ClientIsWhere
  <2>2. CASE cli.state # "IDLE"
    <3>1. cli' = [cli EXCEPT !.rx = Head(toClient), !.new = TRUE]
      BY <1>1, <2>2 DEF ClientReceive
    <3>2. /\ cli' \in Clients /\ cli'.rx = Head(toClient) /\ cli'.new
          /\ cli'.state = cli.state /\ cli'.size = cli.size /\ cli'.internal = cli.internal
          /\ cli'.len = cli.len /\ cli'.buf = cli.buf /\ cli'.offset = cli.offset
          /\ cli'.toggle = cli.toggle
      BY <1>2, <1>3, <3>1 DEF Clients
    <3>3. /\ Idle(cli') <=> Idle(cli)
          /\ Sending(cli') <=> Sending(cli)
          /\ Index(cli') = Index(cli)
      BY <3>2 DEF Idle, Sending, Index
    <3>4. ClientInStep(cli')
      BY <1>2, <2>2, <3>2, <3>3 DEF ClientInStep
    <3>5. ClientIsWhere
      BY <3>2, <3>3 DEF ClientIsWhere, Level
    <3>6. QED
      BY <3>2, <3>4, <3>5
  <2>3. QED
    BY <2>1, <2>2
<1>6. PICK d : d = [k \in Nat |-> k + 1]
  OBVIOUS
<1>7. PICK e : e = [k \in Nat |-> k]
  OBVIOUS
<1>8. e \in [Nat -> Nat] /\ RequestsFrom(e)
  BY <1>1, <1>4, <1>7, RequestsStay
<1>9. d \in [Nat -> Nat] /\ AnswersFrom(d)
  <2>1. d \in [Nat -> Nat] /\ \A k, l \in Nat : l < k => d[l] < d[k]
    BY <1>6, OneGone
  <2>2. ASSUME NEW k \in Nat, AnswerLives(k)'
        PROVE  AnswerLives(d[k]) /\ AnswerAt(k)' = AnswerAt(d[k])
    <3>1. k \in 0..Len(toClient) - 1 /\ d[k] = k + 1 /\ d[k] \in 0..Len(toClient) /\ d[k] # 0
      BY <1>1, <1>3, <1>6, <2>2 DEF AnswerLives
    <3>2. AnswerAt(k)' = toClient[k + 1]
      <4>1. CASE k = 0
        BY <1>3, <1>5, <2>2, <4>1 DEF AnswerAt, AnswerLives
      <4>2. CASE k # 0
        <5>1. k \in 1..Len(toClient) - 1
          BY <1>3, <3>1, <4>2
        <5>2. AnswerAt(k)' = Tail(toClient)[k]
          BY <1>1, <4>2 DEF AnswerAt
        <5>3. QED
          BY <1>3, <5>1, <5>2
      <4>3. QED
        BY <4>1, <4>2
    <3>3. QED
      BY <3>1, <3>2 DEF AnswerLives, AnswerAt
  <2>3. QED
    BY <2>1, <2>2 DEF AnswersFrom
<1>10. \A k \in Nat : RequestLives(k)' /\ e[k] = 0 /\ srv.internal => k = 0 /\ srv'.internal
  BY <1>4, <1>7
<1>11. ServerInStep(srv') /\ ServerIsWhere
  BY <1>4, LateParts DEF ServerIsWhere
<1>12. QED
  BY <1>4, <1>5, <1>8, <1>9, <1>10, <1>11, FewerLate

\* A frame is lost.
LEMMA LoseLate ==
  ASSUME LateInv, Lose
  PROVE  LateInv'
<1>1. /\ srv' = srv /\ mem' = mem /\ cli' = cli /\ UNCHANGED serverVars
      /\ \/ toServer # <<>> /\ toServer' = Tail(toServer) /\ toClient' = toClient
         \/ toClient # <<>> /\ toClient' = Tail(toClient) /\ toServer' = toServer
  BY DEF Lose, serverVars
<1>2. toServer \in Seq(Frame) /\ toClient \in Seq(Frame) /\ IndInv
  BY LateParts, IndInvParts
<1>3. IndInv'
  <2>1. toServer' \in Seq(Frame) /\ toClient' \in Seq(Frame)
    BY <1>1, <1>2, TailAt
  <2>2. QED
    BY <1>1, <1>2, <2>1, ServerStays
<1>4. PICK i : i = [k \in Nat |-> k]
  OBVIOUS
<1>5. PICK g : g = [k \in Nat |-> IF k = 0 THEN 0 ELSE k + 1]
  OBVIOUS
<1>6. g \in [Nat -> Nat] /\ \A k, l \in Nat : l < k => g[l] < g[k]
  BY <1>5, OneGone
<1>7. \A k \in Nat : (i[k] = 0 \/ g[k] = 0) => k = 0
  BY <1>4, <1>5
<1>8. /\ ServerInStep(srv') /\ ServerIsWhere /\ ClientIsWhere /\ cli' \in Clients
      /\ ClientInStep(cli')
  BY <1>1, LateParts DEF ServerIsWhere, ClientIsWhere
<1>9. CASE toServer # <<>> /\ toServer' = Tail(toServer) /\ toClient' = toClient
  <2>1. /\ Len(toServer) \in Nat /\ Len(Tail(toServer)) = Len(toServer) - 1
        /\ \A k \in 1..Len(toServer) - 1 : Tail(toServer)[k] = toServer[k + 1]
    BY <1>2, <1>9, TailAt
  <2>2. ASSUME NEW k \in Nat, RequestLives(k)'
        PROVE  RequestLives(g[k]) /\ RequestAt(k)' = RequestAt(g[k])
    <3>1. k \in 0..Len(toServer) - 1 /\ (k = 0 => srv.new) /\ RequestAt(k)'.cs # "ABORT"
      BY <1>1, <1>9, <2>1, <2>2 DEF RequestLives
    <3>2. CASE k = 0
      <4>1. g[k] = 0 /\ RequestAt(k)' = srv.rx /\ RequestAt(g[k]) = srv.rx
        BY <1>1, <1>5, <3>2 DEF RequestAt
      <4>2. QED
        BY <2>1, <3>1, <3>2, <4>1 DEF RequestLives
    <3>3. CASE k # 0
      <4>1. g[k] = k + 1 /\ g[k] # 0 /\ g[k] \in 0..Len(toServer) /\ k \in 1..Len(toServer) - 1
        BY <1>5, <2>1, <3>1, <3>3
      <4>2. RequestAt(k)' = Tail(toServer)[k] /\ RequestAt(g[k]) = toServer[k + 1]
        BY <1>9, <3>3, <4>1 DEF RequestAt
      <4>3. QED
        BY <2>1, <3>1, <4>1, <4>2 DEF RequestLives
    <3>4. QED
      BY <3>2, <3>3
  <2>3. RequestsFrom(g)
    BY <1>6, <2>2 DEF RequestsFrom
  <2>4. i \in [Nat -> Nat] /\ AnswersFrom(i)
    BY <1>1, <1>4, <1>9, AnswersStay
  <2>5. QED
    BY <1>1, <1>3, <1>6, <1>7, <1>8, <2>3, <2>4, FewerLate
<1>10. CASE toClient # <<>> /\ toClient' = Tail(toClient) /\ toServer' = toServer
  <2>1. /\ Len(toClient) \in Nat /\ Len(Tail(toClient)) = Len(toClient) - 1
        /\ \A k \in 1..Len(toClient) - 1 : Tail(toClient)[k] = toClient[k + 1]
    BY <1>2, <1>10, TailAt
  <2>2. ASSUME NEW k \in Nat, AnswerLives(k)'
        PROVE  AnswerLives(g[k]) /\ AnswerAt(k)' = AnswerAt(g[k])
    <3>1. k \in 0..Len(toClient) - 1 /\ (k = 0 => cli.new)
      BY <1>1, <1>10, <2>1, <2>2 DEF AnswerLives
    <3>2. CASE k = 0
      BY <1>1, <1>5, <2>1, <3>1, <3>2 DEF AnswerAt, AnswerLives
    <3>3. CASE k # 0
      <4>1. g[k] = k + 1 /\ g[k] # 0 /\ g[k] \in 0..Len(toClient) /\ k \in 1..Len(toClient) - 1
        BY <1>5, <2>1, <3>1, <3>3
      <4>2. AnswerAt(k)' = Tail(toClient)[k] /\ AnswerAt(g[k]) = toClient[k + 1]
        BY <1>10, <3>3, <4>1 DEF AnswerAt
      <4>3. QED
        BY <2>1, <4>1, <4>2 DEF AnswerLives
    <3>4. QED
      BY <3>2, <3>3
  <2>3. AnswersFrom(g)
    BY <1>6, <2>2 DEF AnswersFrom
  <2>4. i \in [Nat -> Nat] /\ RequestsFrom(i)
    BY <1>1, <1>4, <1>10, RequestsStay
  <2>5. QED
    BY <1>1, <1>3, <1>6, <1>7, <1>8, <2>3, <2>4, FewerLate
<1>11. QED
  BY <1>1, <1>9, <1>10

\* The application starts a transfer.
LEMMA RequestLate ==
  ASSUME LateInv, Request
  PROVE  LateInv'
<1>1. PICK up \in BOOLEAN, m \in Muxes : \E n \in ClientLens[m] : Start(up, m, n)
  BY DEF Request
<1>2. PICK n \in ClientLens[m] : Start(up, m, n)
  BY <1>1
<1>3. n \in Nat
  BY ClientAssumption
<1>4. cli \in Clients /\ cli.state = "IDLE" /\ cli.id \in Nat /\ ~cli.new /\ IndInv
  BY <1>2, LateParts DEF Start, Clients, ClientInStep
<1>5. PICK buf : buf = IF up THEN [k \in 1..n |-> Stray] ELSE Payload(cli.id + 1, n)
  OBVIOUS
<1>6. /\ buf \in Seq(Byte) /\ Len(buf) = n
      /\ ~up => \A k \in 1..n : buf[k][2] = k
  <2>1. CASE up
    <3>1. [k \in 1..n |-> Stray] \in Seq(Byte) /\ Len([k \in 1..n |-> Stray]) = n
      BY <1>3, StrayType
    <3>2. QED
      BY <1>5, <2>1, <3>1
  <2>2. CASE ~up
    <3>1. PICK i \in Nat : i = cli.id + 1
      BY <1>4
    <3>2. buf = Payload(i, n)
      BY <1>5, <2>2, <3>1
    <3>3. buf \in Seq(Byte) /\ Len(buf) = n /\ \A k \in 1..n : buf[k] = <<i, k>>
      BY <1>3, <3>2, PayloadType
    <3>4. ASSUME NEW k \in 1..n
          PROVE  buf[k][2] = k
      BY <3>3
    <3>5. QED
      BY <3>3, <3>4
  <2>3. QED
    BY <2>1, <2>2
<1>7. PICK st : st = IF up THEN "UPLOAD_INITIATE_REQ" ELSE "DOWNLOAD_INITIATE_REQ"
  OBVIOUS
<1>8. cli' = [cli EXCEPT !.status = "busy", !.internal = TRUE, !.state = st,
                         !.id = cli.id + 1, !.mux = m, !.upload = up, !.size = n, !.buf = buf]
  BY <1>2, <1>5, <1>7 DEF Start
<1>9. /\ cli' \in Clients /\ ~cli'.new /\ cli'.state = st /\ cli'.size = n /\ cli'.buf = buf
  <2>1. st \in ClientStates /\ cli.id + 1 \in Nat
    BY <1>4, <1>7 DEF ClientStates
  <2>2. QED
    BY <1>3, <1>4, <1>6, <1>8, <2>1 DEF Clients
<1>10. /\ Idle(cli) /\ Idle(cli') /\ ~Sending(cli') /\ ClientIsWhere
  BY <1>4, <1>7, <1>9 DEF Idle, Sending, Level, ClientIsWhere
<1>11. ClientInStep(cli')
  BY <1>6, <1>7, <1>9, <1>10 DEF ClientInStep
<1>12. srv' = srv /\ mem' = mem /\ toServer' = toServer /\ toClient' = toClient
       /\ UNCHANGED serverVars
  BY <1>2 DEF Request, Start, wires, serverVars
<1>13. IndInv'
  BY <1>4, <1>12, ServerStays, IndInvParts
<1>14. PICK d : d = [k \in Nat |-> k]
  OBVIOUS
<1>15. d \in [Nat -> Nat] /\ RequestsFrom(d)
  BY <1>12, <1>14, RequestsStay
<1>16. AnswersFrom(d)
  BY <1>9, <1>12, <1>14 DEF AnswersFrom, AnswerLives, AnswerAt
<1>17. ServerInStep(srv') /\ ServerIsWhere
  BY <1>12, LateParts DEF ServerIsWhere
<1>18. \A k \in Nat : d[k] = 0 => k = 0
  BY <1>14
<1>19. QED
  BY <1>9, <1>10, <1>11, <1>12, <1>13, <1>15, <1>16, <1>17, <1>18, FewerLate

\* The client gives up: no answer is on the bus, but the server may be at work.
LEMMA OverdueLate ==
  ASSUME LateInv, PromptBus, Overdue
  PROVE  LateInv'
<1>1. toServer = <<>> /\ toClient = <<>> /\ cli' = ClientAborted
      /\ UNCHANGED <<serverVars, wires>>
  BY DEF Overdue, ClientTimeout, NothingOnTheBus, wires
<1>2. toServer' = toServer /\ toClient' = toClient /\ srv' = srv /\ mem' = mem
  BY <1>1 DEF wires, serverVars
<1>3. cli' \in Clients /\ ClientInStep(cli') /\ Idle(cli') /\ Level(cli') = -2 /\ ~cli'.new
  BY <1>1, LateParts, ClientAbortedFacts, IdleClient
<1>4. IndInv'
  BY <1>1, <1>2, ServerStays, LateParts, IndInvParts
<1>5. Len(<<>>) = 0
  BY EmptySeq
<1>6. \A k \in Nat : ~AnswerLives(k)'
  BY <1>1, <1>2, <1>3, <1>5 DEF AnswerLives
<1>7. \A k \in Nat : RequestLives(k)' => k = 0
  BY <1>1, <1>2, <1>5 DEF RequestLives
<1>8. RequestsLeft
  BY <1>2 DEF RequestsLeft, RequestLives, RequestAt
<1>9. Conversation'
  BY <1>3, <1>6, <1>7, LastOfConversation
<1>10. AllData'
  BY <1>2, <1>3, <1>6, <1>8, ClientGivesUpData, LateParts
<1>11. QED
  BY <1>2, <1>3, <1>4, <1>9, <1>10, LateParts, LateAfter

\* A step that changes nothing.
LEMMA LateStutter ==
  ASSUME LateInv, UNCHANGED vars
  PROVE  LateInv'
<1>1. /\ srv' = srv /\ mem' = mem /\ accepted' = accepted /\ cli' = cli
      /\ toServer' = toServer /\ toClient' = toClient /\ UNCHANGED serverVars
  BY DEF vars, serverVars, wires
<1>2. IndInv'
  BY <1>1, ServerStays, LateParts, IndInvParts
<1>3. PICK d : d = [k \in Nat |-> k]
  OBVIOUS
<1>4. d \in [Nat -> Nat] /\ AnswersFrom(d) /\ RequestsFrom(d)
  BY <1>1, <1>3, AnswersStay, RequestsStay
<1>5. /\ ServerInStep(srv') /\ ServerIsWhere /\ ClientIsWhere /\ cli' \in Clients
      /\ ClientInStep(cli')
  BY <1>1, LateParts DEF ServerIsWhere, ClientIsWhere
<1>6. \A k \in Nat : d[k] = 0 => k = 0
  BY <1>3
<1>7. QED
  BY <1>1, <1>2, <1>4, <1>5, <1>6, FewerLate

\* Nothing is under way, and the objects hold their first values.
LEMMA LateInit ==
  ASSUME Init
  PROVE  LateInv
<1>1. PairInv
  BY PairInit
<1>2. /\ IndInv /\ cli \in Clients /\ toServer = <<>> /\ toClient = <<>>
      /\ ~srv.new /\ ~srv.internal /\ srv.state = "IDLE"
      /\ cli.state = "IDLE" /\ ~cli.new
  BY <1>1, PairParts DEF Init, ServerInit, ClientInit
<1>3. ClientInStep(cli) /\ Level(cli) = -2 /\ ~Sending(cli)
  BY <1>2, IdleClient
<1>4. ServerInStep(srv) /\ ~Taking(srv)
  BY <1>2, IdleInStep
<1>5. Len(<<>>) = 0
  BY EmptySeq
<1>6. \A k \in Nat : ~AnswerLives(k) /\ ~RequestLives(k) /\ ~Served(k)
  BY <1>2, <1>5 DEF AnswerLives, RequestLives, Served
<1>7. Conversation
  <2>1. PICK ra \in [Nat -> Int] : ra = [k \in Nat |-> 0]
    <3>1. [k \in Nat |-> 0] \in [Nat -> Int]
      OBVIOUS
    <3>2. QED
      BY <3>1
  <2>2. Stamped(-2, 0, 0, 0, ra, ra)
    BY <1>2, <1>6 DEF Stamped, AnswersInTurn, OwedInTurn, RequestsInTurn
  <2>3. QED
    BY <1>3, <2>2 DEF Conversation
<1>8. AllData
  BY <1>3, <1>4, <1>6
  DEF AllData, AllPlaced, AllNear, InOrder, Together, NoLateOpening, NotBeyond,
      AnswerTellsDue, Lockstep
<1>9. AllInPlace(mem)
  <2>1. mem = [b \in Buffers |-> [o \in Objects |-> Payload(0, ObjLen[o])]]
    BY DEF Init, ServerInit
  <2>2. ASSUME NEW o \in Objects
        PROVE  InPlace(Payload(0, ObjLen[o]))
    <3>1. ObjLen[o] \in Nat
      BY ObjLenType
    <3>2. \A k \in 1..ObjLen[o] : Payload(0, ObjLen[o])[k] = <<0, k>>
      BY <3>1, PayloadType
    <3>3. DOMAIN Payload(0, ObjLen[o]) = 1..ObjLen[o]
      BY DEF Payload
    <3>4. ASSUME NEW k \in 1..ObjLen[o]
          PROVE  Payload(0, ObjLen[o])[k][2] = k
      BY <3>2
    <3>5. QED
      BY <3>3, <3>4 DEF InPlace
  <2>3. QED
    BY <2>1, <2>2 DEF AllInPlace
<1>10. QED
  BY <1>2, <1>3, <1>4, <1>7, <1>8, <1>9, LateParts, IndInvParts

\* The invariant is inductive.
LEMMA LateStep ==
  ASSUME LateInv, PromptBus, [Next]_vars
  PROVE  LateInv'
<1>1. CASE Server
  BY <1>1, ServerLate
<1>2. CASE UNCHANGED vars
  BY <1>2, LateStutter
<1>3. QED
  BY <1>1, <1>2, RequestLate, ClientLate, OverdueLate, DeliverToServerLate,
     DeliverToClientLate, LoseLate
  DEF Next

\* On a prompt bus, and with a client that may give up while the server is still at
\* work, so that an answer to an earlier transfer is taken for one to the next: a
\* byte of a download is never stored at another place than its own, in the object
\* or in its buffers, whatever frames are lost.
THEOREM BytesHold ==
  ASSUME PromptBus
  PROVE  Spec => []BytesInPlace
<1>1. Init => LateInv
  BY LateInit
<1>2. LateInv /\ [Next]_vars => LateInv'
  BY LateStep
<1>3. LateInv => BytesInPlace
  BY DEF LateInv
<1>4. QED
  BY <1>1, <1>2, <1>3, PTL DEF Spec
=============================================================================
