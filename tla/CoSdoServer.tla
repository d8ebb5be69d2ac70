---------------------------- MODULE CoSdoServer ----------------------------
(***************************************************************************)
(* The SDO server (libs/canopen/CO_SDOserver.c): one action per way a call *)
(* of CO_SDOserver_process can go.  A frame is received into a single slot *)
(* by CO_can_receive_basic_handle (CO.h), which overwrites what is there.  *)
(***************************************************************************)
EXTENDS CoSdoFrames

CONSTANT
  Answers     \* what the confirm_func of the extensions may answer

ASSUME AnswerAssumption ==
  Answers \subseteq {"processing", "abort", "success", "copy_and_success"}

VARIABLES
  srv,        \* the CO_SDO of the server
  mem,        \* the buffers of every sub-object: p_data, p_temp_data, shadow
  accepted    \* history: downloads the server has confirmed

serverVars == <<srv, mem, accepted>>

Buffers == {"data", "temp", "shadow"}

ServerStates == {"IDLE", "DOWNLOAD_INITIATE_RSP", "DOWNLOAD_SEGMENTED",
                 "UPLOAD_INITIATE_RSP", "UPLOAD_SEGMENTED"}
Statuses == {"idle", "busy", "success", "abort"}

Download == [obj : Objects, data : Seq(Byte)]

Servers == [state : ServerStates, status : Statuses,
            rx : Frame, new : BOOLEAN,       \* rx_msg and its is_new
            tx : Frame,                      \* tx_msg as last built
            timer : BOOLEAN,                 \* timeout counter running
            internal : BOOLEAN,              \* is_internal_processing
            obj : Objects, offset : Nat, len : Nat, toggle : {0, 1},
            fault : BOOLEAN]                 \* called through a NULL pointer

ServerTypeOK ==
  /\ srv \in Servers
  /\ mem \in [Buffers -> [Objects -> Seq(Byte)]]
  /\ accepted \subseteq Download

ServerInit ==
  /\ srv = [state |-> "IDLE", status |-> "idle",
            rx |-> AbortFrame, new |-> FALSE, tx |-> AbortFrame,
            timer |-> FALSE, internal |-> FALSE,
            obj |-> CHOOSE o \in Objects : TRUE,   \* p_sub_obj = NULL: unused
            offset |-> 0, len |-> 0, toggle |-> 0, fault |-> FALSE]
  /\ mem = [b \in Buffers |-> [o \in Objects |-> Payload(0, ObjLen[o])]]
  /\ accepted = {}

----------------------------------------------------------------------------
(* Building blocks.                                                         *)

\* p_data_itf: where a download to o is collected.
Itf(o) == IF o \in Ext THEN "shadow" ELSE IF o \in Temp THEN "temp" ELSE "data"

\* CO_SDO_abort: silent.  The status is that of the call that ends.
Aborted(s, st) == [s EXCEPT !.timer = FALSE, !.new = FALSE, !.internal = FALSE,
                            !.state = "IDLE", !.status = st]

ServerSend(f) == toClient' = Append(toClient, f) /\ UNCHANGED toServer

\* CO_SDO_abort_and_response at the end of a handler: the call then finds the
\* state IDLE and reports idle; before the switch it reports abort.
Respond_Abort(s, st) ==
  /\ srv' = [Aborted(s, st) EXCEPT !.tx = AbortFrame]
  /\ ServerSend(AbortFrame)
  /\ UNCHANGED <<mem, accepted>>

\* A handler's end: the slot is freed and an idle server reports idle.
Return(s) == srv' = [s EXCEPT !.new = FALSE,
                              !.status = IF s.state = "IDLE" THEN "idle" ELSE "busy"]

\* Mutation: the timeout of the server is never started.
MutArmed(s) == s

\* CO_SDOtimeout_reset_and_activate.
Armed(s) == [s EXCEPT !.timer = TRUE]

\* CO_SDOserver_process_first_msg_and_set_state accepts the request.
FirstMsgOK(f) ==
  \/ f.cs = "DOWNLOAD_INITIATE" /\ f.mux \in Writable
  \/ f.cs = "UPLOAD_INITIATE" /\ f.mux \in Readable

FirstMsg == srv.new /\ srv.state = "IDLE"

\* The server as the switch on its state finds it.
Entered ==
  LET s == IF srv.new THEN [srv EXCEPT !.timer = FALSE] ELSE srv
  IN IF FirstMsg
     THEN [s EXCEPT !.obj = srv.rx.mux,
                    !.state = IF srv.rx.cs = "DOWNLOAD_INITIATE"
                              THEN "DOWNLOAD_INITIATE_RSP"
                              ELSE "UPLOAD_INITIATE_RSP"]
     ELSE s

Reached(state) ==
  /\ ~srv.fault
  /\ srv.new \/ srv.internal
  /\ ~(srv.new /\ srv.rx.cs = "ABORT")
  /\ FirstMsg => FirstMsgOK(srv.rx)
  /\ Entered.state = state

\* CO_SDOserver_process_init_transfer_msg and the mux of the answer.
Begun(s) == [s EXCEPT !.toggle = 0, !.offset = 0]

\* Mutation: the temporary data never become effective.
MutCommit(m, o) == m

\* A download without extension is complete: p_temp_data becomes effective.
Commit(m, o) ==
  IF o \in Temp \ AfterReset THEN [m EXCEPT !["data"][o] = m["temp"][o]] ELSE m

Confirmed(o, m, n) ==
  accepted' = accepted \cup
    {[obj |-> o, data |-> SubSeq(m[Itf(o)][o], 1, Smaller(n, ObjLen[o]))]}

\* Mutation: the answer does not wait for the extension.
MutCompleted(s, m) ==
  /\ mem' = IF s.obj \in Ext THEN m ELSE Commit(m, s.obj)
  /\ ServerSend(s.tx)
  /\ IF s.obj \in Ext
     THEN Return(Armed([s EXCEPT !.internal = TRUE])) /\ UNCHANGED accepted
     ELSE Return([s EXCEPT !.state = "IDLE"]) /\ Confirmed(s.obj, m, s.len)

\* All n bytes are in the buffer: answer at once, or switch to the extension.
Completed(s, m) ==
  IF s.obj \in Ext
  THEN /\ Return(Armed([s EXCEPT !.internal = TRUE]))
       /\ mem' = m
       /\ UNCHANGED <<accepted, wires>>
  ELSE /\ Return([s EXCEPT !.state = "IDLE"])
       /\ mem' = Commit(m, s.obj)
       /\ Confirmed(s.obj, m, s.len)
       /\ ServerSend(s.tx)

----------------------------------------------------------------------------
(* CO_SDOserver_process.                                                    *)

\* The timeout counter has passed the allowed time: silent abort.
ServerTimeout ==
  /\ ~srv.fault /\ srv.timer
  /\ srv' = Aborted(srv, "abort")
  /\ UNCHANGED <<mem, accepted, wires>>

\* Nothing to do: no frame and no internal processing, or internal processing
\* in a state the switch does not handle.
ServerNothing ==
  /\ ~srv.fault /\ ~srv.new
  /\ srv.internal => srv.state = "IDLE"
  /\ Return(srv)
  /\ UNCHANGED <<mem, accepted, wires>>

\* An abort frame from the client.  is_internal_processing is left as it is.
ClientAbort ==
  /\ ~srv.fault /\ srv.new /\ srv.rx.cs = "ABORT"
  /\ srv' = [srv EXCEPT !.timer = FALSE, !.new = FALSE, !.state = "IDLE",
                        !.status = "abort"]
  /\ UNCHANGED <<mem, accepted, wires>>

\* Unknown command, unknown object or no access right.
RefuseFirstMsg ==
  /\ ~srv.fault /\ FirstMsg /\ srv.rx.cs # "ABORT"
  /\ ~FirstMsgOK(srv.rx)
  /\ Respond_Abort(srv, "abort")

\* Mutation: CO_SDO_CHECK_MATCH_DATA_LENGTH is switched off.
MutFits(f) == TRUE

\* The data fit the object.
Fits(f) == TransLen(f.size) <= ObjLen[Entered.obj]

\* An initiate request the server cannot serve: too long, or no size given.
DownloadInitiateRefused ==
  /\ Reached("DOWNLOAD_INITIATE_RSP") /\ ~srv.internal
  /\ ~srv.rx.s \/ ~Fits(srv.rx)
  /\ Respond_Abort([Begun(Entered) EXCEPT
       !.len = IF srv.rx.s THEN TransLen(srv.rx.size) ELSE @], "idle")

DownloadExpedited ==
  /\ Reached("DOWNLOAD_INITIATE_RSP") /\ ~srv.internal
  /\ srv.rx.e /\ srv.rx.s /\ Fits(srv.rx)
  /\ LET n == srv.rx.size
         s == [Begun(Entered) EXCEPT
                 !.len = n, !.offset = n,
                 !.tx = [Plain("DOWNLOAD_INITIATE") EXCEPT !.mux = srv.rx.mux]]
     IN Completed(s, [mem EXCEPT ![Itf(s.obj)][s.obj] =
                        Copy(mem[Itf(s.obj)][s.obj], 0, srv.rx.data, n)])

DownloadInitiate ==
  /\ Reached("DOWNLOAD_INITIATE_RSP") /\ ~srv.internal
  /\ ~srv.rx.e /\ srv.rx.s /\ Fits(srv.rx)
  /\ LET answer == [Plain("DOWNLOAD_INITIATE") EXCEPT !.mux = srv.rx.mux]
     IN /\ Return(Armed([Begun(Entered) EXCEPT !.len = TransLen(srv.rx.size),
                           !.tx = answer, !.state = "DOWNLOAD_SEGMENTED"]))
        /\ ServerSend(answer)
  /\ UNCHANGED <<mem, accepted>>

\* The next segment ends the transfer, and its length.
LastSegment(s) == s.len <= s.offset + SegmentBytes
SegmentLen(s)  == IF LastSegment(s) THEN s.len - s.offset ELSE SegmentBytes

\* Wrong command, wrong toggle bit, or the end mark where none is due.
DownloadSegmentRefused ==
  /\ Reached("DOWNLOAD_SEGMENTED") /\ ~srv.internal
  /\ \/ srv.rx.cs # "DOWNLOAD_SEGMENT"
     \/ srv.rx.t # srv.toggle
     \/ srv.rx.c # LastSegment(srv)
  /\ Respond_Abort(Entered, "idle")

DownloadSegment ==
  /\ Reached("DOWNLOAD_SEGMENTED") /\ ~srv.internal
  /\ srv.rx.cs = "DOWNLOAD_SEGMENT"
  /\ srv.rx.t = srv.toggle
  /\ srv.rx.c = LastSegment(srv)
  /\ LET n == SegmentLen(srv)
         o == srv.obj
         answer == [Plain("DOWNLOAD_SEGMENT") EXCEPT !.t = srv.toggle]
         s == [Entered EXCEPT !.offset = srv.offset + n, !.tx = answer]
         m == [mem EXCEPT ![Itf(o)][o] =
                 Copy(mem[Itf(o)][o], srv.offset, srv.rx.data, n)]
     IN IF LastSegment(srv)
        THEN Completed(s, m)
        ELSE /\ Return(Armed([s EXCEPT !.toggle = Flip(srv.toggle)]))
             /\ mem' = m
             /\ ServerSend(answer)
             /\ UNCHANGED accepted

\* Internal processing: confirm_func of the object the switch finds is asked
\* again.  A first message that arrives in this mode has opened its own object.
Asked ==
  /\ srv.internal
  /\ Reached("DOWNLOAD_INITIATE_RSP") \/ Reached("DOWNLOAD_SEGMENTED")

Answer(a) == Asked /\ Entered.obj \in Ext /\ a \in Answers

ConfirmPending ==
  /\ Answer("processing")
  /\ Return(Entered)
  /\ UNCHANGED <<mem, accepted, wires>>

ConfirmAbort ==
  /\ Answer("abort")
  /\ Respond_Abort(Entered, "idle")

\* co_sdoserver_copy_shadow_data_to_operating_data, when asked for.
CopyShadow(o) ==
  LET v == mem["shadow"][o]
  IN [mem EXCEPT !["temp"][o] = IF o \in Temp THEN v ELSE @,
                 !["data"][o] = IF o \in Temp \cap AfterReset THEN @ ELSE v]

ConfirmSuccess(a) ==
  /\ Answer(a)
  /\ Return([Entered EXCEPT !.internal = FALSE, !.timer = FALSE, !.state = "IDLE"])
  /\ mem' = IF a = "copy_and_success" THEN CopyShadow(Entered.obj) ELSE mem
  /\ Confirmed(Entered.obj, mem, srv.len)
  /\ ServerSend(srv.tx)

\* p_ext is NULL: the call through it is undefined behaviour, a fault.
ConfirmThroughNull ==
  /\ Asked /\ Entered.obj \notin Ext
  /\ srv' = [Entered EXCEPT !.fault = TRUE]
  /\ UNCHANGED <<mem, accepted, wires>>

UploadExpedited ==
  /\ Reached("UPLOAD_INITIATE_RSP")
  /\ LET o == Entered.obj
         answer == [Plain("UPLOAD_INITIATE") EXCEPT
                      !.mux = srv.rx.mux, !.e = TRUE, !.s = TRUE, !.size = Announced(ObjLen[o]),
                      !.data = mem["data"][o]]
     IN /\ ObjLen[o] <= ExpeditedBytes
        /\ Return([Begun(Entered) EXCEPT !.len = ObjLen[o], !.offset = ObjLen[o],
                     !.tx = answer, !.state = "IDLE"])
        /\ ServerSend(answer)
  /\ UNCHANGED <<mem, accepted>>

UploadInitiate ==
  /\ Reached("UPLOAD_INITIATE_RSP")
  /\ LET o == Entered.obj
         answer == [Plain("UPLOAD_INITIATE") EXCEPT !.mux = srv.rx.mux, !.s = TRUE,
                                                    !.size = ObjLen[o]]
     IN /\ ObjLen[o] > ExpeditedBytes
        /\ Return(Armed([Begun(Entered) EXCEPT !.len = ObjLen[o],
                           !.tx = answer, !.state = "UPLOAD_SEGMENTED"]))
        /\ ServerSend(answer)
  /\ UNCHANGED <<mem, accepted>>

UploadSegmentRefused ==
  /\ Reached("UPLOAD_SEGMENTED")
  /\ srv.rx.cs # "UPLOAD_SEGMENT" \/ srv.rx.t # srv.toggle
  /\ Respond_Abort(Entered, "idle")

\* Mutation: the offset is left out of p_src.
MutOutgoing == Slice(mem["data"][srv.obj], 0, SegmentLen(srv))

\* The bytes of the object that the next answer carries.
Outgoing == Slice(mem["data"][srv.obj], srv.offset, SegmentLen(srv))

UploadSegment ==
  /\ Reached("UPLOAD_SEGMENTED")
  /\ srv.rx.cs = "UPLOAD_SEGMENT" /\ srv.rx.t = srv.toggle
  /\ LET last == LastSegment(srv)
         answer == [Plain("UPLOAD_SEGMENT") EXCEPT !.t = srv.toggle, !.c = last,
                                                   !.data = Outgoing]
         s == [Entered EXCEPT !.offset = srv.offset + SegmentLen(srv), !.tx = answer,
                              !.toggle = Flip(srv.toggle)]
     IN /\ Return(IF last THEN [s EXCEPT !.state = "IDLE"] ELSE Armed(s))
        /\ ServerSend(answer)
  /\ UNCHANGED <<mem, accepted>>

ServerStep ==
  \/ ClientAbort
  \/ RefuseFirstMsg
  \/ DownloadInitiateRefused
  \/ DownloadExpedited
  \/ DownloadInitiate
  \/ DownloadSegmentRefused
  \/ DownloadSegment
  \/ ConfirmPending
  \/ ConfirmAbort
  \/ \E a \in {"success", "copy_and_success"} : ConfirmSuccess(a)
  \/ ConfirmThroughNull
  \/ UploadExpedited
  \/ UploadInitiate
  \/ UploadSegmentRefused
  \/ UploadSegment

ServerProcess == ServerTimeout \/ ServerNothing \/ ServerStep

\* CO_can_receive_basic_handle, the server's branch.
ServerReceive(f) == srv' = [srv EXCEPT !.rx = f, !.new = TRUE]
=============================================================================
