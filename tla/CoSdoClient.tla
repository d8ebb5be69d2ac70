---------------------------- MODULE CoSdoClient ----------------------------
(***************************************************************************)
(* The SDO client (libs/canopen/CO_SDOclient.c): one action per way a call *)
(* of CO_SDOclient_process can go, and the two entry points that start a   *)
(* transfer.  Transfers are numbered; the data of download i are           *)
(* Payload(i, n).                                                          *)
(***************************************************************************)
EXTENDS CoSdoFrames

CONSTANTS
  ClientLens,      \* lengths the application may give for an object
  MaxTransfers     \* bound: transfers started

ASSUME ClientAssumption ==
  /\ ClientLens \in [Muxes -> SUBSET Nat]
  /\ \A m \in Muxes : \A n \in ClientLens[m] : n < 65536    \* a uint16_t
  /\ MaxTransfers \in Nat

VARIABLE cli        \* the CO_SDO of the client

ClientStates == {"IDLE", "DOWNLOAD_INITIATE_REQ", "DOWNLOAD_INITIATE_RSP",
                 "DOWNLOAD_SEGMENTED", "UPLOAD_INITIATE_REQ",
                 "UPLOAD_INITIATE_RSP", "UPLOAD_SEGMENTED"}

Clients ==
  [state : ClientStates, status : {"idle", "busy", "success", "abort"},
   rx : Frame, new : BOOLEAN, timer : BOOLEAN, internal : BOOLEAN,
   offset : Nat, len : Nat, toggle : {0, 1},
   id : Nat, mux : Muxes,          \* the transfer: number and object,
   upload : BOOLEAN,               \* direction,
   size : Nat, buf : Seq(Byte)]    \* and p_sub_obj: its len and p_data

ClientTypeOK == cli \in Clients

ClientInit ==
  cli \in [state : {"IDLE"}, status : {"idle"},
           rx : {AbortFrame}, new : {FALSE}, timer : {FALSE}, internal : {FALSE},
           offset : {0}, len : {0}, toggle : {0},
           id : {0}, mux : {Unknown}, upload : {FALSE}, size : {0}, buf : {<<>>}]

----------------------------------------------------------------------------
\* CO_SDOclient_start_download / _start_upload; callers start a transfer only
\* when the client is free.
Start(upload, m, n) ==
  /\ cli.state = "IDLE" /\ cli.id < MaxTransfers
  /\ n \in ClientLens[m]
  /\ cli' = [cli EXCEPT
       !.status = "busy", !.internal = TRUE,
       !.state = IF upload THEN "UPLOAD_INITIATE_REQ" ELSE "DOWNLOAD_INITIATE_REQ",
       !.id = @ + 1, !.mux = m, !.upload = upload, !.size = n,
       !.buf = IF upload THEN [k \in 1..n |-> Stray] ELSE Payload(cli.id + 1, n)]
  /\ UNCHANGED wires

ClientSend(f) == toServer' = Append(toServer, f) /\ UNCHANGED toClient

\* A call that ends the transfer with status st.
Ended(s, st) == [s EXCEPT !.state = "IDLE", !.status = st, !.new = FALSE,
                          !.timer = FALSE]

\* CO_SDO_abort.
ClientAborted == [Ended(cli, "abort") EXCEPT !.internal = FALSE]

\* CO_SDO_abort_and_response.
ClientRefuse == cli' = ClientAborted /\ ClientSend(AbortFrame)

\* Mutation: waiting for an answer is not limited in time.
MutAwait(s, f) ==
  /\ cli' = [s EXCEPT !.status = "busy", !.new = FALSE, !.timer = FALSE]
  /\ ClientSend(f)

\* A call that sends f and waits for the answer.
Await(s, f) ==
  /\ cli' = [s EXCEPT !.status = "busy", !.new = FALSE, !.timer = TRUE]
  /\ ClientSend(f)

\* The switch reaches the handler of this state.
ClientAt(state) ==
  /\ cli.state = state
  /\ cli.new \/ cli.internal
  /\ ~(cli.new /\ cli.rx.cs = "ABORT")

----------------------------------------------------------------------------
(* CO_SDOclient_process.                                                    *)

\* The answer is overdue: silent abort, the server is not told.
ClientTimeout ==
  /\ cli.state # "IDLE" /\ cli.timer
  /\ cli' = ClientAborted
  /\ UNCHANGED wires

ServerAbort ==
  /\ cli.state # "IDLE" /\ cli.new /\ cli.rx.cs = "ABORT"
  /\ cli' = Ended(cli, "abort")
  /\ UNCHANGED wires

\* The request handlers send whatever frame may have arrived before.
RequestDownload ==
  /\ ClientAt("DOWNLOAD_INITIATE_REQ")
  /\ LET e == cli.size <= ExpeditedBytes
     IN Await([cli EXCEPT !.state = "DOWNLOAD_INITIATE_RSP", !.internal = FALSE,
                          !.toggle = 0, !.offset = 0, !.len = cli.size],
              [Plain("DOWNLOAD_INITIATE") EXCEPT
                 !.mux = cli.mux, !.e = e, !.s = TRUE,
                 !.size = IF e THEN Announced(cli.size) ELSE cli.size,
                 !.data = IF e THEN cli.buf ELSE <<>>])

RequestUpload ==
  /\ ClientAt("UPLOAD_INITIATE_REQ")
  /\ Await([cli EXCEPT !.state = "UPLOAD_INITIATE_RSP", !.internal = FALSE,
                       !.toggle = 0, !.offset = 0],
           [Plain("UPLOAD_INITIATE") EXCEPT !.mux = cli.mux])

SegmentSize(off) == Smaller(cli.len - off, SegmentBytes)

\* Mutation: the offset is left out of p_src.
MutNextBytes(off) == Slice(cli.buf, 0, SegmentSize(off))

\* The bytes of the object from off on that the next segment carries.
NextBytes(off) == Slice(cli.buf, off, SegmentSize(off))

\* The next segment of a download that starts at offset off.
SendSegment(off, t) ==
  Await([cli EXCEPT !.state = "DOWNLOAD_SEGMENTED", !.toggle = t,
                    !.offset = off + SegmentSize(off)],
        [Plain("DOWNLOAD_SEGMENT") EXCEPT
           !.t = t, !.c = (cli.len <= off + SegmentBytes), !.data = NextBytes(off)])

\* Wrong command or another object: abort the transfer.
InitiateAnswered(cs) == cli.rx.cs = cs /\ cli.rx.mux = cli.mux

DownloadAnswerRefused ==
  /\ ClientAt("DOWNLOAD_INITIATE_RSP")
  /\ ~InitiateAnswered("DOWNLOAD_INITIATE")
  /\ ClientRefuse

DownloadAnswered ==
  /\ ClientAt("DOWNLOAD_INITIATE_RSP")
  /\ InitiateAnswered("DOWNLOAD_INITIATE")
  /\ IF cli.len <= ExpeditedBytes
     THEN cli' = Ended(cli, "success") /\ UNCHANGED wires
     ELSE SendSegment(0, cli.toggle)

SegmentAnswered(cs) == cli.rx.cs = cs /\ cli.rx.t = cli.toggle

DownloadSegmentAnswerRefused ==
  /\ ClientAt("DOWNLOAD_SEGMENTED")
  /\ ~SegmentAnswered("DOWNLOAD_SEGMENT")
  /\ ClientRefuse

\* Mutation: the end is seen one segment early.
MutAllSent == cli.len <= cli.offset + SegmentBytes

AllSent == cli.len <= cli.offset

DownloadSegmentAnswered ==
  /\ ClientAt("DOWNLOAD_SEGMENTED")
  /\ SegmentAnswered("DOWNLOAD_SEGMENT")
  /\ IF AllSent
     THEN /\ cli' = [Ended(cli, "success") EXCEPT !.toggle = Flip(cli.toggle)]
          /\ UNCHANGED wires
     ELSE SendSegment(cli.offset, Flip(cli.toggle))

UploadAnswerRefused ==
  /\ ClientAt("UPLOAD_INITIATE_RSP")
  /\ \/ ~InitiateAnswered("UPLOAD_INITIATE")
     \/ cli.rx.s /\ ~cli.rx.e /\ TransLen(cli.rx.size) > cli.size
     \/ ~cli.rx.s
  /\ ClientRefuse

\* An expedited answer that is too long ends the transfer without a frame.
UploadExpeditedTooLong ==
  /\ ClientAt("UPLOAD_INITIATE_RSP")
  /\ InitiateAnswered("UPLOAD_INITIATE")
  /\ cli.rx.e /\ cli.rx.s /\ cli.rx.size > cli.size
  /\ cli' = ClientAborted
  /\ UNCHANGED wires

UploadExpeditedAnswered ==
  /\ ClientAt("UPLOAD_INITIATE_RSP")
  /\ InitiateAnswered("UPLOAD_INITIATE")
  /\ cli.rx.e /\ cli.rx.s /\ cli.rx.size <= cli.size
  /\ cli' = [Ended(cli, "success") EXCEPT
               !.len = cli.rx.size, !.offset = cli.rx.size,
               !.buf = Copy(@, 0, cli.rx.data, cli.rx.size)]
  /\ UNCHANGED wires

UploadAnswered ==
  /\ ClientAt("UPLOAD_INITIATE_RSP")
  /\ InitiateAnswered("UPLOAD_INITIATE")
  /\ cli.rx.s /\ ~cli.rx.e /\ TransLen(cli.rx.size) <= cli.size
  /\ Await([cli EXCEPT !.state = "UPLOAD_SEGMENTED", !.offset = 0,
                       !.len = TransLen(cli.rx.size)],
           Plain("UPLOAD_SEGMENT"))

LastToCome == cli.len <= cli.offset + SegmentBytes

UploadSegmentAnswerRefused ==
  /\ ClientAt("UPLOAD_SEGMENTED")
  /\ ~SegmentAnswered("UPLOAD_SEGMENT") \/ cli.rx.c # LastToCome
  /\ ClientRefuse

UploadSegmentAnswered ==
  /\ ClientAt("UPLOAD_SEGMENTED")
  /\ SegmentAnswered("UPLOAD_SEGMENT") /\ cli.rx.c = LastToCome
  /\ LET n == Smaller(cli.len - cli.offset, SegmentBytes)
         s == [cli EXCEPT !.toggle = Flip(@), !.offset = @ + n,
                          !.buf = Copy(@, cli.offset, cli.rx.data, n)]
     IN IF LastToCome
        THEN cli' = Ended(s, "success") /\ UNCHANGED wires
        ELSE Await(s, [Plain("UPLOAD_SEGMENT") EXCEPT !.t = s.toggle])

ClientStep ==
  \/ ServerAbort
  \/ RequestDownload
  \/ RequestUpload
  \/ DownloadAnswerRefused
  \/ DownloadAnswered
  \/ DownloadSegmentAnswerRefused
  \/ DownloadSegmentAnswered
  \/ UploadAnswerRefused
  \/ UploadExpeditedTooLong
  \/ UploadExpeditedAnswered
  \/ UploadAnswered
  \/ UploadSegmentAnswerRefused
  \/ UploadSegmentAnswered

\* CO_can_receive_basic_handle, the client's branch: a client that is idle
\* does not take the frame.
ClientReceive(f) ==
  cli' = IF cli.state = "IDLE" THEN cli ELSE [cli EXCEPT !.rx = f, !.new = TRUE]
=============================================================================
