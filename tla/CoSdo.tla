------------------------------- MODULE CoSdo -------------------------------
(***************************************************************************)
(* An SDO client and an SDO server on a CAN bus.  Frames of one direction  *)
(* stay in order; they may be lost.  A frame that arrives while the        *)
(* receiver handles the previous one (between its answer and the           *)
(* `is_new = 0' that ends the call) is lost too, and so covered by Lose.   *)
(***************************************************************************)
EXTENDS CoSdoServer, CoSdoClient

CONSTANTS
  MaxLosses,    \* bound: frames lost
  PromptBus,    \* the client's timeout is longer than a frame is on the bus
  Patient       \* the client's timeout is longer than any answer takes: it
                \* runs out only once nothing of the transfer is under way

ASSUME LinkAssumption ==
  /\ MaxLosses \in Nat
  /\ PromptBus \in BOOLEAN /\ Patient \in BOOLEAN

VARIABLE losses

vars == <<serverVars, cli, wires, losses>>

Init ==
  /\ ServerInit /\ ClientInit
  /\ toServer = <<>> /\ toClient = <<>>
  /\ losses = 0

\* The application starts a transfer.
Request ==
  /\ \E upload \in BOOLEAN, m \in Muxes : \E n \in ClientLens[m] : Start(upload, m, n)
  /\ UNCHANGED <<serverVars, losses>>

Client == ClientStep /\ UNCHANGED <<serverVars, losses>>

NothingOnTheBus == wires = <<<<>>, <<>>>>

NothingUnderWay ==
  /\ NothingOnTheBus
  /\ ~srv.new /\ ~srv.internal /\ ~cli.new

Overdue ==
  /\ PromptBus => NothingOnTheBus
  /\ Patient => NothingUnderWay
  /\ ClientTimeout
  /\ UNCHANGED <<serverVars, losses>>

Server == ServerProcess /\ UNCHANGED <<cli, losses>>

DeliverToServer ==
  /\ toServer # <<>>
  /\ ServerReceive(Head(toServer))
  /\ toServer' = Tail(toServer)
  /\ UNCHANGED <<mem, accepted, cli, toClient, losses>>

DeliverToClient ==
  /\ toClient # <<>>
  /\ ClientReceive(Head(toClient))
  /\ toClient' = Tail(toClient)
  /\ UNCHANGED <<serverVars, toServer, losses>>

Lose ==
  /\ losses < MaxLosses
  /\ losses' = losses + 1
  /\ \/ toServer # <<>> /\ toServer' = Tail(toServer) /\ UNCHANGED toClient
     \/ toClient # <<>> /\ toClient' = Tail(toClient) /\ UNCHANGED toServer
  /\ UNCHANGED <<serverVars, cli>>

Next ==
  \/ Request \/ Client \/ Overdue \/ Server
  \/ DeliverToServer \/ DeliverToClient \/ Lose

Spec == Init /\ [][Next]_vars

\* Both main loops call CO_process for ever, time passes for both, and the bus
\* delivers.  The extension's answer is not part of it: it may stay pending.
FairSpec ==
  /\ Spec
  /\ WF_vars(Client) /\ WF_vars(Overdue)
  /\ WF_vars(ServerStep /\ UNCHANGED <<cli, losses>>)
  /\ WF_vars(ServerTimeout /\ UNCHANGED <<cli, losses>>)
  /\ WF_vars(DeliverToServer) /\ WF_vars(DeliverToClient)

----------------------------------------------------------------------------
(* Properties.                                                              *)

TypeOK ==
  /\ ServerTypeOK /\ ClientTypeOK
  /\ toServer \in Seq(Frame) /\ toClient \in Seq(Frame)
  /\ losses \in Nat

\* The object a download succeeds for has received all its bytes, in place and
\* from this transfer, before the client reports CO_SDO_RT_success.
DownloadSuccessIsStored ==
  cli.status = "success" /\ ~cli.upload =>
    [obj |-> cli.mux, data |-> Payload(cli.id, cli.size)] \in accepted

\* What the server confirms is one transfer's data from its first byte to its
\* last, never a mixture of two and never with a segment missing or twice.
AcceptedIsOneTransfer ==
  \A a \in accepted : \E i \in 1..cli.id : a.data = Payload(i, Len(a.data))

\* A client that gives up before the server has answered, on a bus that is
\* prompt: however late the server's answer is taken for that of a newer
\* transfer, the data a frame carries are never stored at another place than
\* their own.  The two sides may disagree about the transfer and its length, but
\* not by two segments, which is what the toggle bit cannot see.  Nothing is said
\* of the bytes behind the data of a frame: a server that expects more than the
\* frame carries stores the rest of the client's transmit buffer, Stray here.
BytesInPlace ==
  \A b \in Buffers, o \in Objects :
    \A k \in DOMAIN mem[b][o] : mem[b][o][k] = Stray \/ mem[b][o][k][2] = k

\* A finished upload has read the object as it is, whole.
UploadSuccessIsCurrent ==
  cli.status = "success" /\ cli.upload =>
    /\ cli.len = ObjLen[cli.mux]
    /\ SubSeq(cli.buf, 1, cli.len) = mem["data"][cli.mux]

\* A success is true: what the client reports as stored, what the server
\* confirms and what the client reports as read are each one whole transfer.
SuccessIsTrue ==
  TypeOK /\ DownloadSuccessIsStored /\ AcceptedIsOneTransfer /\ UploadSuccessIsCurrent

\* Each side has one slot for a received frame.  A frame never arrives while
\* the previous one has not been handled, so that none is overwritten.
SlotIsFree ==
  /\ toServer # <<>> => ~srv.new /\ Len(toServer) = 1
  /\ toClient # <<>> => ~cli.new /\ Len(toClient) = 1

\* Every transfer ends, whatever is lost.
TransferEnds == cli.state # "IDLE" ~> cli.state = "IDLE"

\* A server left in the middle of a transfer becomes free again.
ServerBecomesFree == srv.state # "IDLE" ~> srv.state = "IDLE"

\* Neither side of a transfer is held for ever, whatever is lost.
BothBecomeFree == TransferEnds /\ ServerBecomesFree

\* The pair implements the atomic transfer.
Taken == \E a \in accepted : a.data # <<>> /\ a.data[1][1] = cli.id

Operation ==
  [id     |-> cli.id,
   status |-> cli.status,
   upload |-> cli.upload,
   done   |-> ~cli.upload /\ Taken,
   got    |-> IF cli.upload /\ cli.status = "success" THEN cli.buf ELSE <<>>]

Abstract == INSTANCE SdoTransfer WITH stored <- mem["data"], op <- Operation

ImplementsTransfer == Abstract!Spec
=============================================================================
