------------------------------ MODULE MqttClient ------------------------------
(* The client of MQTT-C between its application and its socket: the queue of    *)
(* packets that share one buffer, what is packed into it, what an arrived frame *)
(* does to it, and what a round of sending puts on the wire.  Every operator    *)
(* here is a function of the client's state; MqttSession runs them.             *)
EXTENDS MqttPackets, SequencesExt

CONSTANTS BufSize,      \* bytes of the send buffer, shared by packets and their headers
          HeaderSize,   \* sizeof(struct mqtt_queued_message)
          NumIds,       \* length of the cycle of packet identifiers
          Timeout,      \* response_timeout, in ticks
          KeepAlive     \* keep_alive, in ticks

ASSUME ClientAssumption == /\ {BufSize, HeaderSize, Timeout, KeepAlive} \subseteq Nat
                           /\ NumIds \in Nat \ {0}

Ids == 1 .. NumIds

\* A queued message; no id, no message is 0.
QueuedStates == {"UNSENT", "AWAITING_ACK", "COMPLETE"}
Queued(msgs) == [type : ControlTypes, id : Nat, qos : 0 .. 2, dup : BOOLEAN, msg : msgs,
                 size : Nat, st : QueuedStates, age : 0 .. Timeout + 1]

Blank(type, id) == [type |-> type, id |-> id, qos |-> 0, dup |-> FALSE, msg |-> 0]

\* off is 0, or 1 when some bytes of a packet are out and the rest is not; idle is the
\* time since a packet went out whole.  Ages stop counting once they are past their limit.
ClientType(msgs) == [mq : Seq(Queued(msgs)), err : ErrorStates, pid : 0 .. NumIds, off : 0 .. 1,
                     idle : 0 .. KeepAlive + 1, timeouts : Nat]

----------------------------------------------------------------------------
(* The message queue *)

Bytes(mq) == FoldLeft(LAMBDA n, e : n + e.size, 0, mq)

\* Bytes a packet may take, once the header it will need is set aside.
Room(mq) == LET left == BufSize - Bytes(mq) - (Len(mq) + 1) * HeaderSize IN IF left > 0 THEN left ELSE 0

Register(c, p, n) == [c EXCEPT !.mq = Append(@, p @@ [size |-> n, st |-> "UNSENT", age |-> 0])]

MutClean(mq) == LET done == {i \in DOMAIN mq : mq[i].st = "COMPLETE"}
                IN IF done = {} THEN mq ELSE SubSeq(mq, Max(done) + 1, Len(mq))

\* Messages that are complete are taken off the front, up to the first that is not.
Clean(mq) == LET open == {i \in DOMAIN mq : mq[i].st # "COMPLETE"}
             IN IF open = {} THEN <<>> ELSE SubSeq(mq, Min(open), Len(mq))

First(indices) == IF indices = {} THEN 0 ELSE Min(indices)

MutFindId(mq, type, id) == First({i \in DOMAIN mq : mq[i].type = type})

\* With an identifier a message is found whatever its state; without, only while it is open.
FindId(mq, type, id) == First({i \in DOMAIN mq : mq[i].type = type /\ mq[i].id = id})
FindOpen(mq, type) == First({i \in DOMAIN mq : mq[i].type = type /\ mq[i].st # "COMPLETE"})

\* The shift register as a cycle through the identifiers, past those that are in the queue.
NextPid(c) ==
    LET free == Ids \ {c.mq[i].id : i \in DOMAIN c.mq}
        steps(n) == (n - c.pid - 1) % NumIds
    IN CHOOSE n \in free : \A m \in free : steps(n) <= steps(m)

\* The pack call of each kind of message; args is what mqtt_connect was given, or the QoS.
Pack(type, args, room) ==
    CASE type = "CONNECT" -> PackConnect(args, room)
      [] type = "PUBLISH" -> PackPublish(args, room)
      [] type = "SUBSCRIBE" -> PackSubscribe(1, room)
      [] type = "UNSUBSCRIBE" -> PackUnsubscribe(1, room)
      [] type = "PINGREQ" -> PackPing(room)
      [] type = "DISCONNECT" -> PackDisconnect(room)
      [] OTHER -> PackPubxxx(type, room)

\* What became of a try to pack p: an error, p in the queue, or no room and what follows then.
Packed(c, p, r, full) ==
    IF r.err # OK THEN [c EXCEPT !.err = r.err]
    ELSE IF r.n > 0 THEN Register(c, p, r.n)
    ELSE full

\* MQTT_CLIENT_TRY_PACK: nothing in an error state; one more try after cleaning the queue.
TryPack(c, p, args) ==
    LET tidy == [c EXCEPT !.mq = Clean(@)]
    IN IF c.err # OK THEN c
       ELSE Packed(c, p, Pack(p.type, args, Room(c.mq)),
                   Packed(tidy, p, Pack(p.type, args, Room(tidy.mq)),
                          [tidy EXCEPT !.err = "SEND_BUFFER_IS_FULL"]))

----------------------------------------------------------------------------
(* Calls of the application *)

Connect(c, args) == TryPack([c EXCEPT !.err = IF @ = "CONNECT_NOT_CALLED" THEN OK ELSE @],
                            Blank("CONNECT", 0), args)

Publish(c, id, qos, msg) ==
    TryPack([c EXCEPT !.pid = id], [Blank("PUBLISH", id) EXCEPT !.qos = qos % 3, !.msg = msg], qos)

Subscribe(c, id) == TryPack([c EXCEPT !.pid = id], Blank("SUBSCRIBE", id), 0)

Unsubscribe(c, id) == TryPack(c, Blank("UNSUBSCRIBE", id), 0)

Ping(c) == TryPack(c, Blank("PINGREQ", 0), 0)

Disconnect(c) == TryPack(c, Blank("DISCONNECT", 0), 0)

\* The second half of mqtt_reconnect, once mqtt_disconnect has returned MQTT_OK.
Reconnect(c) == [c EXCEPT !.err = "RECONNECTING"]

Reinit(c) == [c EXCEPT !.err = "CONNECT_NOT_CALLED", !.mq = <<>>]

----------------------------------------------------------------------------
(* What an arrived frame does: the client after it, the code __mqtt_recv stops *)
(* with, whether the publish callback ran, and whether the frame was dropped.  *)

Done(c) == [c |-> c, ret |-> c.err, heard |-> FALSE, dropped |-> FALSE]
Fails(c, e) == Done([c EXCEPT !.err = e])
Ends(c) == [Done(c) EXCEPT !.ret = OK]

Complete(c, i) == [c EXCEPT !.mq[i].st = "COMPLETE"]

Reply(c, type, id) == TryPack(c, Blank(type, id), 0)

\* Each acknowledgement completes the request it names.
Acks(c, i) == IF i = 0 THEN Fails(c, "ACK_OF_UNKNOWN") ELSE Ends(Complete(c, i))

OnConnack(c, f) ==
    LET a == Acks(c, FindOpen(c.mq, "CONNECT")) IN
    IF a.ret # OK \/ f.code = ACCEPTED THEN a
    ELSE Fails(a.c, IF f.code = IDENTIFIER_REJECTED THEN "CONNECT_CLIENT_ID_REFUSED" ELSE "CONNECTION_REFUSED")

Qos(f) == (f.flags \div 2) % 4

MutOnPublish(c, f) ==
    IF Qos(f) \notin {1, 2} THEN [Ends(c) EXCEPT !.heard = TRUE]
    ELSE LET d == Reply(c, IF Qos(f) = 1 THEN "PUBACK" ELSE "PUBREC", f.id)
         IN IF d.err # OK THEN Done(d) ELSE [Ends(d) EXCEPT !.heard = TRUE]

OnPublish(c, f) ==
    IF Qos(f) = 2 /\ FindId(c.mq, "PUBREC", f.id) # 0 THEN [Ends(c) EXCEPT !.dropped = TRUE]
    ELSE IF Qos(f) \notin {1, 2} THEN [Ends(c) EXCEPT !.heard = TRUE]
    ELSE LET d == Reply(c, IF Qos(f) = 1 THEN "PUBACK" ELSE "PUBREC", f.id)
         IN IF d.err # OK THEN Done(d) ELSE [Ends(d) EXCEPT !.heard = TRUE]

OnPuback(c, f) == Acks(c, FindId(c.mq, "PUBLISH", f.id))

MutOnPubrec(c, f) ==
    IF FindId(c.mq, "PUBREL", f.id) # 0 THEN Ends(c)
    ELSE IF FindId(c.mq, "PUBLISH", f.id) = 0 THEN Fails(c, "ACK_OF_UNKNOWN")
    ELSE Done(Reply(c, "PUBREL", f.id))

OnPubrec(c, f) ==
    IF FindId(c.mq, "PUBREL", f.id) # 0 THEN Ends(c)
    ELSE LET a == Acks(c, FindId(c.mq, "PUBLISH", f.id))
         IN IF a.ret # OK THEN a ELSE Done(Reply(a.c, "PUBREL", f.id))

OnPubrel(c, f) ==
    LET a == Acks(c, FindId(c.mq, "PUBREC", f.id))
    IN IF a.ret # OK THEN a ELSE Done(Reply(a.c, "PUBCOMP", f.id))

OnPubcomp(c, f) == Acks(c, FindId(c.mq, "PUBREL", f.id))

OnSuback(c, f) ==
    LET a == Acks(c, FindId(c.mq, "SUBSCRIBE", f.id))
    IN IF a.ret = OK /\ f.code = SUBACK_FAILURE THEN Fails(a.c, "SUBSCRIBE_FAILED") ELSE a

OnUnsuback(c, f) == Acks(c, FindId(c.mq, "UNSUBSCRIBE", f.id))

OnPingresp(c, f) == Acks(c, FindOpen(c.mq, "PINGREQ"))

Handle(c, f) ==
    CASE f.type = "CONNACK" -> OnConnack(c, f)
      [] f.type = "PUBLISH" -> OnPublish(c, f)
      [] f.type = "PUBACK" -> OnPuback(c, f)
      [] f.type = "PUBREC" -> OnPubrec(c, f)
      [] f.type = "PUBREL" -> OnPubrel(c, f)
      [] f.type = "PUBCOMP" -> OnPubcomp(c, f)
      [] f.type = "SUBACK" -> OnSuback(c, f)
      [] f.type = "UNSUBACK" -> OnUnsuback(c, f)
      [] f.type = "PINGRESP" -> OnPingresp(c, f)

----------------------------------------------------------------------------
(* A round of sending.  The socket takes `whole` packets and then `part` bytes of *)
(* the next (0, or 1 for some of them).  A line is what the broker has to read:   *)
(* whole packets, the packet whose first bytes are out, and whether bytes of two  *)
(* packets have run into each other.                                              *)

NoPacket == Blank("NONE", 0)
Garbage == Blank("GARBAGE", 0)
FreshLine == [up |-> <<>>, half |-> NoPacket, torn |-> FALSE]

Packet(e) == [type |-> e.type, id |-> e.id, qos |-> e.qos, dup |-> e.dup, msg |-> e.msg]

\* The next bytes of e continue what is on the line.
Joins(line, e, off) == IF off = 0 THEN line.half = NoPacket ELSE line.half = Packet(e)

Tear(line) == [up |-> IF line.torn THEN line.up ELSE Append(line.up, Garbage), half |-> NoPacket, torn |-> TRUE]

PutAll(line, e, off) == IF line.torn \/ ~Joins(line, e, off) THEN Tear(line)
                        ELSE [line EXCEPT !.up = Append(@, Packet(e)), !.half = NoPacket]

PutPart(line, e, off) == IF line.torn \/ ~Joins(line, e, off) THEN Tear(line)
                         ELSE [line EXCEPT !.half = Packet(e)]

MutAfterSend(e) == IF e.type \in {"PUBACK", "PUBCOMP", "DISCONNECT", "PINGREQ"} \/ (e.type = "PUBLISH" /\ e.qos = 0)
                   THEN "COMPLETE" ELSE "AWAITING_ACK"

AfterSend(e) == IF e.type \in {"PUBACK", "PUBCOMP", "DISCONNECT"} \/ (e.type = "PUBLISH" /\ e.qos = 0)
                THEN "COMPLETE" ELSE "AWAITING_ACK"

MutSendWhole(s, i) ==
    LET e == s.c.mq[i] IN
    [s EXCEPT !.whole = @ - 1,
              !.line = PutAll(@, e, s.c.off),
              !.c.idle = 0,
              !.c.mq[i] = [e EXCEPT !.st = AfterSend(e), !.age = 0]]

SendWhole(s, i) ==
    LET e == s.c.mq[i] IN
    [s EXCEPT !.whole = @ - 1,
              !.line = PutAll(@, e, s.c.off),
              !.c.off = 0,
              !.c.idle = 0,
              !.c.mq[i] = [e EXCEPT !.st = AfterSend(e), !.age = 0, !.dup = @ \/ (e.type = "PUBLISH" /\ e.qos = 1)]]

SendPart(s, i) ==
    IF s.part = 0 THEN [s EXCEPT !.more = FALSE]
    ELSE [s EXCEPT !.more = FALSE, !.line = PutPart(@, s.c.mq[i], s.c.off), !.c.off = 1]

MutSendOne(s, i) ==
    LET e == s.c.mq[i]
        late == e.st = "AWAITING_ACK" /\ e.age > Timeout
        double == e.type = "PUBLISH" /\ e.qos = 2
        s1 == [s EXCEPT !.c.off = IF late THEN 0 ELSE @, !.c.timeouts = @ + (IF late THEN 1 ELSE 0),
                        !.qos2 = @ \/ double, !.held = @ \/ (double /\ s.qos2)]
    IN IF ~s.more THEN s
       ELSE IF (e.st # "UNSENT" /\ ~late) \/ (double /\ s.qos2) THEN s1
       ELSE IF s.whole > 0 THEN SendWhole(s1, i) ELSE SendPart(s1, i)

\* A message goes out when it never did, or when its answer is late; then it starts again
\* from its first byte.  A second QoS 2 publish waits until the first one is received.
SendOne(s, i) ==
    LET e == s.c.mq[i]
        late == e.st = "AWAITING_ACK" /\ e.age > Timeout
        double == e.type = "PUBLISH" /\ e.qos = 2 /\ e.st # "COMPLETE"
        s1 == [s EXCEPT !.c.off = IF late THEN 0 ELSE @, !.c.timeouts = @ + (IF late THEN 1 ELSE 0),
                        !.qos2 = @ \/ double, !.held = @ \/ (double /\ s.qos2)]
    IN IF ~s.more THEN s
       ELSE IF (e.st # "UNSENT" /\ ~late) \/ (double /\ s.qos2) THEN s1
       ELSE IF s.whole > 0 THEN SendWhole(s1, i) ELSE SendPart(s1, i)

SendLoop(c, line, whole, part) ==
    FoldLeft(SendOne, [c |-> c, line |-> line, whole |-> whole, part |-> part,
                       more |-> TRUE, qos2 |-> FALSE, held |-> FALSE], [i \in 1 .. Len(c.mq) |-> i])

\* __mqtt_send after the loop: a ping is queued when nothing went out for keep_alive.
KeepsAlive(s) == IF s.c.idle > KeepAlive THEN [s EXCEPT !.c = Ping(@)] ELSE s
SendRound(c, line, whole, part) == KeepsAlive(SendLoop(c, line, whole, part))

MaySend(c) == c.err \in {OK, "SEND_BUFFER_IS_FULL"}

Older(c) == [c EXCEPT !.idle = IF @ > KeepAlive THEN @ ELSE @ + 1,
                      !.mq = [i \in DOMAIN c.mq |-> [c.mq[i] EXCEPT !.age = IF @ > Timeout THEN @ ELSE @ + 1]]]
=============================================================================
