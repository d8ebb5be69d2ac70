------------------------------ MODULE MqttSession ------------------------------
(* An MQTT-C client under mqtt_sync, the application threads that call its API  *)
(* between and during its rounds, a TCP connection and a broker.  The broker    *)
(* and the reconnect callback are not in the repository: the broker answers as  *)
(* MQTT 3.1.1 has it, and the callback does what mqtt.h asks of one.            *)
EXTENDS MqttClient

CONSTANTS QosOut, QosIn,     \* qualities of service the application and the broker publish with
          Bad,               \* malformed frames a broker may send, one at most
          Api,               \* the calls the application makes besides publishing
          ReusesIds,         \* the broker gives every message of its own the same identifier
          MaxWork, MaxTrouble

Msgs == 0 .. MaxWork

VARIABLES
    cl,         \* the client
    line,       \* what has been sent and not read by the broker
    down,       \* frames on their way to the client
    phase,      \* where mqtt_sync is: "idle", "recv", "send" or "after"
    again,      \* mqtt_sync's local: it found the client reconnecting
    unsub,      \* the identifier mqtt_unsubscribe took before it got the mutex, 0 if none
    leaving,    \* a thread is in mqtt_reconnect, between its two sections of the mutex
    open,       \* the broker's end of the connection
    broker,     \* [up, held : QoS 2 identifiers stored, out : messages it waits for an answer to]
    work,       \* calls of the application and messages of the broker, up to a bound
    trouble,    \* ticks, full sockets, repeated messages, refusals and losses, up to a bound
    accepted,   \* history: [msg, qos] mqtt_publish took
    got,        \* history: how often the broker passed on each message
    heard,      \* history: how often the callback saw each message of the broker
    ended,      \* history: messages of the broker whose last acknowledgement it has
    lost,       \* history: messages that were in the queue when it was emptied
    muted,      \* history: messages dropped as duplicates
    calm,       \* history: no answer was late, no publish waited its turn with bytes out,
                \*          no connection was replaced with bytes out
    raced       \* history: a call ended on the identifier mqtt_unsubscribe was taking

callers == <<unsub, leaving>>
brokerVars == <<open, broker, ended>>
history == <<accepted, got, heard, lost, muted, calm, raced>>
vars == <<cl, line, down, phase, again, callers, brokerVars, work, trouble, history>>

Frame(type, id) == [type |-> type, flags |-> RequiredFlags(type), rem |-> IF type = "SUBACK" THEN 3 ELSE 2,
                    session |-> 0, code |-> 0, id |-> id, msg |-> 0, fits |-> TRUE]

PublishFrame(m, qos, id) == [Frame("PUBLISH", id) EXCEPT !.flags = 2 * qos, !.rem = 4 + Payload, !.msg = m]

Arguments == [client |-> 1, clean |-> TRUE, will |-> Null, willMessage |-> Null, willQos |-> 0,
              user |-> 1, password |-> 1]

\* mqtt_init: time_of_last_send is left as the memory had it.
Fresh(idle) == [mq |-> <<>>, err |-> "CONNECT_NOT_CALLED", pid |-> 0, off |-> 0, idle |-> idle, timeouts |-> 0]

Init ==
    /\ \E idle \in {0, KeepAlive + 1} : cl = Connect(Fresh(idle), Arguments)
    /\ line = FreshLine /\ down = <<>> /\ phase = "idle" /\ again = FALSE /\ unsub = 0 /\ leaving = FALSE
    /\ open = TRUE /\ broker = [up |-> FALSE, held |-> {}, out |-> {}]
    /\ work = 0 /\ trouble = 0
    /\ accepted = {} /\ got = [m \in Msgs |-> 0] /\ heard = [m \in Msgs |-> 0]
    /\ ended = {} /\ lost = {} /\ muted = {} /\ calm = TRUE /\ raced = FALSE

----------------------------------------------------------------------------
(* The application *)

\* What the two threads can read of pid_lfsr: mqtt_unsubscribe moves it without the mutex, so
\* a call that runs meanwhile may end on the identifier it is about to use.
PidsNow == {NextPid(cl)} \cup IF unsub = 0 THEN {} ELSE {unsub}

\* One more thing goes wrong.
Trouble == trouble < MaxTrouble /\ trouble' = trouble + 1

Working == work < MaxWork /\ work' = work + 1

AppPublish(qos) ==
    /\ Working
    /\ \E id \in PidsNow : /\ cl' = Publish(cl, id, qos, work')
                           /\ raced' = (raced \/ id = unsub)
    /\ accepted' = IF cl'.err = OK THEN accepted \cup {[msg |-> work', qos |-> qos]} ELSE accepted
    /\ UNCHANGED <<line, down, phase, again, callers, brokerVars, trouble, got, heard, lost, muted, calm>>

AppSubscribe ==
    /\ "subscribe" \in Api /\ Working
    /\ \E id \in PidsNow : /\ cl' = Subscribe(cl, id)
                           /\ raced' = (raced \/ id = unsub)
    /\ UNCHANGED <<line, down, phase, again, callers, brokerVars, trouble, accepted, got, heard, lost, muted, calm>>

AppUnsubscribe ==
    /\ "unsubscribe" \in Api /\ Working /\ unsub = 0
    /\ unsub' = NextPid(cl)
    /\ cl' = [cl EXCEPT !.pid = unsub']
    /\ UNCHANGED <<line, down, phase, again, leaving, brokerVars, trouble, history>>

AppUnsubscribeLocked ==
    /\ unsub # 0
    /\ unsub' = 0
    /\ cl' = Unsubscribe(cl, unsub)
    /\ UNCHANGED <<line, down, phase, again, leaving, brokerVars, work, trouble, history>>

AppPing ==
    /\ "ping" \in Api /\ Working
    /\ cl' = Ping(cl)
    /\ UNCHANGED <<line, down, phase, again, callers, brokerVars, trouble, history>>

\* Leaving the broker, for good or to come back, counts as trouble.
AppDisconnect ==
    /\ "disconnect" \in Api /\ Working /\ Trouble
    /\ cl' = Disconnect(cl)
    /\ UNCHANGED <<line, down, phase, again, callers, brokerVars, history>>

\* mqtt_reconnect: it lets go of the mutex between the packet and the error code.
AppReconnect ==
    /\ "reconnect" \in Api /\ Working /\ Trouble /\ ~leaving
    /\ cl' = Disconnect(cl)
    /\ leaving' = (cl'.err = OK)
    /\ UNCHANGED <<line, down, phase, again, unsub, brokerVars, history>>

AppReconnectLocked ==
    /\ leaving
    /\ leaving' = FALSE
    /\ cl' = Reconnect(cl)
    /\ UNCHANGED <<line, down, phase, again, unsub, brokerVars, work, trouble, history>>

----------------------------------------------------------------------------
(* mqtt_sync *)

Open(m) == \E i \in DOMAIN cl.mq : cl.mq[i].type = "PUBLISH" /\ cl.mq[i].msg = m /\ cl.mq[i].st # "COMPLETE"

\* The reconnect callback: a new socket, mqtt_reinit, mqtt_connect.  The queue is emptied,
\* the offset into a packet that was half out stays.
Renew ==
    /\ cl' = Connect(Reinit(cl), Arguments)
    /\ lost' = lost \cup {a.msg : a \in {b \in accepted : Open(b.msg)}}
    /\ line' = FreshLine /\ down' = <<>> /\ open' = TRUE
    /\ broker' = [up |-> FALSE, held |-> {}, out |-> {}]
    /\ calm' = (calm /\ cl.off = 0)
    /\ UNCHANGED <<ended, accepted, got, heard, muted, raced>>

Troubled == cl.err \notin {OK, "RECONNECTING"}

SyncReconnect ==
    /\ phase = "idle" /\ Troubled
    /\ \/ Renew /\ phase' = "recv" /\ UNCHANGED trouble
       \/ /\ Trouble
          /\ cl' = [cl EXCEPT !.err = "RECONNECT_FAILED"]
          /\ UNCHANGED <<line, down, phase, open, broker, ended, history>>
    /\ again' = FALSE
    /\ UNCHANGED <<callers, work>>

SyncStart ==
    /\ phase = "idle" /\ ~Troubled
    /\ phase' = "recv"
    /\ again' = (cl.err = "RECONNECTING")
    /\ cl' = [cl EXCEPT !.err = OK]
    /\ UNCHANGED <<line, down, callers, brokerVars, work, trouble, history>>

Handled(s, f, h) ==
    [s EXCEPT !.c = h.c, !.ret = h.ret, !.rest = Tail(@),
              !.heard = IF h.heard THEN Append(@, f.msg) ELSE @,
              !.muted = IF h.dropped THEN @ \cup {f.msg} ELSE @]

\* One frame of __mqtt_recv, which stops at an error: a frame that cannot be read stays.
RecvFrame(s, f) ==
    IF s.ret # OK THEN s
    ELSE IF ~f.fits THEN [s EXCEPT !.ret = "RECV_BUFFER_TOO_SMALL", !.c.err = "RECV_BUFFER_TOO_SMALL"]
    ELSE IF UnpackResponse(f) # OK THEN [s EXCEPT !.ret = UnpackResponse(f), !.c.err = UnpackResponse(f)]
    ELSE Handled(s, f, Handle(s.c, f))

\* Every frame that has arrived, and then, at the end of the stream, the end of the stream.
StreamEnds(s) == IF s.ret = OK /\ ~open THEN [s EXCEPT !.ret = "SOCKET_ERROR", !.c.err = "SOCKET_ERROR"] ELSE s

RecvLoop ==
    StreamEnds(FoldLeft(RecvFrame, [c |-> cl, ret |-> OK, rest |-> down, heard |-> <<>>, muted |-> {}], down))

SyncRecv ==
    /\ phase = "recv"
    /\ \E s \in {RecvLoop} :
          /\ cl' = s.c
          /\ down' = s.rest
          /\ heard' = [m \in Msgs |-> heard[m] + Len(SelectSeq(s.heard, LAMBDA x : x = m))]
          /\ muted' = muted \cup {m \in s.muted : heard'[m] = 0}
          /\ phase' = IF s.ret = OK THEN "send" ELSE "idle"
    /\ UNCHANGED <<line, again, callers, brokerVars, work, trouble, accepted, got, lost, calm, raced>>

Sent(whole, part) ==
    /\ \E s \in {SendRound(cl, line, whole, part)} :
          /\ cl' = s.c
          /\ line' = s.line
          /\ calm' = (calm /\ s.c.timeouts = cl.timeouts /\ ~s.held)
    /\ phase' = IF again THEN "after" ELSE "idle"
    /\ UNCHANGED <<down, again, callers, brokerVars, work, accepted, got, heard, lost, muted, raced>>

SyncSend == phase = "send" /\ MaySend(cl) /\ Sent(Len(cl.mq), 0) /\ UNCHANGED trouble

\* The socket takes some packets and then some bytes, or none, of the next.
SyncSendSome ==
    /\ phase = "send" /\ MaySend(cl)
    /\ Trouble
    /\ \E whole \in 0 .. Len(cl.mq) - 1, part \in {0, 1} : Sent(whole, part)

\* The socket refuses, or the client is in an error state.
SyncSendFails ==
    /\ phase = "send"
    /\ \/ ~MaySend(cl) /\ cl' = cl /\ UNCHANGED trouble
       \/ Trouble /\ cl.mq # <<>> /\ cl' = [cl EXCEPT !.err = "SOCKET_ERROR"]
    /\ phase' = IF again THEN "after" ELSE "idle"
    /\ UNCHANGED <<line, down, again, callers, open, broker, ended, work, history>>

\* mqtt_reconnect ends with the callback, whatever sending returned.
SyncAfter ==
    /\ phase = "after"
    /\ Renew
    /\ phase' = "idle" /\ again' = FALSE
    /\ UNCHANGED <<callers, work, trouble>>

Tick ==
    /\ Trouble
    /\ cl' = Older(cl)
    /\ UNCHANGED <<line, down, phase, again, callers, open, broker, ended, work, history>>

----------------------------------------------------------------------------
(* The broker *)

Speaks(f) == down' = Append(down, f) /\ UNCHANGED trouble

\* A refusal counts as a fault.
Grants(f, codes) == \/ Speaks(f)
                    \/ /\ Trouble
                       /\ \E code \in codes : down' = Append(down, [f EXCEPT !.code = code])

\* What the broker answers to a packet.
Answers(p) ==
    CASE p.type = "CONNECT" -> Grants(Frame("CONNACK", 0), {IDENTIFIER_REJECTED, 5})
      [] p.type = "PUBLISH" /\ p.qos > 0 -> Speaks(Frame(IF p.qos = 1 THEN "PUBACK" ELSE "PUBREC", p.id))
      [] p.type = "PUBREC" -> Speaks(Frame("PUBREL", p.id))
      [] p.type = "PUBREL" -> Speaks(Frame("PUBCOMP", p.id))
      [] p.type = "SUBSCRIBE" -> Grants(Frame("SUBACK", p.id), {SUBACK_FAILURE})
      [] p.type = "UNSUBSCRIBE" -> Speaks(Frame("UNSUBACK", p.id))
      [] p.type = "PINGREQ" -> Speaks(Frame("PINGRESP", 0))
      [] OTHER -> UNCHANGED <<down, trouble>>

BrokerTakes ==
    /\ open /\ line.up # <<>>
    /\ LET p == Head(line.up)
           first == p.type = "PUBLISH" /\ (p.qos < 2 \/ p.id \notin broker.held)
           over == {o \in broker.out : p.type \in {"PUBACK", "PUBCOMP"} /\ o.id = p.id}
       IN IF p.type \in {"GARBAGE", "DISCONNECT"} \/ (p.type # "CONNECT" /\ ~broker.up)
          THEN open' = FALSE /\ UNCHANGED <<down, trouble, broker, got, ended>>
          ELSE /\ Answers(p)
               /\ open' = open
               /\ got' = IF first THEN [got EXCEPT ![p.msg] = @ + 1] ELSE got
               /\ broker' = [up |-> TRUE,
                             out |-> {[o EXCEPT !.rec = @ \/ (p.type = "PUBREC" /\ o.id = p.id)] : o \in broker.out \ over},
                             held |-> IF p.type = "PUBREL" THEN broker.held \ {p.id}
                                      ELSE IF first /\ p.qos = 2 THEN broker.held \cup {p.id} ELSE broker.held]
               /\ ended' = ended \cup {o.msg : o \in over}
    /\ line' = [line EXCEPT !.up = Tail(@)]
    /\ UNCHANGED <<cl, phase, again, callers, work, accepted, heard, lost, muted, calm, raced>>

\* A message of the broker's own, under an identifier that is free at its end.
BrokerPublishes ==
    /\ open /\ broker.up /\ Working
    /\ \E qos \in QosIn : LET m == work'
                              id == IF ReusesIds THEN 1 ELSE work' IN
          /\ \A o \in broker.out : o.id # id
          /\ Speaks(PublishFrame(m, qos, id))
          /\ broker' = [broker EXCEPT !.out = IF qos = 0 THEN @ ELSE @ \cup {[msg |-> m, qos |-> qos, id |-> id, rec |-> FALSE]}]
    /\ UNCHANGED <<cl, line, phase, again, callers, open, ended, history>>

\* An impatient broker repeats a message it has no answer to.
BrokerRepeats ==
    /\ open /\ Trouble
    /\ \E o \in broker.out : o.qos = 2 /\ ~o.rec /\ down' = Append(down, PublishFrame(o.msg, o.qos, o.id))
    /\ UNCHANGED <<cl, line, phase, again, callers, open, broker, ended, work, history>>

BrokerFails ==
    /\ open /\ Trouble
    /\ \/ open' = FALSE /\ down' = down
       \/ open' = open /\ \E f \in Bad : down' = Append(down, f)
    /\ UNCHANGED <<cl, line, phase, again, callers, broker, ended, work, history>>

Next == \/ \E qos \in QosOut : AppPublish(qos)
        \/ AppSubscribe \/ AppUnsubscribe \/ AppUnsubscribeLocked \/ AppPing
        \/ AppDisconnect \/ AppReconnect \/ AppReconnectLocked
        \/ SyncReconnect \/ SyncStart \/ SyncRecv \/ SyncSend \/ SyncSendSome \/ SyncSendFails \/ SyncAfter \/ Tick
        \/ BrokerTakes \/ BrokerPublishes \/ BrokerRepeats \/ BrokerFails

\* mqtt_sync is called for ever (sm_mqtt_client_process), a thread in mqtt_unsubscribe or
\* mqtt_reconnect gets the mutex, and the broker reads and answers.
Leaves(p) == phase = p /\ phase' \in {"idle", "recv", "send", "after"} \ {p}
Fairness == /\ \A p \in {"idle", "recv", "send", "after"} : WF_phase(Leaves(p))
            /\ WF_unsub(unsub # 0 /\ unsub' = 0)
            /\ WF_leaving(leaving /\ leaving' = FALSE)
            /\ WF_line(open /\ line.up # <<>> /\ line' = [line EXCEPT !.up = Tail(@)])

Spec == Init /\ [][Next]_vars /\ Fairness

----------------------------------------------------------------------------
(* Properties *)

\* The client, the line and sync's place in its round are well formed.
TypeOK == /\ cl \in ClientType(Msgs)
          /\ line.torn \in BOOLEAN /\ phase \in {"idle", "recv", "send", "after"} /\ again \in BOOLEAN
          /\ unsub \in 0 .. NumIds /\ leaving \in BOOLEAN
          /\ broker.held \subseteq Ids

Delivered(a) == got[a.msg] > 0 \/ Open(a.msg) \/ a.msg \in lost

\* A message mqtt_publish took with QoS 1 or 2 has reached the broker before the queue gives it
\* up, unless a reconnect emptied the queue: no acknowledgement completes another message.
\* (Threads that were handed the same identifier are the business of ThreadSafe.)
CompletedIsDelivered == raced \/ \A a \in accepted : a.qos > 0 => Delivered(a)

\* The same of calls from several threads, which mqtt.h:105 allows.
ThreadSafe == \A a \in accepted : a.qos > 0 => Delivered(a)

\* A QoS 2 message is passed on by the broker once at most, whatever is sent again.
ReceivedOnce == raced \/ \A a \in accepted : a.qos = 2 => got[a.msg] <= 1

\* A QoS 2 message of the broker reaches the callback once at most, and has reached it when
\* the broker sees the handshake end.
HeardOnce == /\ \A o \in broker.out : o.qos = 2 => heard[o.msg] <= 1
             /\ \A m \in ended : heard[m] > 0

\* What the client drops as a duplicate it has passed on before.
MutedWasHeard == muted = {}

\* What mqtt_publish took is with the broker when the queue forgets it, and a QoS 2 message
\* is passed on once in either direction: no duplicate, and none dropped as one.
OnceEachWay == CompletedIsDelivered /\ ReceivedOnce /\ HeardOnce /\ MutedWasHeard

\* The broker reads whole packets as long as no answer is late, no publish waits its turn and
\* no connection is replaced while a packet is half out.
StreamWhole == line.torn => ~calm

\* The client meets an acknowledgement it does not know only after it has sent something twice.
AcksAreKnown == cl.err = "ACK_OF_UNKNOWN" => cl.timeouts > 0 \/ raced

\* Each side reads packets it can place, until an answer is late or a connection is replaced.
StreamIsSound == TypeOK /\ StreamWhole /\ AcksAreKnown

\* A message taken with QoS 1 or 2 is acknowledged in the end, unless the client reports an
\* error or starts anew.
Settles == \A m \in Msgs : (Open(m) /\ \E q \in {1, 2} : [msg |-> m, qos |-> q] \in accepted)
                              ~> (~Open(m) \/ cl.err # OK)
=============================================================================
