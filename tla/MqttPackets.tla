------------------------------ MODULE MqttPackets ------------------------------
(* What MQTT-C packs and unpacks.  A packet is its control type, the four flag  *)
(* bits, the length its header announces and the few bytes the checks look at;  *)
(* packing yields a size in bytes, no room, or an error.                        *)
EXTENDS Integers, Sequences, FiniteSets

CONSTANTS Topic, Payload      \* length in bytes of a topic name and of a message

ControlTypes == {"CONNECT", "CONNACK", "PUBLISH", "PUBACK", "PUBREC", "PUBREL", "PUBCOMP",
                 "SUBSCRIBE", "SUBACK", "UNSUBSCRIBE", "UNSUBACK", "PINGREQ", "PINGRESP", "DISCONNECT"}

OK == "MQTT_OK"     \* the one code that is not negative

Errors == {"NULLPTR", "CONTROL_FORBIDDEN_TYPE", "CONTROL_INVALID_FLAGS", "CONTROL_WRONG_TYPE",
           "CONNECT_CLIENT_ID_REFUSED", "CONNECT_NULL_WILL_MESSAGE", "CONNECT_FORBIDDEN_WILL_QOS",
           "CONNACK_FORBIDDEN_FLAGS", "CONNACK_FORBIDDEN_CODE", "PUBLISH_FORBIDDEN_QOS",
           "SUBSCRIBE_TOO_MANY_TOPICS", "MALFORMED_RESPONSE", "UNSUBSCRIBE_TOO_MANY_TOPICS",
           "RESPONSE_INVALID_CONTROL_TYPE", "CONNECT_NOT_CALLED", "SEND_BUFFER_IS_FULL", "SOCKET_ERROR",
           "MALFORMED_REQUEST", "RECV_BUFFER_TOO_SMALL", "ACK_OF_UNKNOWN", "NOT_IMPLEMENTED",
           "CONNECTION_REFUSED", "SUBSCRIBE_FAILED", "CONNECTION_CLOSED", "INITIAL_RECONNECT",
           "INVALID_REMAINING_LENGTH", "CLEAN_SESSION_IS_REQUIRED", "RECONNECT_FAILED", "RECONNECTING"}

ErrorStates == Errors \cup {OK}

ACCEPTED == 0              \* return codes of a CONNACK
IDENTIFIER_REJECTED == 2
SUBACK_FAILURE == 128

----------------------------------------------------------------------------
(* The fixed header *)

RequiredFlags(type) == IF type \in {"PUBREL", "SUBSCRIBE", "UNSUBSCRIBE"} THEN 2 ELSE 0

\* A type outside the table is forbidden; every type but PUBLISH has its four flags prescribed.
RuleViolation(type, flags) ==
    IF type \notin ControlTypes THEN "CONTROL_FORBIDDEN_TYPE"
    ELSE IF type # "PUBLISH" /\ flags # RequiredFlags(type) THEN "CONTROL_INVALID_FLAGS"
    ELSE OK

LengthBytes(rem) == 1 + Cardinality({b \in {128, 16384, 2097152} : rem >= b})

Size(rem) == 1 + LengthBytes(rem) + rem

Refuse(e) == [n |-> 0, err |-> e]
NoRoom == [n |-> 0, err |-> OK]

PackFixed(type, flags, rem, room) ==
    IF RuleViolation(type, flags) # OK THEN Refuse(RuleViolation(type, flags))
    ELSE IF room = 0 THEN NoRoom
    ELSE IF rem >= 268435456 THEN Refuse("INVALID_REMAINING_LENGTH")
    ELSE IF Size(rem) > room THEN NoRoom
    ELSE [n |-> Size(rem), err |-> OK]

\* A frame as it arrives: where the header is whole and announces more than has arrived, 0.
UnpackFixed(f) == RuleViolation(f.type, f.flags)

----------------------------------------------------------------------------
(* Requests.  An absent string is Null; Str is the packed length of a present one. *)

Null == -1
Str(len) == IF len = Null THEN 0 ELSE 2 + len

PackConnect(a, room) ==
    IF a.client = 0 /\ ~a.clean THEN Refuse("CLEAN_SESSION_IS_REQUIRED")
    ELSE IF a.will # Null /\ a.willMessage = Null THEN Refuse("CONNECT_NULL_WILL_MESSAGE")
    ELSE IF a.will # Null /\ a.willQos = 3 THEN Refuse("CONNECT_FORBIDDEN_WILL_QOS")
    ELSE PackFixed("CONNECT", 0,
                   10 + 2 + a.client + Str(a.will) + (IF a.will = Null THEN 0 ELSE Str(a.willMessage))
                      + Str(a.user) + Str(a.password), room)

PackDisconnect(room) == PackFixed("DISCONNECT", 0, 0, room)

PackPing(room) == PackFixed("PINGREQ", 0, 0, room)

PackPublish(qos, room) ==
    IF qos = 3 THEN Refuse("PUBLISH_FORBIDDEN_QOS")
    ELSE PackFixed("PUBLISH", 2 * qos, Str(Topic) + (IF qos > 0 THEN 2 ELSE 0) + Payload, room)

PackPubxxx(type, room) == PackFixed(type, IF type = "PUBREL" THEN 2 ELSE 0, 2, room)

MaxTopics == 8

PackSubscribe(topics, room) ==
    IF topics >= MaxTopics THEN Refuse("SUBSCRIBE_TOO_MANY_TOPICS")
    ELSE PackFixed("SUBSCRIBE", 2, 2 + topics * (Str(Topic) + 1), room)

PackUnsubscribe(topics, room) ==
    IF topics >= MaxTopics THEN Refuse("UNSUBSCRIBE_TOO_MANY_TOPICS")
    ELSE PackFixed("UNSUBSCRIBE", 2, 2 + topics * Str(Topic), room)

----------------------------------------------------------------------------
(* Responses.  session is the first byte of a CONNACK, code its second byte or *)
(* the first return code of a SUBACK.                                          *)

UnpackConnack(f) == IF f.rem # 2 THEN "MALFORMED_RESPONSE"
                    ELSE IF f.session > 1 THEN "CONNACK_FORBIDDEN_FLAGS"
                    ELSE IF f.code > 5 THEN "CONNACK_FORBIDDEN_CODE"
                    ELSE OK

\* The length of the topic name is taken as the frame gives it.
UnpackPublish(f) == IF f.rem < 4 THEN "MALFORMED_RESPONSE" ELSE OK

UnpackPubxxx(f) == IF f.rem # 2 THEN "MALFORMED_RESPONSE" ELSE OK

UnpackSuback(f) == IF f.rem < 3 THEN "MALFORMED_RESPONSE" ELSE OK

UnpackUnsuback(f) == IF f.rem # 2 THEN "MALFORMED_RESPONSE" ELSE OK

UnpackResponse(f) ==
    IF UnpackFixed(f) # OK THEN UnpackFixed(f)
    ELSE CASE f.type = "CONNACK" -> UnpackConnack(f)
           [] f.type = "PUBLISH" -> UnpackPublish(f)
           [] f.type \in {"PUBACK", "PUBREC", "PUBREL", "PUBCOMP"} -> UnpackPubxxx(f)
           [] f.type = "SUBACK" -> UnpackSuback(f)
           [] f.type = "UNSUBACK" -> UnpackUnsuback(f)
           [] f.type = "PINGRESP" -> OK
           [] OTHER -> "RESPONSE_INVALID_CONTROL_TYPE"
=============================================================================
