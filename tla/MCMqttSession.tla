---------------------------- MODULE MCMqttSession ----------------------------
EXTENDS MqttSession

\* A connection acknowledgement with a code the protocol does not have.
BadFrames == {[Frame("CONNACK", 0) EXCEPT !.code = 6]}
=============================================================================
