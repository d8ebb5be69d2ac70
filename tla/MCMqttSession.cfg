SPECIFICATION Spec
CONSTANTS
    Topic = 1
    Payload = 1
    BufSize = 100
    HeaderSize = 20
    NumIds = 3
    Timeout = 0
    KeepAlive = 0
    QosOut = {1, 2}
    QosIn = {2}
    Bad <- BadFrames
    Api = {"subscribe", "unsubscribe", "reconnect", "ping", "disconnect"}
    ReusesIds = FALSE
    MaxWork = 2
    MaxTrouble = 2
CHECK_DEADLOCK FALSE
INVARIANTS OnceEachWay StreamIsSound
PROPERTIES Settles
