SPECIFICATION Spec
CONSTANTS
    Topic = 1
    Payload = 1
    BufSize = 100
    HeaderSize = 20
    NumIds = 3
    Timeout = 0
    KeepAlive = 0
    QosOut = {1}
    QosIn = {}
    Bad = {}
    Api = {"unsubscribe"}
    ReusesIds = FALSE
    MaxWork = 3
    MaxTrouble = 1
INVARIANT ThreadSafe
CHECK_DEADLOCK FALSE
