CONSTANTS
    MaxApp = 2
    MaxPbuf = 8
    MaxPending = 1
    Ring = 5
    OnLink = {"a", "b", "g"}
    Gateway = "g"
    NetSystems <- AllSystems
    MaxPcb = 2
    Receivers = {r1, r2}
    MaxDatagram = 2
    UDP_RECV_QUEUE_MAX = 1
    FirstPort = 2
    LastPort = 3
    MAX_ROUTES = 2
    MaxData = 5
    Dsts <- SomeDsts
SPECIFICATION Spec
CHECK_DEADLOCK FALSE
INVARIANTS BuffersExact PacketsAddressed  TablesExact
PROPERTY PendingLeaves
