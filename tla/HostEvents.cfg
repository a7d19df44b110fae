SPECIFICATION FairSpec
CONSTANTS
    Tasks = {t1, t2}
    Gateway = gatewayTask
    NoTask = nobody
    Producers = {n}
    Endpoints = {e1, e2}
    NoEndpoint = free
    Capacity = 2
    MaxConnections = 2
INVARIANTS
    HandlerIsConnected
    NotificationNotLost
PROPERTIES
    PayloadIsSeen
