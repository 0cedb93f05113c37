SPECIFICATION FairSpec
CONSTANTS
    NClients = 2
    Backlog = 0
    MaxFaults = 1
    Commands = {"toggle", "service-stop"}
INVARIANTS
    TypeOK
    SocketOwned
    OneMicrophone
    AnswerTellsTruth
PROPERTIES
    ClientEnds
    ServiceCatchesUp
CHECK_DEADLOCK FALSE
