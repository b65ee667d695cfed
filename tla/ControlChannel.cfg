SPECIFICATION Spec
CONSTANTS
    Main = Main
    Worker = Worker
    NoClient = NoClient
    Clients = {k1, k2}
CHECK_DEADLOCK FALSE
INVARIANTS
    ClientIsToldTheTruth
PROPERTIES
    ShutdownPostedAfterAcknowledgement
    NothingAfterTeardown
    ImplementsService
    ChannelSettles
