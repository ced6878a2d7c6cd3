\* One client is served and a second one is started; no call fails.
SPECIFICATION Spec
CONSTANTS
    Clients = {c1, c2}
    NumClients = 1
    RxDepth = 2
    RefillAt = 1
    Faulty = {}
    Refusing = {}
    MaxLag = 0
    Server = Server
    Nil = Nil
INVARIANT OpenFailureIsReported
CHECK_DEADLOCK FALSE
