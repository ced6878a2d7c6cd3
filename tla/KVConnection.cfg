\* Three clients start and two are served.  The server and one client may fail while
\* they set up; receives may be refused at one end.  The queue of two is refilled when the program counts none.
SPECIFICATION FairSpec
CONSTANTS
    Clients = {c1, c2, c3}
    NumClients = 2
    RxDepth = 2
    RefillAt = 0
    Faulty = {Server, c1}
    Refusing = {c1, 1}
    MaxLag = 0
    Server = Server
    Nil = Nil
INVARIANTS TypeOK EndsArePaired PeerIsReady CountIsHonest ServedToTheEnd 
PROPERTIES EverybodyEnds SetupResolves
CHECK_DEADLOCK FALSE
