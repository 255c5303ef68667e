SPECIFICATION Spec
CONSTANTS
    MAX_CLIENTS = 3
    f1 = f1
    f2 = f2
    f3 = f3
    f4 = f4
    u1 = u1
    u2 = u2
    FDS <- MCFds
    USERS <- MCUsers
    NoFd = NoFd
    NoUser = NoUser
SYMMETRY Symmetry
VIEW JoinedView
INVARIANTS
    SlotsFollowSockets
    PresenceConverges
    
PROPERTIES
    
    ClosingIsFinal
    ImplementsRoster
