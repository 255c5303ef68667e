SPECIFICATION FairSpec
CONSTANTS
    MAX_CLIENTS = 2
    f1 = f1
    f2 = f2
    f3 = f3
    f4 = f4
    u1 = u1
    u2 = u2
    FDS <- MCFewFds
    USERS <- MCUsers
    NoFd = NoFd
    NoUser = NoUser
PROPERTIES
    ClosingIsFreed
    
