CONSTANTS
    None = None
    ann = ann
    bea = bea
    Clients = {c1, c2}
    Addresses = {ann, bea}
    Sessions = {1, 2, 3, 4}
    Links = {1, 2, 3}
    Passwords = {first, second}
    first = first
    second = second
    Registered <- MCRegistered
    Outdated = TRUE
    Opened <- MCOpened
    Requests <- AllRequests
    MaxRequests = 3
SPECIFICATION FairSpec
PROPERTIES
    WithdrawnIsFinal
    RemediesReachEverySession
    DeadCredentialsOpenNothing
    EveryRequestAnswered
