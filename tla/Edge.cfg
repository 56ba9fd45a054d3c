CONSTANTS
    None = None
    full = full
    bare = bare
    Addresses = {1}
    Lots = {1, 2}
    Owners = {h1, h2}
    Dues <- MCDues
    Zones = {0}
    Past = 0
    Future = 1
    MaxTasks = 1
    MaxPolls = 1
    MaxFailures = 1
    LastInstant = 4
    MaxEvents = 2
SPECIFICATION FairEdgeSpec
INVARIANTS
    SyncTellsTheTruth
    RevokedReadsNothing
PROPERTIES
    PhoneShowsTheFeed
    EntitiesCatchUp
CHECK_DEADLOCK FALSE
