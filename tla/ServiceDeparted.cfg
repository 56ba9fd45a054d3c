CONSTANTS
    None = None
    Hand = Hand
    Gone = Gone
    c1 = c1
    c2 = c2
    w1 = w1
    near = near
    cloud = cloud
    blind = blind
    sharp = sharp
    k1 = k1
    k2 = k2
    house = house
    other = other
    i1 = i1
    i2 = i2
    i3 = i3
    i4 = i4
    s1 = s1
    s2 = s2
    m1 = m1
    Clients = {c1, c2}
    Workers = {w1}
    WorkerOf <- MCWorkerOf
    Gtins = {milk, counter}
    Internal = {counter}
    Records = {r1, r2}
    OddUnits = {r2}
    Ttl = 1
    Window = 2
    MaxCalls = 1
    MaxQueueWait = 1
    MaxNow = 0
    MaxRequests = 0
    MaxEdits = 1
    Buckets = {1}
    Limit = 1
    One = 3
    Rate = 2
    Cutoff = 3
    MaxWait = 1
    PerKey = 1
    Total = 1
    Pools <- MCPools
    MaxTicks = 4
    MaxThrottled = 0
    Configs = {1, 2, 3, 4}
    Endpoints = {near, cloud}
    Models = {blind, sharp}
    Sees = {sharp}
    ProviderKeys = {k1, k2}
    OwnsInstance = TRUE
    ExistingConfigs <- MCExistingConfigs
    ProviderRequests <- MCProviderRequests
    WithProviders = 0
    Persons = {ann, bob}
    Operator = operator
    Lines = {1, 2}
    BatchSize = 1
    WithExports = 3
    Accounts <- MCAccounts
    Households = {house}
    Founder <- MCFounder
    Guests <- MCGuests
    Invitations = {i1, i2, i3, i4}
    Tokens = {k1}
    MaxPending = 1
    MaxTokens = 1
    MembershipRequests <- ErasureRequests
    WithMemberships = 0
    SealedRows <- MCSealedRows
    Secrets = {s1, s2}
    Short = short
    Masters = {m1, m2}
    ExistingKeys <- MCExistingKeys
    RowIds = {1, 2, 3, 4}
    WithSealing = 0
    Tables <- MCTables
    References = {"receipt_line", "shopping_list_item"}
    Matched = "receipt_line"
    Catalogue = "product"
    House = house
    Neighbours = {other}
    Requester = ann
    Databases <- MCDatabases
    WithDocument = 0
    Sessions = {s1}
    Suggestions = {1}
    Holders = {"bob"}
    HolderOf <- MCHolderOf
    Absolute = 3
    Sliding = 2
    Lives = {1}
    Retention = 1
    Frozen = 1
    WithDays = 0
    Addresses = {1, 2}
    ModelConfigs <- MCModelConfigs
    OperatorKey = TRUE
    Texts <- MCTexts
    Reports <- MCReports
    Larder <- MCLarder
    Keep = 2
    MaxRead = 2
    MaxSuggestions = 1
    WithAsking = 0
    WithRepointing = 0
SPECIFICATION MCServiceSpec
INVARIANT DepartedTokenIsUnused
