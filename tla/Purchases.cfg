CONSTANTS
    None = None
    Gone = Gone
    Unknown = Unknown
    Unset = Unset
    Nil = None
    Removed = Gone
    Nobodys = Unknown
    Phones = {c1, c2}
    ListIds = {l1, l2}
    Goods = {p1, p2}
    Units <- MCUnits
    Dimension <- MCDimension
    Values = {1, 5, 7}
    h1 = h1
    h2 = h2
    Callers = {c1}
    Conns = {n1}
    Households = {h1, h2}
    Newborn = h3
    Public = Public
    Asks <- MCAsks
    MaxAsks = 2
    MaxSteps = 2
    MaxDeploys = 2
    Members = {u1, u2, u3}
    Pdfs <- MCPdfs
    Workers = 1
    CpuSeconds = 3
    Expansion = 5
    AddressSpace = 12
    Lost = Lost
    MaxUploads = 3
    MaxReclaims = 1
    MaxBytes = 10
    MaxPages = 3
    MaxChars = 20
    MaxEdge = 3
    r1 = r1
    r2 = r2
    f1 = f1
    f2 = f2
    l1 = l1
    l2 = l2
    p1 = p1
    p2 = p2
    Clients = {c1, c2}
    Ids = {r1, r2}
    Files = {f1, f2}
    LineNos = {1, 2}
    MaxRequests = 4
    MaxListRequests = 3
    Names <- MCNames
    Listed <- MCListed
    Requests <- RaceRequests
    ListRequests <- AllListRequests
SPECIFICATION FairPurchasesSpec
INVARIANTS
    LinesFollowTheReceipt
    ImportReportsTheDocument
    RequestsReachTheirHousehold
    DocumentsAreJudgedAlone
PROPERTIES
    EditsDoNotUndoEachOther
    RemovedIsFinal
    EveryRequestAnswered
