CONSTANTS
    None = None
    Unknown = Unknown
    Unset = Unset
    c1 = c1
    MaxHouseholdChanges = 1
    l1 = l1
    l2 = l2
    Clients = {c1, c2}
    Lots = {l1, l2}
    Grain = 3
    ThawedDays = 3
    MaxDay = 2
    MaxRequests = 4
    Units <- MCUnits
    Dimensions <- MCDimensions
    Factor <- MCFactor
    Dimension <- MCDimension
    Products <- MCProducts
    Locations <- MCLocations
    LocationKind <- MCLocationKind
    OpenedDays <- MCOpenedDays
    HomeFrozenDays <- MCFrozenDays
    SoldFrozen <- MCSoldFrozen
    Commands <- RaceCommands
SPECIFICATION ScenariosSpec
INVARIANTS
    LedgerIsTruth
    OneLotPerMergeKey
    NumbersStayTogether
    ShownNamesAreVouchedFor
PROPERTIES
    NoLostUpdate
    DepletedIsFinal
    ClocksStartOnce
    ImplementsStockLedger
