CONSTANTS
    None = None
    OutOfScope = "out_of_scope"
    Unreadable = "unreadable"
    ann = ann
    kid = kid
    oats = oats
    milk = milk
    kiwi = kiwi
    Allergens = {"milk", "nuts"}
    Ingredients = {"kiwi", "olive"}
    InfantRules <- MCInfantRules
    Staples <- MCStaples
    Clients = {c1, c2}
    People = {ann, kid}
    Stock <- MCStock
    Words <- MCWords
    Dishes <- MCDishes
    Kept <- MCKept
    Households <- MCHouseholds
    Catalogues <- MCCatalogues
    Requests <- MCRequests
    MaxItems = 3
    MaxKept = 2
    MaxRequests = 3
SPECIFICATION HouseholdSpec
INVARIANTS
    ClearLeavesNoDiscard
