----------------------------- MODULE MCInventory -----------------------------
(***************************************************************************)
(* Small instances of Inventory over one state, told apart by the          *)
(* scenario: requests that meet, the rules of each operation one request   *)
(* at a time, and two lots that are moved to each other's place.  Chicken  *)
(* has a freezing figure and peas are sold frozen.  One quantum is three   *)
(* grains and a kilogram two canonical units, so that amounts round up,    *)
(* down and to zero.  One scenario leaves the shelf alone: a receipt on its*)
(* way to the review screen, of ReceiptReading.                            *)
(***************************************************************************)
EXTENDS Inventory, TLC

CONSTANTS
    l1, l2, c1,
    MaxHouseholdChanges  \* bound: changes while a receipt is read

VARIABLES
    scenario,
    model, live, step, upload, reading, row, reviewed, view, asked, changes

review == <<model, live, step, upload, reading, row, reviewed, view, asked, changes>>

MCUnits == {"g", "kg", "piece"}
MCDimensions == {"mass", "count"}
MCFactor == [u \in MCUnits |-> IF u = "kg" THEN 2 ELSE 1]
MCDimension == [u \in MCUnits |-> IF u = "piece" THEN "count" ELSE "mass"]
MCProducts == {"chicken", "peas"}
MCLocations == {"fridge", "freezer"}
MCLocationKind == [loc \in MCLocations |-> loc]
MCOpenedDays == [p \in MCProducts |-> IF p = "chicken" THEN 1 ELSE None]
MCFrozenDays == [p \in MCProducts |-> IF p = "chicken" THEN 3 ELSE None]
MCSoldFrozen == {"peas"}

Blank ==
    [op |-> "add", lot |-> Unset, product |-> Unset, loc |-> Unset,
     unit |-> Unset, amount |-> Unset, bestBefore |-> Unset,
     kind |-> Unset, opened |-> Unset, reason |-> Unset]

Add(product, loc, amount, unit, date) ==
    [Blank EXCEPT !.product = product, !.loc = loc, !.amount = amount,
                  !.unit = unit, !.bestBefore = date, !.opened = None]

On(op, l) == [Blank EXCEPT !.op = op, !.lot = l]
Remove(l, reason) == [On("remove", l) EXCEPT !.reason = reason]
MoveTo(l, loc) == [On("update", l) EXCEPT !.loc = loc]
SetAmount(l, amount) == [On("update", l) EXCEPT !.amount = amount]
SetUnit(l, unit) == [On("update", l) EXCEPT !.unit = unit]
SetDate(l, date, kind) == [On("update", l) EXCEPT !.bestBefore = date, !.kind = kind]
SetOpened(l, day) == [On("update", l) EXCEPT !.opened = day]

(* Two phones, one product: every operation that can meet another on a row  *)
(* or on the merge key.                                                     *)
RaceCommands ==
    {Add("chicken", "fridge", 3, "g", 1), Add("chicken", "freezer", 6, "g", 1)}
    \cup {On(op, l) : op \in {"freeze", "thaw"}, l \in {l1, l2}}
    \cup {MoveTo(l, "freezer") : l \in {l1, l2}}
    \cup {SetAmount(l1, 9), Remove(l1, "consumed"), Remove(l1, "wasted")}

(* The rules of each operation, refusals included, one request at a time.   *)
RuleCommands ==
    {Add("chicken", "fridge", 3, "kg", 2), Add("peas", None, 4, "g", 1),
     Add("chicken", "fridge", 1, "g", 2), Add("chicken", "fridge", 1, "kg", None),
     Add(Unknown, None, 3, "g", None), Add("peas", Unknown, 3, "g", None),
     Add("peas", None, 3, Unknown, None),
     [Add("peas", None, 3, "g", 1) EXCEPT !.kind = "unknown"],
     [Add("chicken", "fridge", 3, "g", 2) EXCEPT !.kind = "use_by"]}
    \cup {On("freeze", l1), On("thaw", l1), On("freeze", Unknown)}
    \cup {SetUnit(l1, "piece"), SetUnit(l1, Unknown), SetAmount(l1, 1),
          SetDate(l1, None, Unset), SetDate(l1, 5, "use_by"),
          SetDate(l1, 3, "unknown"), SetOpened(l1, 0), SetOpened(l1, 2), MoveTo(l1, Unknown)}
    \cup {Remove(l1, "correction"), Remove(l1, Unknown)}

(* Two lots that are moved to each other's place.                           *)
SwapCommands ==
    {Add("chicken", "fridge", 3, "g", 1), Add("chicken", "freezer", 3, "g", 1),
     MoveTo(l1, "freezer"), MoveTo(l2, "fridge"), MoveTo(l2, "freezer"),
     Remove(l1, "wasted")}

Rules == INSTANCE Inventory WITH Commands <- RuleCommands, MaxDay <- 4
Swap == INSTANCE Inventory WITH Commands <- SwapCommands, MaxDay <- 0, MaxRequests <- 5

-----------------------------------------------------------------------------
P == INSTANCE MCReviews
R == INSTANCE ReceiptReading WITH
        Lexicon <- P!Abbreviations, SlashPrefixes <- P!MCSlashPrefixes, Widths <- P!MCWidths,
        Vowelless <- {"tr", "cps", "pdt"}, MaxLines <- 2, MaxAmount <- 9000,
        Uploads <- P!MCUploads, Answers <- P!MCAnswers,
        Products <- DOMAIN P!MCNamed, Named <- P!MCNamed, Own <- {"p1", "p3", "p4"},
        Models <- {"m1", "m2", "blind"}, Seeing <- {"m1", "m2"}, Codes <- {"g", "piece"},
        MaxMoney <- 8000, MaxQuantity <- 900, MaxChanges <- MaxHouseholdChanges, rows <- reviewed,
        MaxBytes <- 10, MaxPages <- 3, MaxChars <- 20, MaxEdge <- 3

ASSUME LexiconAssumption == R!LexiconIsIndexed /\ R!EntriesSayWhat

-----------------------------------------------------------------------------
ScenariosInit ==
    /\ \/ scenario = "race" /\ Init
       \/ scenario = "rules" /\ Rules!Init
       \/ scenario = "swap" /\ Swap!Init
       \/ scenario = "review" /\ Init
    /\ R!RInit
    /\ scenario # "review" => model = None

ScenariosNext ==
    /\ \/ /\ \/ scenario = "race" /\ Next
             \/ scenario = "rules" /\ Rules!Next /\ \A c \in Clients \ {c1} : tx'[c].phase = "idle"
             \/ scenario = "swap" /\ Swap!Next
          /\ UNCHANGED review
       \/ scenario = "review" /\ R!RNext /\ UNCHANGED vars
    /\ UNCHANGED scenario
ScenariosSpec == ScenariosInit /\ [][ScenariosNext]_<<vars, review, scenario>>

(* As in ReceiptReading: no number of a document is given to another        *)
(* article, unless the prices of two of them are within reach of one count. *)
NumbersStayTogether == R!NumbersStayTogether

(* As in ReceiptReading: the prices of a line are its article's own,        *)
(* wherever they are printed.                                               *)
PricesAreTheArticlesOwn == R!PricesAreTheArticlesOwn

(* As in ReceiptReading: a name that replaces the printed one is sure.      *)
ShownNamesAreVouchedFor == R!ShownNamesAreVouchedFor
=============================================================================
