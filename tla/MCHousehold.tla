----------------------------- MODULE MCHousehold -----------------------------
(***************************************************************************)
(* Small instances of what a household eats and spends: Recipes with its   *)
(* eaters, a few products and dishes that the filters treat differently,   *)
(* Budget over the turn of a month, in zones on both sides of UTC, and     *)
(* Balance over a window of two days.  They share nothing here, so each is *)
(* explored with the others at rest.                                       *)
(***************************************************************************)
EXTENDS Recipes, TLC

CONSTANTS ann, kid, oats, milk, kiwi

VARIABLE part
VARIABLES zone, clock, receipts, lots, target, btx, bissued

money == <<zone, clock, receipts, lots, target, btx, bissued>>

(* Day 0 is a Monday; the month that begins on day 3 has 28 days and the    *)
(* one that begins on day 31 has 31.                                        *)
March == 31
Reading(on, total, currency, sum) ==
    [on |-> on, total |-> total, currency |-> currency, lines |-> 1,
     priceless |-> IF sum = None THEN 1 ELSE 0, sum |-> sum]

B == INSTANCE Budget WITH
        MonthStarts <- {-59, -28, 3, March, March + 31}, Zones <- {-1, 1},
        Readings <- {Reading(March - 1, 4, "EUR", 7), Reading(March, 5, "CHF", 5),
                     Reading(None, 2, "EUR", None), Reading(None, None, "EUR", None)},
        Entered <- {March + 1},
        Targets <- {[amount |-> 8, currency |-> "EUR"], [amount |-> 9, currency |-> "CHF"]},
        Since <- March, LastDay <- March + 1, MaxHistory <- 2, MaxEvents <- 3,
        tx <- btx, issued <- bissued

VARIABLES today, pnns_markers, movements, larder

meals == <<today, pnns_markers, movements, larder>>

Benchmark(marker, direction, amount, unit, days) ==
    [marker |-> marker, direction |-> direction, amount |-> amount, unit |-> unit, window_days |-> days]

W == INSTANCE Balance WITH
        Guidelines <- {Benchmark("fish", "at_least", 2, "serving", 3), Benchmark("oily_fish", "at_least", 1, "serving", 2),
                       Benchmark("dairy", "around", 1, "serving", 2), Benchmark("red_meat", "at_most", 3, "gram", 2)},
        Labels <- "herring" :> {{}, {"fish", "oily_fish"}} @@ "steak" :> {{"red_meat", "dairy"}},
        ProductOf <- 1 :> "herring" @@ 2 :> "herring" @@ 3 :> "steak", lots <- larder,
        Amounts <- {[dimension |-> "mass", delta |-> 7], [dimension |-> "count", delta |-> 2]},
        WindowDays <- 2, LastDay <- 3, MaxMoves <- 2

Eater == [age_band |-> "adult", texture |-> None, diet |-> "omnivore", allergens |-> {}, avoided |-> {}, strict |-> FALSE]
Allergic == [Eater EXCEPT !.allergens = {"milk"}]
Fussy == [Eater EXCEPT !.avoided = {"kiwi"}]
Infant == [Eater EXCEPT !.age_band = "infant_6_9m", !.texture = "smooth"]

MCInfantRules ==
    {[code |-> "honey", bands |-> InfantBands \ {"infant_12_36m"}, categories |-> {"honeys"}, patterns |-> {"miel"}],
     [code |-> "added_salt", bands |-> InfantBands, categories |-> {"crisps"}, patterns |-> {"chips"}]}
MCStaples == {[words |-> {"sel"}, avoided |-> {}, codes |-> {"added_salt"}],
              [words |-> {"huile", "olive"}, avoided |-> {"olive"}, codes |-> {}]}

Blank == [allergens |-> {}, traces |-> {}, ingredients |-> {}, long |-> FALSE, groups |-> {}, categories |-> {}]
OatDrink == [Blank EXCEPT !.allergens = {OutOfScope}, !.ingredients = {OutOfScope}, !.groups = {"legumes"}]
Oats == [Blank EXCEPT !.allergens = {Unreadable}]
Milk == [Blank EXCEPT !.allergens = {"milk"}, !.ingredients = {OutOfScope}, !.groups = {"dairy"}]
Smoothie == [Blank EXCEPT !.traces = {"nuts"}, !.ingredients = {"kiwi", OutOfScope}]
Muesli == [Blank EXCEPT !.allergens = {"milk", Unreadable}]

MCWords == oats :> {"lait", "avoine"} @@ milk :> {"lait", "entier"} @@ kiwi :> {"smoothie", "kiwi"}
MCStock == <<[id |-> 1, product |-> milk], [id |-> 2, product |-> oats], [id |-> 3, product |-> kiwi]>>
MCDishes == {{{"lait"}}, {{"kiwi"}, {"sel"}}, {{"lait"}, {"cumin"}}}
Known(payload) == [row |-> ToRecord(payload), payload |-> payload]
MCCatalogues == {oats :> Known(o) @@ milk :> Known(Milk) @@ kiwi :> Known(Smoothie) : o \in {OatDrink, Oats}}
MCHouseholds == {ann :> a @@ kid :> k : a \in {Eater, Allergic, [Allergic EXCEPT !.diet = "vegan"]}, k \in {None, Infant, Fussy}}

Untold == [eaters |-> {}, uses |-> {}, strange |-> FALSE, assessment |-> [declared_clear_of |-> {}, unverified |-> 0],
           feedback |-> None, dated |-> FALSE, cooked_at |-> FALSE, status |-> "generated"]
MCKept == {<<>>, <<Untold>>}

Req == [op |-> "suggest", id |-> None, people |-> {}, max_suggestions |-> 2, patch |-> <<>>, payload |-> Blank]
Suggest == {Req, [Req EXCEPT !.people = {ann}]}
Verdicts == {[Req EXCEPT !.op = op, !.id = 1] : op \in {"cooked", "not_interested", "clear"}}
Patch(p, patch) == [Req EXCEPT !.op = "patch", !.id = p, !.patch = patch]
Edits == {Patch(ann, [allergens |-> {"milk"}]), Patch(kid, [strict |-> TRUE]),
          Patch(kid, [age_band |-> "adult", texture |-> None]), Patch(kid, [texture |-> "pieces"]),
          [Req EXCEPT !.op = "delete", !.id = kid], [Req EXCEPT !.op = "create", !.patch = Infant]}
Refreshed(p, payload) == [Req EXCEPT !.op = "refresh", !.id = p, !.payload = payload]
Refreshes == {Refreshed(oats, Muesli), Refreshed(oats, Oats), Refreshed(oats, OatDrink), Refreshed(kiwi, [Smoothie EXCEPT !.ingredients = {Unreadable}])}
MCRequests == Suggest \cup Verdicts \cup Edits \cup Refreshes

-----------------------------------------------------------------------------
(* The part that is explored; the other one waits in one initial state.     *)
RecipesAtRest ==
    /\ household_person = [p \in People |-> IF p = ann THEN Eater ELSE None]
    /\ product = oats :> Known(Oats) @@ milk :> Known(Milk) @@ kiwi :> Known(Smoothie)
    /\ recipe_suggestion = <<>>

HouseholdInit == /\ part \in {"recipes", "budget", "balance"}
                 /\ Init /\ (part # "recipes" => RecipesAtRest)
                 /\ B!Init /\ (part # "budget" => zone = 1)
                 /\ W!Init /\ (part # "balance" => \A l \in DOMAIN larder : larder[l].dimension = "count")

HouseholdNext == /\ \/ part = "recipes" /\ Next /\ UNCHANGED <<money, meals>>
                    \/ part = "budget" /\ B!Next /\ UNCHANGED <<vars, meals>>
                    \/ part = "balance" /\ W!Next /\ UNCHANGED <<vars, money>>
                 /\ UNCHANGED part
HouseholdSpec == HouseholdInit /\ [][HouseholdNext]_<<part, vars, money, meals>>

(* As in Budget: nothing spent is lost or told twice.                       *)
EveryReceiptIsCountedOnce == part = "budget" => B!EveryReceiptIsCountedOnce

(* As in Balance: the balance shown moves with what is eaten, exactly.      *)
MealsMoveTheBalance == W!MealsMoveTheBalance

(* As in Budget: a lot belongs to the day that was entered for it.          *)
LotsBelongToTheirDay == B!LotsBelongToTheirDay
=============================================================================
