-------------------------------- MODULE Balance --------------------------------
(***************************************************************************)
(* What a household ate in the last days against the published benchmarks  *)
(* (services/balance.py, domain/balance.py).  Nothing is stored: the       *)
(* balance is computed from the movements of the stock, so it changes when *)
(* a lot is taken out (services/inventory.py), when a product is read      *)
(* again and its markers change, and when a meal grows old.                *)
(*                                                                         *)
(* Days are numbered; masses are counted in half grams, of which the code  *)
(* keeps whole grams when it compares.                                     *)
(***************************************************************************)
EXTENDS Integers, Sequences, FiniteSetsExt, TLC

CONSTANTS
    Guidelines,   \* of the current reference: [marker, direction, amount, unit, window_days]
    Labels,       \* product -> the sets of markers the catalogue may give it
    ProductOf,    \* lot -> the product it holds
    Amounts,      \* what a lot may hold: [dimension, delta]
    WindowDays,   \* WINDOW_DAYS
    LastDay,      \* bound: last day of the behaviour
    MaxMoves,     \* bound: movements recorded

    None

Products == DOMAIN Labels
Lots == DOMAIN ProductOf

VARIABLES
    today, pnns_markers, movements,
    lots      \* the amount of each lot, or None once it is depleted

vars == <<today, pnns_markers, movements, lots>>

(***************************************************************************)
(* The balance                                                             *)
(***************************************************************************)
(* Mutant: whatever leaves the stock was eaten.                             *)
MutEatenWaste(k) == movements[k].at >= today - WindowDays

(* Only what was consumed, and not longer ago than the window; its delta is *)
(* negative, since it left.                                                 *)
Eaten(k) == movements[k].kind = "consumption" /\ movements[k].at >= today - WindowDays

(* A product without a marker is counted apart: not known to be anything.   *)
Uncategorised ==
    {p \in Products : pnns_markers[p] = {} /\ \E k \in DOMAIN movements : Eaten(k) /\ movements[k].product = p}

Observation(marker) ==
    LET meals == {k \in DOMAIN movements : Eaten(k) /\ marker \in pnns_markers[movements[k].product]}
    IN  [servings |-> Cardinality(meals),
         grams |-> MapThenSumSet(LAMBDA k : IF movements[k].dimension = "mass" THEN -movements[k].delta ELSE 0,
                                 meals) \div 2]

Observed(g) == IF g.unit = "gram" THEN Observation(g.marker).grams ELSE Observation(g.marker).servings

(* target_over, as a fraction over the window of the guideline.             *)
Target(g) == g.amount * WindowDays

Short(g) == Target(g) - Observed(g) * g.window_days

IsGap(g) == g.direction = "at_least" /\ Short(g) > 0
IsExcess(g) == g.direction # "at_least" /\ Short(g) < 0

Shortfall(g) == (Short(g) + g.window_days - 1) \div g.window_days

MarkersInStock == UNION {pnns_markers[ProductOf[l]] : l \in {m \in Lots : lots[m] # None}}

(* The note says so when the stock cannot fill every gap.                   *)
Evaluate ==
    LET gaps == {g \in Guidelines : IsGap(g)}
    IN  [gaps |-> [m \in {g.marker : g \in gaps} |-> Shortfall(CHOOSE g \in gaps : g.marker = m)],
         excesses |-> {g.marker : g \in {h \in Guidelines : IsExcess(h)}},
         uncategorised |-> Cardinality(Uncategorised),
         cannot_fill |-> \E g \in gaps : g.marker \notin MarkersInStock]

(***************************************************************************)
(* What happens to the stock                                               *)
(***************************************************************************)
RemovalKinds == "consumed" :> "consumption" @@ "wasted" :> "waste" @@ "correction" :> "adjustment"

(* A movement of a lot and what it leaves of it, in one transaction.        *)
Moves(l, kind, dimension, delta, left) ==
    /\ Len(movements) < MaxMoves
    /\ movements' = Append(movements, [product |-> ProductOf[l], kind |-> kind, at |-> today,
                                       dimension |-> dimension, delta |-> delta])
    /\ lots' = [lots EXCEPT ![l] = left]
    /\ UNCHANGED <<today, pnns_markers>>

AddItem(l, amount) ==
    lots[l] = None /\ Moves(l, "intake", amount.dimension, amount.delta, amount)

(* Entered again in another dimension, a lot moves by the difference of the *)
(* two numbers; a correction by nothing is not recorded.                    *)
UpdateItem(l, amount) ==
    /\ lots[l] # None /\ amount.delta # lots[l].delta
    /\ Moves(l, "adjustment", amount.dimension, amount.delta - lots[l].delta, amount)

(* Whatever the reason, the whole of the lot leaves.                        *)
RemoveItem(l, reason) ==
    lots[l] # None /\ Moves(l, RemovalKinds[reason], lots[l].dimension, -lots[l].delta, None)

(* A product read again from the catalogue.                                 *)
Relabel(p, markers) ==
    /\ pnns_markers' = [pnns_markers EXCEPT ![p] = markers]
    /\ UNCHANGED <<today, movements, lots>>

Tick == /\ today < LastDay /\ today' = today + 1
        /\ UNCHANGED <<pnns_markers, movements, lots>>

Init == /\ today = 0 /\ movements = <<>>
        /\ pnns_markers = [p \in Products |-> CHOOSE m \in Labels[p] : TRUE]
        /\ lots \in [Lots -> Amounts]

Next ==
    \/ \E l \in Lots :
         \/ \E amount \in Amounts : AddItem(l, amount) \/ UpdateItem(l, amount)
         \/ \E reason \in DOMAIN RemovalKinds : RemoveItem(l, reason)
    \/ \E p \in Products : \E markers \in Labels[p] : Relabel(p, markers)
    \/ Tick

Spec == Init /\ [][Next]_vars

(***************************************************************************)
(* Properties                                                              *)
(***************************************************************************)
Gap(balance, marker) == IF marker \in DOMAIN balance.gaps THEN balance.gaps[marker] ELSE 0

(* The number shown is the number that is missing: what is eaten takes one  *)
(* serving off every gap its product can fill and off no other, however     *)
(* much of it there was; what is bought, corrected or thrown away moves no  *)
(* figure, and what leaves otherwise than eaten fills no want of the stock; *)
(* a day that passes only forgets (services/balance.py:124, inventory.py).  *)
MealsMoveTheBalance ==
    [][ LET before == Evaluate
            after == Evaluate'
            moved == movements' # movements
            last == movements'[Len(movements')]
            eaten == moved /\ last.kind = "consumption"
            markers == IF eaten THEN pnns_markers[last.product] ELSE {}
        IN  /\ \A g \in Guidelines : moved =>
                 Gap(after, g.marker) = IF g.marker \in markers THEN Max({Gap(before, g.marker) - 1, 0})
                                        ELSE Gap(before, g.marker)
            /\ moved /\ ~eaten =>
                 /\ after.excesses = before.excesses /\ after.uncategorised = before.uncategorised
                 /\ last.kind # "intake" /\ before.cannot_fill => after.cannot_fill
            /\ today' # today => /\ after.excesses \subseteq before.excesses
                                 /\ \A g \in Guidelines : Gap(after, g.marker) >= Gap(before, g.marker) ]_vars
=============================================================================
