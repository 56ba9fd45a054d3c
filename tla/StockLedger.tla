----------------------------- MODULE StockLedger -----------------------------
(***************************************************************************)
(* What the inventory promises, with no requests, locks or transactions in *)
(* it: a lot holds an amount, and whatever changes the amount is, in the   *)
(* same instant, an entry of its ledger under the kind of what happened.   *)
(* Inventory implements it.                                                *)
(***************************************************************************)
EXTENDS Integers

CONSTANTS Lots, None

VARIABLES
    held,     \* what each lot holds: None before its intake, 0 once it is gone
    entries   \* the sums of what was entered for each lot, by kind

Kinds == {"intake", "consumption", "waste", "adjustment"}

Amount(h) == IF h = None THEN 0 ELSE h

InStock(l) == held[l] # None /\ held[l] > 0

Init ==
    /\ held = [l \in Lots |-> None]
    /\ entries = [l \in Lots |-> [kind \in Kinds |-> 0]]

(* The amount of one lot changes, and the difference is entered.            *)
Post(l, kind) ==
    /\ held'[l] \in Nat
    /\ held' = [held EXCEPT ![l] = held'[l]]
    /\ entries' = [entries EXCEPT ![l][kind] = @ + (held'[l] - Amount(held[l]))]

(* A lot that is gone receives nothing more.                                *)
Receive(l) ==
    /\ held[l] = None \/ InStock(l)
    /\ Post(l, "intake")
    /\ held'[l] > Amount(held[l])

Recount(l) == InStock(l) /\ Post(l, "adjustment") /\ held'[l] > 0

(* A lot leaves the stock whole.                                            *)
Empty(l) ==
    /\ InStock(l)
    /\ \E kind \in Kinds \ {"intake"} : Post(l, kind)
    /\ held'[l] = 0

Next == \E l \in Lots : Receive(l) \/ Recount(l) \/ Empty(l)

Spec == Init /\ [][Next]_<<held, entries>>
=============================================================================
