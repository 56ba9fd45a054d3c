------------------------------ MODULE Inventory ------------------------------
(***************************************************************************)
(* The stock of one household: lots, the ledger of quantity movements, and *)
(* the five operations of services/inventory.py, run by concurrent         *)
(* requests.  One request is one PostgreSQL transaction at READ COMMITTED  *)
(* (infra/db.py): its writes stay private until Commit, a row it read      *)
(* FOR UPDATE stays locked until it ends, and the unique index             *)
(* uq_inventory_lot_merge_key makes a writer wait for, or lose to, another *)
(* one that claims the same merge key.                                     *)
(***************************************************************************)
EXTENDS Integers, FiniteSets

CONSTANTS
    Clients,        \* requests that can be in flight together
    Lots,           \* identifiers of inventory_lot rows
    Products, Locations,
    LocationKind,   \* [Locations -> kinds], "freezer" and "fridge" among them
    OpenedDays,     \* [Products -> Nat or None], by food family
    HomeFrozenDays, \* [Products -> Nat or None], by food family
    SoldFrozen,     \* the products of the family "frozen"
    ThawedDays,     \* the days a thawed product keeps
    Commands,       \* the requests the clients may send
    Units, Dimensions,
    Factor,         \* [Units -> Nat], the canonical units (g, ml, piece) in one
    Dimension,      \* [Units -> Dimensions], what a unit measures
    Grain,          \* the grains of a quantum
    Unknown,        \* an identifier that names nothing in this household
    Unset,          \* a field the client did not send
    None,           \* the missing date, figure or identifier
    MaxDay,         \* bound: the last day of the behaviour
    MaxRequests     \* bound: requests issued in the behaviour
                    \* (Lots is a bound too: rows that can be created)

-----------------------------------------------------------------------------
(* The two stored forms of a quantity.  Stock is counted in quanta: one     *)
(* quantum is the 0.001 the numeric columns keep.  What a client sends is   *)
(* finer than a quantum, so amounts are counted in grains.                  *)
ASSUME UnitsAssumption ==
    /\ Grain \in Nat \ {0}
    /\ Factor \in [Units -> Nat \ {0}]
    /\ Dimension \in [Units -> Dimensions]

(* Decimal.quantize(Decimal("0.001"), ROUND_HALF_UP), on a ratio n / d.     *)
RoundHalfUp(n, d) == (2 * n + d) \div (2 * d)

(* The quantity as displayed: what was typed, at three decimals.            *)
Displayed(amount) == RoundHalfUp(amount, Grain)

(* The quantity as summed: in the canonical unit of the dimension.          *)
Canonical(amount, unit) == RoundHalfUp(amount * Factor[unit], Grain)

(* A canonical quantity read back in the unit the lot already displays.     *)
InUnit(canonical, unit) == RoundHalfUp(canonical, Factor[unit])

(* A displayed quantity taken as an amount again.                           *)
AsAmount(value) == value * Grain

-----------------------------------------------------------------------------
(* When a lot becomes unfit (domain/shelf_life.py): the rule the listing    *)
(* sorts on, the freeze refusal tests and the calendar feed windows on.  A  *)
(* date is a day number; None stands for the missing date or figure.        *)
ASSUME ShelfLifeAssumption == None \notin Int /\ ThawedDays \in Nat

(* LEAST, which ignores NULL arguments and is NULL only when all are.       *)
Least(a, b) ==
    IF a = None THEN b
    ELSE IF b = None THEN a
    ELSE IF a <= b THEN a ELSE b

(* date + days, NULL as soon as either is.                                  *)
Plus(day, days) == IF day = None \/ days = None THEN None ELSE day + days

(* The order of the branches is the safety property: a lot that was frozen  *)
(* and then thawed carries both dates.                                      *)
EffectiveExpiry(bestBefore, opened, openedDays, frozen, thawed, frozenDays) ==
    CASE thawed # None -> thawed + ThawedDays
      [] thawed = None /\ frozen # None -> Plus(frozen, frozenDays)
      [] OTHER -> Least(bestBefore, Plus(opened, openedDays))

-----------------------------------------------------------------------------
MovementKinds == {"intake", "consumption", "waste", "adjustment"}
DateKinds == {"use_by", "best_before", "unknown"}
Operations == {"add", "update", "freeze", "thaw", "remove"}
Reasons == {"consumed", "wasted", "correction"}
Refusals == {"product_not_found", "location_not_found", "unknown_unit",
             "invalid_quantity", "expiry_inconsistent", "unsupported_reason",
             "already_thawed", "already_frozen", "already_expired", "not_frozen"}
Days == 0 .. MaxDay
Places == Locations \cup {None}

CommandType ==
    [op : Operations,
     lot : Lots \cup {Unknown, Unset},
     product : Products \cup {Unknown, Unset},
     loc : Places \cup {Unknown, Unset},
     unit : Units \cup {Unknown, Unset},
     amount : Nat \cup {Unset},
     bestBefore : Int \cup {None, Unset},
     kind : DateKinds \cup {Unset},
     opened : Int \cup {None, Unset},
     reason : Reasons \cup {Unknown, Unset}]

ASSUME InventoryAssumption ==
    /\ MaxDay \in Nat /\ MaxRequests \in Nat
    /\ None \notin Clients /\ None \notin Commands /\ None \notin Lots
    /\ None \notin Products \cup Locations \cup Refusals \cup DateKinds \cup MovementKinds
    /\ Unset \notin DateKinds /\ Unset # None
    /\ LocationKind \in [Locations -> STRING]
    /\ OpenedDays \in [Products -> Nat \cup {None}]
    /\ HomeFrozenDays \in [Products -> Nat \cup {None}]
    /\ SoldFrozen \subseteq Products
    /\ Unset \notin Int \cup Places \cup Units \cup {Unknown}
    /\ Unknown \notin Int \cup Places \cup Units \cup Products \cup Lots
    /\ \A cmd \in Commands :
         /\ cmd \in CommandType
         /\ cmd.op = "add" =>
              /\ Unset \notin {cmd.product, cmd.loc, cmd.unit, cmd.amount,
                               cmd.bestBefore, cmd.opened}
         /\ cmd.op # "add" => cmd.lot # Unset
         /\ cmd.op = "remove" => cmd.reason # Unset

VARIABLES
    lots,     \* the committed inventory_lot rows, None where there is none
    ledger,   \* SUM(delta_canonical) of the committed stock_movement rows
    lock,     \* the request holding each row FOR UPDATE, or None
    tx,       \* the transaction of each client
    reply,    \* what each client was last answered
    today,    \* the server's date
    issued    \* requests issued so far

vars == <<lots, ledger, lock, tx, reply, today, issued>>

-----------------------------------------------------------------------------
(* Rows.                                                                    *)

RowType ==
    [product : Products, loc : Places, dim : Dimensions, unit : Units,
     value : Int, qty : Int, bestBefore : Int \cup {None},
     kind : DateKinds, opened : Int \cup {None},
     frozen : Days \cup {None}, thawed : Days \cup {None}, active : BOOLEAN]

ASSUME RowAssumption == None \notin RowType

Active(row) == row # None /\ row.active

(* uq_inventory_lot_merge_key.  None equals None: NULLS NOT DISTINCT.       *)
MergeKey(row) == <<row.product, row.loc, row.bestBefore, row.dim>>

SameKey(row, other) ==
    Active(row) /\ Active(other) /\ MergeKey(row) = MergeKey(other)

(* ck_inventory_lot_quantity_positive, _depleted_consistency and            *)
(* _thaw_follows_freeze.                                                    *)
ChecksHold(row) ==
    /\ row.value > 0 /\ row.qty >= 0
    /\ row.active => row.qty > 0
    /\ row.frozen = None \/ row.thawed = None \/ row.thawed >= row.frozen

Expiry(row) ==
    EffectiveExpiry(row.bestBefore, row.opened, OpenedDays[row.product],
                    row.frozen, row.thawed, HomeFrozenDays[row.product])

NoMovements == [k \in MovementKinds |-> 0]
Balance(l) == ledger[l]["intake"] + ledger[l]["consumption"]
              + ledger[l]["waste"] + ledger[l]["adjustment"]

-----------------------------------------------------------------------------
(* The rules of the service that need no database.                          *)

(* _resolve_expiry_kind; "refused" is ExpiryDateInconsistentError.          *)
ResolveKind(bestBefore, requested) ==
    CASE bestBefore = None -> "unknown"
      [] bestBefore # None /\ requested = Unset -> "best_before"
      [] bestBefore # None /\ requested = "unknown" -> "refused"
      [] OTHER -> requested

RemovalKind(reason) ==
    CASE reason = "consumed" -> "consumption"
      [] reason = "wasted" -> "waste"
      [] OTHER -> "adjustment"

KnownPlace(loc) == loc \in Places \cup {Unset}

(* _to_canonical refuses what is not positive, before or after rounding.    *)
ValidQuantity(amount, unit) == amount > 0 /\ Canonical(amount, unit) > 0

(* The row an intake would create.                                          *)
Draft(cmd) ==
    [product |-> cmd.product, loc |-> cmd.loc, dim |-> Dimension[cmd.unit],
     unit |-> cmd.unit, value |-> Displayed(cmd.amount),
     qty |-> Canonical(cmd.amount, cmd.unit), bestBefore |-> cmd.bestBefore,
     kind |-> ResolveKind(cmd.bestBefore, cmd.kind), opened |-> cmd.opened,
     frozen |-> None, thawed |-> None, active |-> TRUE]

(* The refusals of add_item and remove_item that come before any lot is     *)
(* read; None when the command goes on.                                     *)
EarlyRefusal(cmd) ==
    IF cmd.op = "remove"
    THEN IF cmd.reason \in Reasons THEN None ELSE "unsupported_reason"
    ELSE IF cmd.op # "add" THEN None
    ELSE IF cmd.product \notin Products THEN "product_not_found"
    ELSE IF ~KnownPlace(cmd.loc) THEN "location_not_found"
    ELSE IF cmd.unit \notin Units THEN "unknown_unit"
    ELSE IF ~ValidQuantity(cmd.amount, cmd.unit) THEN "invalid_quantity"
    ELSE IF ResolveKind(cmd.bestBefore, cmd.kind) = "refused" THEN "expiry_inconsistent"
    ELSE None

(* What update_item takes for the fields the client left out.               *)
NewUnit(cmd, row) == IF cmd.unit = Unset THEN row.unit ELSE cmd.unit
NewAmount(cmd, row) == IF cmd.amount = Unset THEN AsAmount(row.value) ELSE cmd.amount
NewDate(cmd, row) == IF cmd.bestBefore = Unset THEN row.bestBefore ELSE cmd.bestBefore
Requantified(cmd) == cmd.amount # Unset \/ cmd.unit # Unset

(* A stored "unknown" is the absence of a preference.                       *)
NewKind(cmd, row) ==
    ResolveKind(NewDate(cmd, row),
                IF cmd.kind # Unset THEN cmd.kind
                ELSE IF row.kind = "unknown" THEN Unset ELSE row.kind)

UpdateRefusal(cmd, row) ==
    IF ~KnownPlace(cmd.loc) THEN "location_not_found"
    ELSE IF NewUnit(cmd, row) \notin Units THEN "unknown_unit"
    ELSE IF /\ Requantified(cmd)
            /\ ~ValidQuantity(NewAmount(cmd, row), NewUnit(cmd, row)) THEN "invalid_quantity"
    ELSE IF NewKind(cmd, row) = "refused" THEN "expiry_inconsistent"
    ELSE None

Requantify(cmd, row) ==
    IF Requantified(cmd)
    THEN [row EXCEPT !.value = Displayed(NewAmount(cmd, row)),
                     !.unit = NewUnit(cmd, row),
                     !.dim = Dimension[NewUnit(cmd, row)],
                     !.qty = Canonical(NewAmount(cmd, row), NewUnit(cmd, row))]
    ELSE row

Updated(cmd, row) ==
    [Requantify(cmd, row) EXCEPT
        !.loc = IF cmd.loc = Unset THEN @ ELSE cmd.loc,
        !.bestBefore = NewDate(cmd, row),
        !.kind = NewKind(cmd, row),
        !.opened = IF cmd.opened = Unset THEN @ ELSE cmd.opened]

(* The displayed pair is re-expressed in the unit already on the lot.       *)
Merged(cmd, row) ==
    LET total == row.qty + Canonical(cmd.amount, cmd.unit)
    IN  [row EXCEPT !.qty = total, !.value = InUnit(total, row.unit)]

(* Mutant: a lot that leaves the stock keeps its quantity.                  *)
MutDepletedKeepsQuantity(row) == [row EXCEPT !.active = FALSE]

(* The displayed quantity of a depleted lot keeps its last value.           *)
Depleted(row) == [row EXCEPT !.qty = 0, !.active = FALSE]

-----------------------------------------------------------------------------
(* Transactions.                                                            *)

Phases == {"idle", "find", "lock", "decide", "write", "index", "commit"}

IdleTx == [phase |-> "idle", cmd |-> None, lot |-> None, seen |-> None,
           dest |-> Unset, day |-> None, new |-> None,
           kind |-> None, delta |-> 0]

NoReply == [op |-> None, outcome |-> None]

Pending(c) == tx[c].new # None
Indexed(c) == Pending(c) /\ tx[c].phase = "commit"

(* The row a transaction may still find under a committed version: someone  *)
(* has written a newer one and not committed it.                            *)
Superseded(l) == \E d \in Clients : Pending(d) /\ tx[d].lot = l

Init ==
    /\ lots = [l \in Lots |-> None]
    /\ ledger = [l \in Lots |-> NoMovements]
    /\ lock = [l \in Lots |-> None]
    /\ tx = [c \in Clients |-> IdleTx]
    /\ reply = [c \in Clients |-> NoReply]
    /\ today = 0
    /\ issued = 0

Unlocked(c) == [l \in Lots |-> IF lock[l] = c THEN None ELSE lock[l]]

(* Every exception rolls the whole request back.                            *)
Rollback(c, outcome) ==
    /\ reply' = [reply EXCEPT ![c] = [op |-> tx[c].cmd.op, outcome |-> outcome]]
    /\ tx' = [tx EXCEPT ![c] = IdleTx]
    /\ lock' = Unlocked(c)
    /\ UNCHANGED <<lots, ledger, today, issued>>

(* Bound: identifiers are finite here, so an intake begins only when one    *)
(* is left for it.                                                          *)
RoomFor(cmd) ==
    cmd.op = "add" =>
        Cardinality({d \in Clients : tx[d].phase # "idle" /\ tx[d].cmd.op = "add"})
            < Cardinality({l \in Lots : lots[l] = None})

Begin(c, cmd) ==
    /\ tx[c].phase = "idle"
    /\ issued < MaxRequests
    /\ RoomFor(cmd)
    /\ issued' = issued + 1
    /\ LET refusal == EarlyRefusal(cmd)
       IN  IF refusal = None
           THEN /\ tx' = [tx EXCEPT ![c] = [IdleTx EXCEPT !.phase = "find", !.cmd = cmd]]
                /\ reply' = [reply EXCEPT ![c] = NoReply]
           ELSE /\ reply' = [reply EXCEPT ![c] = [op |-> cmd.op, outcome |-> refusal]]
                /\ UNCHANGED tx
    /\ UNCHANGED <<lots, ledger, lock, today>>

(* Mutant: depleted_at IS NULL is missing from the WHERE clause.            *)
MutMatchesDepleted(cmd, l) ==
    IF cmd.op = "add" THEN SameKey(lots[l], Draft(cmd))
    ELSE l = cmd.lot /\ lots[l] # None

(* The WHERE clause of the SELECT ... FOR UPDATE that each operation begins *)
(* with: find_mergeable for an intake, get_state or get_freezing_state.     *)
Matches(cmd, l) ==
    IF cmd.op = "add" THEN SameKey(lots[l], Draft(cmd))
    ELSE l = cmd.lot /\ Active(lots[l])

(* The statement's snapshot names the row, and may then wait for its lock.  *)
FindRow(c, l) ==
    /\ tx[c].phase = "find"
    /\ Matches(tx[c].cmd, l)
    /\ tx' = [tx EXCEPT ![c].phase = "lock", ![c].lot = l]
    /\ UNCHANGED <<lots, ledger, lock, reply, today, issued>>

FindNothingToMerge(c) ==
    /\ tx[c].phase = "find"
    /\ tx[c].cmd.op = "add"
    /\ \A l \in Lots : ~Matches(tx[c].cmd, l)
    /\ tx' = [tx EXCEPT ![c].phase = "write"]
    /\ UNCHANGED <<lots, ledger, lock, reply, today, issued>>

FindNoItem(c) ==
    /\ tx[c].phase = "find"
    /\ tx[c].cmd.op # "add"
    /\ \A l \in Lots : ~Matches(tx[c].cmd, l)
    /\ Rollback(c, "not_found")

(* Mutant: the row is read without FOR UPDATE.                              *)
MutLockRowUnlocked(c) ==
    LET l == tx[c].lot
        cmd == tx[c].cmd
    IN  /\ tx[c].phase = "lock"
        /\ Matches(cmd, l)
        /\ tx' = [tx EXCEPT ![c].seen = lots[l],
                            ![c].phase = IF cmd.op \in {"freeze", "thaw"}
                                         THEN "decide" ELSE "write"]
        /\ UNCHANGED <<lots, ledger, lock, reply, today, issued>>

(* Mutant: get_freezing_state reads the lot without FOR UPDATE.             *)
MutLockRowFreezing(c) ==
    LET l == tx[c].lot
        cmd == tx[c].cmd
        freezing == cmd.op \in {"freeze", "thaw"}
    IN  /\ tx[c].phase = "lock"
        /\ freezing \/ lock[l] = None
        /\ Matches(cmd, l)
        /\ lock' = IF freezing THEN lock ELSE [lock EXCEPT ![l] = c]
        /\ tx' = [tx EXCEPT ![c].seen = lots[l],
                            ![c].phase = IF freezing THEN "decide" ELSE "write"]
        /\ UNCHANGED <<lots, ledger, reply, today, issued>>

(* The lock is granted on the latest version of the row, and the WHERE      *)
(* clause is evaluated again on that version.                               *)
LockRow(c) ==
    LET l == tx[c].lot
        cmd == tx[c].cmd
    IN  /\ tx[c].phase = "lock"
        /\ lock[l] = None
        /\ Matches(cmd, l)
        /\ lock' = [lock EXCEPT ![l] = c]
        /\ tx' = [tx EXCEPT ![c].seen = lots[l],
                            ![c].phase = IF cmd.op \in {"freeze", "thaw"}
                                         THEN "decide" ELSE "write"]
        /\ UNCHANGED <<lots, ledger, reply, today, issued>>

(* The row changed while an intake waited: there is nothing to merge into,  *)
(* and the lock on the stale row is kept until the transaction ends.        *)
LockStaleRow(c) ==
    LET l == tx[c].lot
    IN  /\ tx[c].phase = "lock"
        /\ lock[l] = None
        /\ tx[c].cmd.op = "add"
        /\ ~Matches(tx[c].cmd, l)
        /\ lock' = [lock EXCEPT ![l] = c]
        /\ tx' = [tx EXCEPT ![c].lot = None, ![c].phase = "write"]
        /\ UNCHANGED <<lots, ledger, reply, today, issued>>

LockGoneItem(c) ==
    /\ tx[c].phase = "lock"
    /\ lock[tx[c].lot] = None
    /\ tx[c].cmd.op # "add"
    /\ ~Matches(tx[c].cmd, tx[c].lot)
    /\ Rollback(c, "not_found")

-----------------------------------------------------------------------------
(* Freezing and thawing decide before they write.                           *)

SoleOfKind(kind) ==
    LET found == {loc \in Locations : LocationKind[loc] = kind}
    IN  IF Cardinality(found) = 1 THEN CHOOSE loc \in found : TRUE ELSE None

(* location_holds_twin: a plain read, which locks nothing.                  *)
HoldsTwin(l, loc) ==
    \E other \in Lots \ {l} : SameKey(lots[other], [lots[l] EXCEPT !.loc = loc])

(* _relocate: Unset for UNRESOLVED, ALREADY_THERE and OCCUPIED.             *)
Destination(l, kind) ==
    LET dest == SoleOfKind(kind)
    IN  IF dest = None \/ dest = lots[l].loc \/ HoldsTwin(l, dest)
        THEN Unset ELSE dest

FreezeRefusal(row) ==
    CASE row.thawed # None -> "already_thawed"
      [] row.thawed = None /\ row.frozen # None -> "already_frozen"
      [] /\ row.thawed = None /\ row.frozen = None
         /\ Expiry(row) # None /\ Expiry(row) < today -> "already_expired"
      [] OTHER -> None

ThawRefusal(row) ==
    CASE row.thawed # None -> "already_thawed"
      [] /\ row.thawed = None /\ row.frozen = None
         /\ row.product \notin SoldFrozen -> "not_frozen"
      [] OTHER -> None

Decide(c, refusal, kind) ==
    /\ tx[c].phase = "decide"
    /\ IF refusal # None
       THEN Rollback(c, refusal)
       ELSE /\ tx' = [tx EXCEPT ![c].dest = Destination(tx[c].lot, kind),
                                ![c].day = today, ![c].phase = "write"]
            /\ UNCHANGED <<lots, ledger, lock, reply, today, issued>>

DecideFreeze(c) ==
    /\ tx[c].cmd # None /\ tx[c].cmd.op = "freeze"
    /\ Decide(c, FreezeRefusal(tx[c].seen), "freezer")

DecideThaw(c) ==
    /\ tx[c].cmd # None /\ tx[c].cmd.op = "thaw"
    /\ Decide(c, ThawRefusal(tx[c].seen), "fridge")

Refiled(row, dest) == IF dest = Unset THEN row ELSE [row EXCEPT !.loc = dest]

-----------------------------------------------------------------------------
(* Writing.  The new version of the row is flushed, with the movement that  *)
(* accompanies it; a version with a new merge key still has to enter the    *)
(* unique index.  A failed CHECK is an IntegrityError like any other, and   *)
(* the repository answers every IntegrityError as a conflict.               *)

Write(c, l, row, kind, delta) ==
    IF ChecksHold(row)
    THEN /\ tx' = [tx EXCEPT
               ![c].lot = l, ![c].new = row, ![c].kind = kind, ![c].delta = delta,
               ![c].phase = IF row.active /\ (tx[c].seen = None
                                              \/ MergeKey(row) # MergeKey(tx[c].seen))
                            THEN "index" ELSE "commit"]
         /\ lock' = [lock EXCEPT ![l] = c]
         /\ UNCHANGED <<lots, ledger, reply, today, issued>>
    ELSE Rollback(c, "conflict")

InsertLot(c, l) ==
    LET cmd == tx[c].cmd
    IN  /\ tx[c].phase = "write" /\ cmd.op = "add" /\ tx[c].seen = None
        /\ lots[l] = None /\ lock[l] = None
        /\ Write(c, l, Draft(cmd), "intake", Canonical(cmd.amount, cmd.unit))

(* Mutant: the movement records the new total instead of what came in.      *)
MutMergeRecordsTotal(c) ==
    LET cmd == tx[c].cmd
    IN  /\ tx[c].phase = "write" /\ cmd.op = "add" /\ tx[c].seen # None
        /\ Write(c, tx[c].lot, Merged(cmd, tx[c].seen), "intake",
                 Merged(cmd, tx[c].seen).qty)

MergeIntoLot(c) ==
    LET cmd == tx[c].cmd
    IN  /\ tx[c].phase = "write" /\ cmd.op = "add" /\ tx[c].seen # None
        /\ Write(c, tx[c].lot, Merged(cmd, tx[c].seen), "intake",
                 Canonical(cmd.amount, cmd.unit))

UpdateLot(c) ==
    LET cmd == tx[c].cmd
        row == tx[c].seen
        new == Updated(cmd, row)
    IN  /\ tx[c].phase = "write" /\ cmd.op = "update"
        /\ IF UpdateRefusal(cmd, row) # None
           THEN Rollback(c, UpdateRefusal(cmd, row))
           ELSE Write(c, tx[c].lot, new,
                      IF new.qty = row.qty THEN None ELSE "adjustment",
                      new.qty - row.qty)

FreezeLot(c) ==
    LET new == Refiled([tx[c].seen EXCEPT !.frozen = tx[c].day], tx[c].dest)
    IN  /\ tx[c].phase = "write" /\ tx[c].cmd.op = "freeze"
        /\ Write(c, tx[c].lot, new, None, 0)

ThawLot(c) ==
    LET new == Refiled([tx[c].seen EXCEPT !.thawed = tx[c].day], tx[c].dest)
    IN  /\ tx[c].phase = "write" /\ tx[c].cmd.op = "thaw"
        /\ Write(c, tx[c].lot, new, None, 0)

RemoveLot(c) ==
    LET row == tx[c].seen
    IN  /\ tx[c].phase = "write" /\ tx[c].cmd.op = "remove"
        /\ Write(c, tx[c].lot, Depleted(row),
                 IF row.qty = 0 THEN None ELSE RemovalKind(tx[c].cmd.reason),
                 -row.qty)

(* The unique index: an entry in doubt, added or vacated by a transaction   *)
(* that has not ended, is waited for; a settled one is a conflict.          *)
InDoubt(c, d) ==
    /\ d # c /\ Pending(d)
    /\ \/ Indexed(d) /\ SameKey(tx[c].new, tx[d].new)
       \/ SameKey(tx[c].new, lots[tx[d].lot])

Taken(c) ==
    \E l \in Lots \ {tx[c].lot} :
        SameKey(tx[c].new, lots[l]) /\ ~Superseded(l)

(* Mutant: an index entry in doubt is not waited for.                       *)
MutEnterIndexAtOnce(c) ==
    /\ tx[c].phase = "index"
    /\ ~Taken(c)
    /\ tx' = [tx EXCEPT ![c].phase = "commit"]
    /\ UNCHANGED <<lots, ledger, lock, reply, today, issued>>

EnterIndex(c) ==
    /\ tx[c].phase = "index"
    /\ \A d \in Clients : ~InDoubt(c, d)
    /\ ~Taken(c)
    /\ tx' = [tx EXCEPT ![c].phase = "commit"]
    /\ UNCHANGED <<lots, ledger, lock, reply, today, issued>>

LoseIndex(c) ==
    /\ tx[c].phase = "index"
    /\ Taken(c)
    /\ Rollback(c, "conflict")

Commit(c) ==
    LET t == tx[c]
    IN  /\ t.phase = "commit"
        /\ lots' = [lots EXCEPT ![t.lot] = t.new]
        /\ ledger' = IF t.kind = None THEN ledger
                     ELSE [ledger EXCEPT ![t.lot][t.kind] = @ + t.delta]
        /\ lock' = Unlocked(c)
        /\ tx' = [tx EXCEPT ![c] = IdleTx]
        /\ reply' = [reply EXCEPT ![c] = [op |-> t.cmd.op, outcome |-> "ok"]]
        /\ UNCHANGED <<today, issued>>

(* The connection is lost, the process stops, the client goes away.         *)
Interrupt(c) == tx[c].phase # "idle" /\ Rollback(c, "interrupted")

(* PostgreSQL ends one transaction of a cycle of waits.                     *)
WaitsFor(c, d) ==
    \/ tx[c].phase = "lock" /\ lock[tx[c].lot] = d
    \/ tx[c].phase = "index" /\ InDoubt(c, d)

Deadlocked(c) ==
    \E S \in SUBSET Clients :
        /\ c \in S
        /\ \A d \in S : (\E e \in S : WaitsFor(d, e)) /\ (\E e \in S : WaitsFor(e, d))

DeadlockVictim(c) == Deadlocked(c) /\ Rollback(c, "deadlock")

Tick ==
    /\ today < MaxDay
    /\ today' = today + 1
    /\ UNCHANGED <<lots, ledger, lock, tx, reply, issued>>

(* The bounds are reached and nobody is waiting for an answer.              *)
Finished ==
    /\ today = MaxDay
    /\ issued = MaxRequests \/ \A cmd \in Commands : ~RoomFor(cmd)
    /\ \A c \in Clients : tx[c].phase = "idle"
    /\ UNCHANGED vars

-----------------------------------------------------------------------------

(* The steps that the server takes by itself once a request has begun.      *)
Serve(c) ==
    \/ \E l \in Lots : FindRow(c, l) \/ InsertLot(c, l)
    \/ FindNothingToMerge(c) \/ FindNoItem(c)
    \/ LockRow(c) \/ LockStaleRow(c) \/ LockGoneItem(c)
    \/ DecideFreeze(c) \/ DecideThaw(c)
    \/ MergeIntoLot(c) \/ UpdateLot(c) \/ FreezeLot(c) \/ ThawLot(c) \/ RemoveLot(c)
    \/ EnterIndex(c) \/ LoseIndex(c) \/ Commit(c) \/ DeadlockVictim(c)

Next ==
    \/ \E c \in Clients : \E cmd \in Commands : Begin(c, cmd)
    \/ \E c \in Clients : Serve(c) \/ Interrupt(c)
    \/ Tick
    \/ Finished

Spec == Init /\ [][Next]_vars

-----------------------------------------------------------------------------
(* Properties.                                                              *)

TxType ==
    [phase : Phases, cmd : Commands \cup {None}, lot : Lots \cup {None},
     seen : RowType \cup {None}, dest : Locations \cup {Unset},
     day : Days \cup {None}, new : RowType \cup {None},
     kind : MovementKinds \cup {None}, delta : Int]

(* Every variable keeps the shape of the columns it stands for.             *)
TypeOK ==
    /\ lots \in [Lots -> RowType \cup {None}]
    /\ ledger \in [Lots -> [MovementKinds -> Int]]
    /\ lock \in [Lots -> Clients \cup {None}]
    /\ tx \in [Clients -> TxType]
    /\ today \in Days
    /\ issued \in 0 .. MaxRequests

(* quantity_canonical is a cache of SUM(delta_canonical), kept in the same  *)
(* transaction, and an active lot is never at zero nor a depleted one above *)
(* it (domain/models.py, StockMovement and depleted_consistency).           *)
LedgerIsTruth ==
    \A l \in Lots :
        /\ lots[l] = None => Balance(l) = 0
        /\ lots[l] # None => /\ Balance(l) = lots[l].qty
                             /\ lots[l].active <=> lots[l].qty > 0

(* What a transaction may rely on at each phase: the row it read is locked  *)
(* by it and still the committed one, and the version it is about to commit *)
(* differs from that row by exactly the movement it will record.            *)
ReadIsCurrent(c) ==
    LET t == tx[c]
    IN  t.seen # None =>
            /\ t.lot \in Lots /\ lock[t.lot] = c
            /\ lots[t.lot] = t.seen /\ t.seen.active

WriteIsAccounted(c) ==
    LET t == tx[c]
    IN  t.new # None =>
            /\ t.lot \in Lots /\ lock[t.lot] = c
            /\ t.seen = None => lots[t.lot] = None
            /\ t.new.active <=> t.new.qty > 0
            /\ t.new.qty = t.delta + (IF t.seen = None THEN 0 ELSE t.seen.qty)
            /\ t.kind = None => t.delta = 0

PhaseIsConsistent(c) ==
    LET t == tx[c]
    IN  /\ t.phase = "idle" <=> t.cmd = None
        /\ t.phase # "idle" => EarlyRefusal(t.cmd) = None
        /\ t.phase = "lock" => t.lot \in Lots
        /\ t.phase \in {"idle", "find", "lock"} => t.seen = None
        /\ t.phase = "decide" => t.seen # None
        /\ t.phase = "write" => t.seen # None \/ t.cmd.op = "add"
        /\ (t.phase = "write" /\ t.cmd.op \in {"freeze", "thaw"}) => t.day \in Days
        /\ t.phase \in {"index", "commit"} <=> t.new # None

Coherent(c) == ReadIsCurrent(c) /\ WriteIsAccounted(c) /\ PhaseIsConsistent(c)

TransactionsCoherent == \A c \in Clients : Coherent(c)

(* The same product at the same place with the same date is one active lot: *)
(* two phones adding it, or two lots moved onto each other, never leave two *)
(* (uq_inventory_lot_merge_key).                                            *)
OneLotPerMergeKey ==
    \A l, other \in Lots : l # other => ~SameKey(lots[l], lots[other])

(* No update is lost: a committed version was computed from the very        *)
(* version it replaces, read FOR UPDATE by the same request.                *)
NoLostUpdate ==
    [][\A l \in Lots : lots'[l] # lots[l] =>
          \E c \in Clients : /\ tx[c].phase = "commit" /\ tx[c].lot = l
                             /\ tx[c].seen = lots[l]]_vars

(* A depleted lot is history: neither its row nor its movements change      *)
(* again, so two phones removing it record one removal, not two.            *)
DepletedIsFinal ==
    [][\A l \in Lots : lots[l] # None /\ ~lots[l].active =>
          lots'[l] = lots[l] /\ ledger'[l] = ledger[l]]_vars

(* The clocks of a lot.  It may be put in the freezer once, if it was never *)
(* thawed and on a day it was still good, and taken out once, if it was in  *)
(* there.                                                                   *)
MayFreeze(row, day) ==
    /\ row.frozen = None /\ row.thawed = None
    /\ Expiry(row) = None \/ day <= Expiry(row)

MayThaw(row) == row.thawed = None /\ (row.frozen # None \/ row.product \in SoldFrozen)

ClocksMove(old, new, edited) ==
    /\ new.frozen # old.frozen => MayFreeze(old, new.frozen)
    /\ new.thawed # old.thawed => MayThaw(old)
    /\ Expiry(new) # Expiry(old) =>
         new.frozen # old.frozen \/ new.thawed # old.thawed \/ edited

(* No clock starts twice: whatever requests meet on a lot, over any number  *)
(* of days, its date of freezing and its date of thawing are never          *)
(* overwritten, what was thawed is not frozen again nor what has expired    *)
(* frozen, and the day it becomes unfit moves for one of these reasons or   *)
(* because a member corrected the lot (freeze_item, thaw_item).             *)
ClocksStartOnce ==
    [][\A l \in Lots : lots[l] # None =>
          ClocksMove(lots[l], lots'[l],
                     \E c \in Clients : /\ tx[c].phase = "commit" /\ tx[c].lot = l
                                        /\ tx[c].cmd.op = "update")]_vars

(* Seen from outside, requests that overlap, wait, merge, fail or are cut   *)
(* off are single operations on the stock, each entered in the ledger under *)
(* its own kind at the instant the stock changes.                           *)
Stock == INSTANCE StockLedger
             WITH held <- [l \in Lots |-> IF lots[l] = None THEN None ELSE lots[l].qty],
                  entries <- ledger

ImplementsStockLedger == Stock!Spec
=============================================================================
