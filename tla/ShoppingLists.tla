---------------------------- MODULE ShoppingLists ----------------------------
(***************************************************************************)
(* The shopping list of one household and the refusals it remembers        *)
(* (services/shopping_lists.py, the confirmation of an import in           *)
(* services/shopping_import.py), edited by concurrent requests.  One       *)
(* request is one READ COMMITTED transaction.  An update writes the        *)
(* columns whose value differs from the one the request read, and those    *)
(* only.  The repurchase proposals read and never write: they are left out.*)
(***************************************************************************)
EXTENDS Integers, Sequences, FiniteSetsExt

CONSTANTS
    Clients,      \* requests that can be in flight together
    ListIds,      \* list identifiers (bound: lists ever created)
    Products,     \* products a refusal can name
    Units,        \* unit codes
    Dimension,    \* Units -> the dimension of a unit
    Values,       \* amounts
    Requests,     \* the requests the clients may send
    None,
    Gone,         \* the mark of a removed item
    Unset,        \* a field the request leaves alone
    Unknown,      \* a product, a unit or a list of nobody's
    MaxRequests   \* bound: requests issued in the behaviour

(* The three columns of a quantity.                                         *)
NoQuantity == [value |-> None, unit |-> None, dim |-> None]
Quantity(value, unit) == [value |-> value, unit |-> unit, dim |-> Dimension[unit]]
Quantities == {NoQuantity} \cup {Quantity(v, u) : v \in Values, u \in Units}

(* ck_shopping_list_item_quantity_triplet and the foreign key to unit.      *)
Columns(q) == /\ (q.value = None) = (q.unit = None)
              /\ (q.value = None) = (q.dim = None)
              /\ q.unit # None => q.dim = Dimension[q.unit]

(* A new item: valid when its product is visible, its unit known, and it    *)
(* names something, with an amount and a unit or with neither.              *)
NewItem == [quantity : Quantities, valid : BOOLEAN]

Ops == {"read", "add", "import", "edit", "remove", "decline", "undecline"}
Idle == [op |-> None, list |-> None, items |-> <<>>, item |-> None,
         checked |-> Unset, quantity |-> Unset, products |-> <<>>]
Read == [Idle EXCEPT !.op = "read"]
Add(items) == [Idle EXCEPT !.op = "add", !.items = items]
ConfirmImport(l, items) == [Idle EXCEPT !.op = "import", !.list = l, !.items = items]
Edit(i, checked, quantity) ==
    [Idle EXCEPT !.op = "edit", !.item = i, !.checked = checked, !.quantity = quantity]
Remove(i) == [Idle EXCEPT !.op = "remove", !.item = i]
Decline(products) == [Idle EXCEPT !.op = "decline", !.products = products]
Undecline(p) == [Idle EXCEPT !.op = "undecline", !.products = <<p>>]

VARIABLES
    lists,     \* the committed live default lists
    items,     \* the items ever committed, Gone once removed
    declined,  \* the committed refusals
    tx,        \* the transaction of each client
    reply,     \* what each client was last answered
    issued     \* requests issued so far

vars == <<lists, items, declined, tx, reply, issued>>

Row == [list : ListIds, order : Nat, quantity : Quantities, checked : BOOLEAN]
ShoppingAssumption ==
    /\ MaxRequests \in Nat
    /\ Dimension \in [Units -> STRING]
    /\ None \notin Clients \cup ListIds \cup Products
    /\ None \notin Units /\ None \notin Values
    /\ Unknown \notin ListIds \cup Products /\ Unknown \notin Units
    /\ Unset \notin BOOLEAN /\ Unset \notin Quantities
    /\ None \notin Row /\ Gone \notin Row \cup {None}
    /\ \A req \in Requests :
         /\ req.op \in Ops /\ req.items \in Seq(NewItem)
         /\ req.checked \in BOOLEAN \cup {Unset}
         /\ req.quantity \in Quantities \cup {Unset} \/ req.quantity.unit = Unknown

Live(i) == i \in DOMAIN items /\ items[i] # Gone

(* read: the row the request read; wrote: what it did to it.  made: the     *)
(* list it created; refused, forgot: the refusals it inserted and deleted.  *)
IdleTx == [phase |-> "idle", req |-> Idle, list |-> None, made |-> {},
           next |-> 0, read |-> None, wrote |-> None, todo |-> <<>>,
           refused |-> {}, forgot |-> {}]

NoReply == [op |-> None, outcome |-> None]

Init ==
    /\ lists = {}
    /\ items = <<>>
    /\ declined = {}
    /\ tx = [c \in Clients |-> IdleTx]
    /\ reply = [c \in Clients |-> NoReply]
    /\ issued = 0

Answer(c, outcome) ==
    /\ reply' = [reply EXCEPT ![c] = [op |-> tx[c].req.op, outcome |-> outcome]]
    /\ tx' = [tx EXCEPT ![c] = IdleTx]
    /\ UNCHANGED issued

Rollback(c, outcome) == Answer(c, outcome) /\ UNCHANGED <<lists, items, declined>>

Go(c, t) ==
    /\ tx' = [tx EXCEPT ![c] = t]
    /\ UNCHANGED <<lists, items, declined, reply, issued>>

First(req) ==
    CASE req.op \in {"read", "add"} -> "resolve"
      [] req.op = "import" -> IF req.list = None THEN "resolve" ELSE "named"
      [] req.op \in {"edit", "remove"} -> "require"
      [] req.op = "decline" -> "decline"
      [] req.op = "undecline" -> "forget"

Begin(c, req) ==
    /\ tx[c].phase = "idle" /\ issued < MaxRequests
    /\ issued' = issued + 1
    /\ tx' = [tx EXCEPT ![c] = [IdleTx EXCEPT !.phase = First(req), !.req = req,
                                              !.todo = req.products]]
    /\ reply' = [reply EXCEPT ![c] = NoReply]
    /\ UNCHANGED <<lists, items, declined>>

-----------------------------------------------------------------------------
(* Rows written and index entries in doubt, and who waits for them.         *)

WroteItem(d, i) == tx[d].req.item = i /\ tx[d].wrote # None
InDoubt(d, p) == p \in tx[d].refused \cup tx[d].forgot

WaitsFor(c, d) ==
    LET t == tx[c]
    IN  /\ d # c
        /\ CASE t.phase = "create" -> tx[d].made # {}
             [] t.phase \in {"edit", "delete"} -> WroteItem(d, t.req.item)
             [] t.phase = "decline" -> t.todo # <<>> /\ InDoubt(d, Head(t.todo))
             [] t.phase = "forget" -> Head(t.todo) \in tx[d].forgot
             [] OTHER -> FALSE

Free(c) == \A d \in Clients : ~WaitsFor(c, d)

-----------------------------------------------------------------------------
(* resolve_current_list: the live default list, or a new one.               *)

Resolve(c) ==
    LET t == tx[c]
        next == IF t.req.op = "read" THEN "commit" ELSE "order"
    IN  \/ /\ t.phase = "resolve"
           /\ IF lists = {} THEN Go(c, [t EXCEPT !.phase = "create"])
              ELSE \E l \in lists : Go(c, [t EXCEPT !.phase = next, !.list = l])
        \/ /\ t.phase = "named"
           /\ IF t.req.list \in lists
              THEN Go(c, [t EXCEPT !.phase = next, !.list = t.req.list])
              ELSE Rollback(c, "list_not_found")

(* The INSERT waits for another first list in doubt, and fails on its       *)
(* unique index when that one is committed: nothing catches the error.      *)
CreateList(c) ==
    LET t == tx[c]
    IN  /\ t.phase = "create" /\ Free(c)
        /\ IF lists # {} THEN Rollback(c, "default_conflict")
           ELSE \E l \in ListIds :
                  Go(c, [t EXCEPT !.phase = IF t.req.op = "read" THEN "commit" ELSE "order",
                                  !.list = l, !.made = {l}])

NextSortOrder(l) ==
    LET orders == {items[i].order : i \in {j \in DOMAIN items : Live(j) /\ items[j].list = l}}
    IN  IF orders = {} THEN 0 ELSE Max(orders) + 1

(* add_items, and the confirmation of an import: the position after the     *)
(* last committed item, then every new item in turn or none.                *)
TakeOrder(c) ==
    /\ tx[c].phase = "order"
    /\ Go(c, [tx[c] EXCEPT !.phase = "build", !.next = NextSortOrder(tx[c].list)])

BuildItems(c) ==
    /\ tx[c].phase = "build"
    /\ IF \A n \in DOMAIN tx[c].req.items : tx[c].req.items[n].valid
       THEN Go(c, [tx[c] EXCEPT !.phase = "commit"])
       ELSE Rollback(c, "item_refused")

-----------------------------------------------------------------------------
(* update_item and remove_item.  _require_item locks nothing.               *)

RequireItem(c) ==
    LET t == tx[c]
    IN  /\ t.phase = "require"
        /\ IF ~Live(t.req.item) THEN Rollback(c, "item_not_found")
           ELSE Go(c, [t EXCEPT !.phase = IF t.req.op = "edit" THEN "edit" ELSE "delete",
                                !.read = items[t.req.item]])

(* What the request wants the item to be, from the row it read.             *)
Wanted(t) ==
    [t.read EXCEPT !.checked = IF t.req.checked = Unset THEN @ ELSE t.req.checked,
                   !.quantity = IF t.req.quantity = Unset THEN @ ELSE t.req.quantity]

(* A tick is a new timestamp, whether or not the item was ticked.           *)
Ticks(t) == t.req.checked # Unset /\ t.req.checked

(* Mutant: the whole row the request read is written back.                  *)
MutWrittenWhole(t, row) == Wanted(t)

(* The row after the columns that differ from those read are written to it. *)
Written(t, row) ==
    LET Column(read, wanted, now) == IF wanted = read THEN now ELSE wanted
    IN  [row EXCEPT
           !.checked = Ticks(t) \/ Column(t.read.checked, Wanted(t).checked, @),
           !.quantity = [f \in {"value", "unit", "dim"} |->
                           Column(t.read.quantity[f], Wanted(t).quantity[f], @[f])]]

NamesUnknownUnit(t) == t.req.quantity # Unset /\ t.req.quantity.unit = Unknown

(* Mutant: a row that is gone is written anew.                              *)
MutEditItemRevives(c) ==
    LET t == tx[c]
    IN  /\ t.phase = "edit" /\ Free(c)
        /\ Go(c, [t EXCEPT !.phase = "commit", !.wrote = Wanted(t)])

TickDiffers(t) == Ticks(t) \/ Wanted(t).checked # t.read.checked

(* Nothing that differs: no UPDATE.  An UPDATE that finds no row, or that   *)
(* the constraints refuse, ends the request in an error nobody catches.     *)
(* The tick is flushed by the query for the units: a unit that is unknown   *)
(* is refused with the row in hand, which the refusal gives back at once.   *)
EditItem(c) ==
    LET t == tx[c]
        i == t.req.item
    IN  /\ t.phase = "edit"
        /\ IF NamesUnknownUnit(t) /\ ~TickDiffers(t) THEN Rollback(c, "unknown_unit")
           ELSE IF ~Ticks(t) /\ Wanted(t) = t.read THEN Go(c, [t EXCEPT !.phase = "commit"])
           ELSE /\ Free(c)
                /\ IF ~Live(i) THEN Rollback(c, "stale")
                   ELSE IF NamesUnknownUnit(t) THEN Rollback(c, "unknown_unit")
                   ELSE IF Columns(Written(t, items[i]).quantity)
                   THEN Go(c, [t EXCEPT !.phase = "commit", !.wrote = Written(t, items[i])])
                   ELSE Rollback(c, "quantity_conflict")

(* Deleting a row that is gone is not an error.                             *)
DeleteItem(c) ==
    LET t == tx[c]
    IN  /\ t.phase = "delete" /\ Free(c)
        /\ Go(c, [t EXCEPT !.phase = "commit", !.wrote = IF Live(t.req.item) THEN Gone ELSE None])

-----------------------------------------------------------------------------
(* The refusals: one INSERT ... ON CONFLICT DO NOTHING for all the products *)
(* of a request, each once and in the order they were given; each waits for *)
(* another request that is inserting or deleting the same refusal.          *)

(* The foreign key to the product is looked at when all are inserted.       *)
DeclineNext(c) ==
    LET t == tx[c]
        p == Head(t.todo)
    IN  /\ t.phase = "decline" /\ Free(c)
        /\ IF t.todo # <<>>
           THEN Go(c, [t EXCEPT !.todo = Tail(@), !.refused = @ \cup ({p} \ declined)])
           ELSE IF Unknown \in t.refused THEN Rollback(c, "unknown_product")
           ELSE Go(c, [t EXCEPT !.phase = "commit"])

Forget(c) ==
    LET t == tx[c]
    IN  /\ t.phase = "forget" /\ Free(c)
        /\ Go(c, [t EXCEPT !.phase = "commit", !.forgot = {Head(t.todo)} \cap declined])

-----------------------------------------------------------------------------
(* The new items of a request, at consecutive positions.                    *)
NewRow(t, n) ==
    [list |-> t.list, order |-> t.next + n - 1, quantity |-> t.req.items[n].quantity,
     checked |-> FALSE]

ItemsAfter(t) ==
    IF t.req.op \in {"add", "import"}
    THEN items \o [n \in DOMAIN t.req.items |-> NewRow(t, n)]
    ELSE IF t.wrote # None THEN [items EXCEPT ![t.req.item] = t.wrote]
    ELSE items

Commit(c) ==
    LET t == tx[c]
    IN  /\ t.phase = "commit"
        /\ lists' = lists \cup t.made
        /\ items' = ItemsAfter(t)
        /\ declined' = (declined \cup t.refused) \ t.forgot
        /\ Answer(c, "ok")

(* The connection is lost or the process stops.                             *)
Interrupt(c) == tx[c].phase # "idle" /\ Rollback(c, "interrupted")

Deadlocked(c) ==
    \E S \in SUBSET Clients :
        /\ c \in S
        /\ \A d \in S : (\E e \in S : WaitsFor(d, e)) /\ (\E e \in S : WaitsFor(e, d))

DeadlockVictim(c) == Deadlocked(c) /\ Rollback(c, "deadlock")

Finished ==
    /\ issued = MaxRequests
    /\ \A c \in Clients : tx[c].phase = "idle"
    /\ UNCHANGED vars

Serve(c) ==
    \/ Resolve(c) \/ CreateList(c) \/ TakeOrder(c) \/ BuildItems(c)
    \/ RequireItem(c) \/ EditItem(c) \/ DeleteItem(c)
    \/ DeclineNext(c) \/ Forget(c)
    \/ Commit(c) \/ DeadlockVictim(c)

Next ==
    \/ \E c \in Clients : \E req \in Requests : Begin(c, req)
    \/ \E c \in Clients : Serve(c) \/ Interrupt(c)
    \/ Finished

Spec == Init /\ [][Next]_vars

-----------------------------------------------------------------------------

(* A tick does not undo the correction of the quantity that another phone   *)
(* made meanwhile, nor a correction the tick.                               *)
EditsDoNotUndoEachOther ==
    [][ \A c \in Clients :
          (tx[c].req.op = "edit" /\ tx[c].phase = "commit" /\ Live(tx[c].req.item)) =>
            LET was == items[tx[c].req.item]
                now == items'[tx[c].req.item]
            IN  tx'[c].phase = "idle" =>
                  /\ tx[c].req.checked = Unset => now.checked = was.checked
                  /\ tx[c].req.quantity = Unset => now.quantity = was.quantity ]_vars

(* What one phone removed does not come back because another ticked it.     *)
RemovedIsFinal ==
    [][ \A i \in DOMAIN items : items[i] = Gone => items'[i] = Gone ]_vars

=============================================================================
