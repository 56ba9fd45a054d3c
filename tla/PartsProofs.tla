------------------------------ MODULE PartsProofs ------------------------------
(***************************************************************************)
(* What is proved of the calendar feed and of the three parts of Parts,    *)
(* each for every value of its constants: the shopping lists, the          *)
(* households of one database, and the processes that read documents.      *)
(***************************************************************************)
EXTENDS CalendarFeed, Parts, FiniteSetsExt, SequenceTheorems, FiniteSetTheorems, WellFoundedInduction, TLAPS

-----------------------------------------------------------------------------
(* The shopping lists.                                                      *)


(* Numbers that do not pass a bound have a greatest one.                    *)
LEMMA MaxExists ==
    ASSUME NEW S \in SUBSET Nat, S # {}, NEW b \in Nat, \A x \in S : x <= b
    PROVE  L!Max(S) \in S /\ \A x \in S : x <= L!Max(S)
  <1> DEFINE T == {n \in Nat : \A x \in S : x <= n}
  <1>1. PICK n \in T : \A m \in T : ~(<<m, n>> \in OpToRel(<, Nat))
    <2>1. T \subseteq Nat /\ T # {}
      OBVIOUS
    <2> QED
      BY <2>1, NatLessThanWellFounded, WFMin
  <1>2. n \in Nat /\ \A x \in S : x \in Nat /\ x <= n
    BY <1>1
  <1>3. n \in S
    <2> SUFFICES ASSUME n \notin S PROVE FALSE
      OBVIOUS
    <2>1. \A x \in S : x < n
      BY <1>2
    <2>2. n - 1 \in Nat /\ \A x \in S : x <= n - 1
      <3>1. PICK y \in S : TRUE
        OBVIOUS
      <3> QED
        BY <2>1, <1>2, <3>1
    <2>3. <<n - 1, n>> \in OpToRel(<, Nat)
      BY <2>2, <1>2 DEF OpToRel
    <2> QED
      BY <1>1, <2>2, <2>3
  <1>4. \E m \in S : \A x \in S : m >= x
    BY <1>2, <1>3
  <1> QED
    BY <1>4, <1>2 DEF L!Max

Fields == {"phase", "req", "list", "made", "next", "read", "wrote", "todo", "refused", "forgot"}

(* What a request holds, phase by phase.  The columns it was not asked to   *)
(* write are still those of the committed row.                              *)
Hand(t) ==
    /\ DOMAIN t = Fields
    /\ t.phase # "idle" => t.req \in ListRequests
    /\ t.made \subseteq ListIds
    /\ t.phase \in {"resolve", "create", "named"} => t.req.op \in {"read", "add", "import"}
    /\ t.phase \in {"order", "build"} => t.req.op \in {"add", "import"} /\ t.list \in ListIds
    /\ t.phase = "build" => t.next \in Nat
    /\ t.phase = "require" => t.req.op \in {"edit", "remove"}
    /\ t.phase = "edit" => t.req.op = "edit" /\ t.read \in L!Row
    /\ t.phase = "delete" => t.req.op = "remove"
    /\ t.phase = "decline" => t.req.op = "decline"
    /\ t.phase = "forget" => t.req.op = "undecline"
    /\ t.phase = "commit" /\ t.req.op \in {"add", "import"} => t.list \in ListIds /\ t.next \in Nat
    /\ t.wrote # Nil =>
         /\ t.phase = "commit" /\ L!Live(t.req.item) /\ t.req.op \in {"edit", "remove"}
         /\ t.req.op = "remove" => t.wrote = Removed
         /\ t.req.op = "edit" =>
              /\ t.wrote \in L!Row
              /\ t.req.checked = Unset => t.wrote.checked = items[t.req.item].checked
              /\ t.req.quantity = Unset => t.wrote.quantity = items[t.req.item].quantity

(* Two requests do not write one item.                                      *)
Apart ==
    \A c, d \in Phones : c # d /\ ltx[c].wrote # Nil /\ ltx[d].wrote # Nil =>
        ltx[c].req.item # ltx[d].req.item

Bounded == \E n \in Nat : \A i \in DOMAIN items : items[i] # Removed => items[i].order <= n

Tables ==
    /\ lists \subseteq ListIds
    /\ items \in Seq(L!Row \cup {Removed})
    /\ DOMAIN ltx = Phones

ListsIInv == Tables /\ Bounded /\ Apart /\ \A c \in Phones : Hand(ltx[c])

LEMMA RequestsAreShaped ==
    ASSUME NEW req \in ListRequests
    PROVE  /\ req.op \in L!Ops /\ req.items \in Seq(L!NewItem)
           /\ req.checked \in BOOLEAN \cup {Unset}
           /\ req.quantity \in L!Quantities \cup {Unset} \/ req.quantity.unit = Nobodys
  BY ListsAssumption DEF L!ShoppingAssumption

LEMMA ListsInit == L!Init => ListsIInv
  BY DEF L!Init, ListsIInv, Tables, Bounded, Apart, Hand, L!IdleTx, Fields

(* What a request holds depends on the rows it has written and on itself.   *)
LEMMA HandStays ==
    ASSUME NEW d \in Phones, Hand(ltx[d]), UNCHANGED ltx[d],
           ltx[d].wrote # Nil => L!Live(ltx[d].req.item)' /\ items'[ltx[d].req.item] = items[ltx[d].req.item]
    PROVE  Hand(ltx[d])'
  BY DEF Hand, L!Live

(* A request that goes on, and leaves the rows alone.                       *)
LEMMA GoKeeps ==
    ASSUME ListsIInv, NEW c \in Phones, NEW t, ltx' = [ltx EXCEPT ![c] = t], UNCHANGED <<lists, items>>,
           Hand(t),
           t.wrote # Nil => \A d \in Phones \ {c} : ltx[d].wrote # Nil => ltx[d].req.item # t.req.item
    PROVE  ListsIInv'
  <1>1. ltx'[c] = t /\ (\A d \in Phones \ {c} : ltx'[d] = ltx[d]) /\ DOMAIN ltx' = Phones
    BY DEF ListsIInv, Tables
  <1>2. ASSUME NEW d \in Phones \ {c} PROVE Hand(ltx[d])'
    <2>1. Hand(ltx[d]) /\ UNCHANGED ltx[d]
      BY <1>1 DEF ListsIInv
    <2>2. ltx[d].wrote # Nil => L!Live(ltx[d].req.item)' /\ items'[ltx[d].req.item] = items[ltx[d].req.item]
      BY <2>1 DEF Hand, L!Live
    <2> QED
      BY <2>1, <2>2, HandStays
  <1>3. Hand(ltx[c])'
    BY <1>1 DEF Hand, L!Live
  <1>4. Apart'
    BY <1>1 DEF ListsIInv, Apart
  <1> QED
    BY <1>1, <1>2, <1>3, <1>4 DEF ListsIInv, Tables, Bounded

LEMMA IdleHolds == Hand(L!IdleTx) /\ L!IdleTx.wrote = Nil
  BY DEF Hand, L!IdleTx, Fields

LEMMA RollbackKeeps ==
    ASSUME ListsIInv, NEW c \in Phones, NEW outcome, L!Rollback(c, outcome)
    PROVE  ListsIInv'
  BY GoKeeps, IdleHolds DEF L!Rollback, L!Answer

LEMMA BeginKeeps ==
    ASSUME ListsIInv, NEW c \in Phones, NEW req \in ListRequests, L!Begin(c, req)
    PROVE  ListsIInv'
  <1> DEFINE t == [L!IdleTx EXCEPT !.phase = L!First(req), !.req = req, !.todo = req.products]
  <1>1. Hand(t) /\ t.wrote = Nil
    BY RequestsAreShaped DEF Hand, L!IdleTx, Fields, L!First, L!Ops
  <1> QED
    BY <1>1, GoKeeps DEF L!Begin

LEMMA ResolveKeeps ==
    ASSUME ListsIInv, NEW c \in Phones, L!Resolve(c)
    PROVE  ListsIInv'
  <1> DEFINE t == ltx[c]
             next == IF t.req.op = "read" THEN "commit" ELSE "order"
  <1>1. Hand(t) /\ lists \subseteq ListIds
    BY DEF ListsIInv, Tables
  <1>2. t.phase \in {"resolve", "named"} => t.wrote = Nil
    BY <1>1 DEF Hand
  <1>3. CASE L!Go(c, [t EXCEPT !.phase = "create"]) /\ t.phase = "resolve"
    <2>1. Hand([t EXCEPT !.phase = "create"])
      BY <1>1, <1>2, <1>3 DEF Hand, Fields
    <2> QED
      BY <1>1, <1>2, <1>3, <2>1, GoKeeps DEF L!Go, Hand, Fields
  <1>4. ASSUME NEW l \in lists, L!Go(c, [t EXCEPT !.phase = next, !.list = l]), t.phase \in {"resolve", "named"}
        PROVE  ListsIInv'
    <2>1. Hand([t EXCEPT !.phase = next, !.list = l])
      BY <1>1, <1>2, <1>4 DEF Hand, Fields
    <2> QED
      BY <1>1, <1>2, <1>4, <2>1, GoKeeps DEF L!Go, Hand, Fields
  <1> QED
    BY <1>3, <1>4, RollbackKeeps DEF L!Resolve

LEMMA CreateListKeeps ==
    ASSUME ListsIInv, NEW c \in Phones, L!CreateList(c)
    PROVE  ListsIInv'
  <1> DEFINE t == ltx[c]
             next == IF t.req.op = "read" THEN "commit" ELSE "order"
  <1>1. Hand(t) /\ t.phase = "create" /\ t.wrote = Nil
    BY DEF ListsIInv, Hand, L!CreateList
  <1>2. ASSUME NEW l \in ListIds, L!Go(c, [t EXCEPT !.phase = next, !.list = l, !.made = {l}])
        PROVE  ListsIInv'
    <2>1. Hand([t EXCEPT !.phase = next, !.list = l, !.made = {l}])
      BY <1>1, <1>2 DEF Hand, Fields
    <2> QED
      BY <1>1, <1>2, <2>1, GoKeeps DEF L!Go, Hand, Fields
  <1> QED
    BY <1>2, RollbackKeeps DEF L!CreateList

(* The position after the last one of a list is a position.                 *)
LEMMA OrdersAreNumbers ==
    ASSUME ListsIInv, NEW l
    PROVE  L!NextSortOrder(l) \in Nat
  <1> DEFINE orders == {items[i].order : i \in {j \in DOMAIN items : L!Live(j) /\ items[j].list = l}}
  <1>1. PICK n \in Nat : \A i \in DOMAIN items : items[i] # Removed => items[i].order <= n
    BY DEF ListsIInv, Bounded
  <1>2. \A i \in DOMAIN items : items[i] # Removed => items[i] \in L!Row
    BY DEF ListsIInv, Tables
  <1>3. orders \in SUBSET Nat /\ \A x \in orders : x <= n
    BY <1>1, <1>2 DEF L!Live, L!Row
  <1>4. orders # {} => L!Max(orders) \in Nat
    BY <1>3, MaxExists
  <1>5. L!NextSortOrder(l) = IF orders = {} THEN 0 ELSE L!Max(orders) + 1
    BY DEF L!NextSortOrder
  <1> QED
    BY <1>4, <1>5

LEMMA TakeOrderKeeps ==
    ASSUME ListsIInv, NEW c \in Phones, L!TakeOrder(c)
    PROVE  ListsIInv'
  <1> DEFINE t == [ltx[c] EXCEPT !.phase = "build", !.next = L!NextSortOrder(ltx[c].list)]
  <1>1. Hand(ltx[c]) /\ ltx[c].phase = "order" /\ ltx[c].wrote = Nil
    BY DEF ListsIInv, Hand, L!TakeOrder
  <1>2. Hand(t) /\ t.wrote = Nil
    BY <1>1, OrdersAreNumbers DEF Hand, Fields
  <1> QED
    BY <1>2, GoKeeps DEF L!TakeOrder, L!Go

LEMMA BuildItemsKeeps ==
    ASSUME ListsIInv, NEW c \in Phones, L!BuildItems(c)
    PROVE  ListsIInv'
  <1> DEFINE t == [ltx[c] EXCEPT !.phase = "commit"]
  <1>1. Hand(ltx[c]) /\ ltx[c].phase = "build" /\ ltx[c].wrote = Nil
    BY DEF ListsIInv, Hand, L!BuildItems
  <1>2. Hand(t) /\ t.wrote = Nil
    BY <1>1 DEF Hand, Fields
  <1> QED
    BY <1>2, GoKeeps, RollbackKeeps DEF L!BuildItems, L!Go

LEMMA RequireItemKeeps ==
    ASSUME ListsIInv, NEW c \in Phones, L!RequireItem(c)
    PROVE  ListsIInv'
  <1> DEFINE phase == IF ltx[c].req.op = "edit" THEN "edit" ELSE "delete"
             t == [ltx[c] EXCEPT !.phase = phase, !.read = items[ltx[c].req.item]]
  <1>1. Hand(ltx[c]) /\ ltx[c].phase = "require" /\ ltx[c].wrote = Nil
    BY DEF ListsIInv, Hand, L!RequireItem
  <1>2. CASE L!Live(ltx[c].req.item)
    <2>1. items[ltx[c].req.item] \in L!Row
      BY <1>2 DEF L!Live, ListsIInv, Tables
    <2>2. Hand(t) /\ t.wrote = Nil
      BY <1>1, <2>1 DEF Hand, Fields
    <2> QED
      BY <1>2, <2>2, GoKeeps DEF L!RequireItem, L!Go
  <1> QED
    BY <1>2, RollbackKeeps DEF L!RequireItem

(* The columns of a quantity are those of none, or of an amount in a unit.  *)
LEMMA ColumnsSayAQuantity ==
    ASSUME NEW q, DOMAIN q = {"value", "unit", "dim"}, q = [f \in DOMAIN q |-> q[f]],
           q.value \in Values \cup {Nil}, q.unit \in Units \cup {Nil}, L!Columns(q)
    PROVE  q \in L!Quantities
  <1>1. CASE q.value = Nil
    <2>1. q.unit = Nil /\ q.dim = Nil
      BY <1>1 DEF L!Columns
    <2>2. q = [value |-> Nil, unit |-> Nil, dim |-> Nil]
      BY <1>1, <2>1
    <2> QED
      BY <2>2 DEF L!Quantities, L!NoQuantity
  <1>2. CASE q.value # Nil
    <2>1. q.value \in Values /\ q.unit \in Units /\ q.dim = Dimension[q.unit]
      BY <1>2 DEF L!Columns
    <2>2. q = [value |-> q.value, unit |-> q.unit, dim |-> Dimension[q.unit]]
      BY <2>1
    <2> QED
      BY <2>1, <2>2 DEF L!Quantities, L!Quantity
  <1> QED
    BY <1>1, <1>2

LEMMA QuantitiesHaveColumns ==
    ASSUME NEW q \in L!Quantities
    PROVE  /\ DOMAIN q = {"value", "unit", "dim"} /\ q = [f \in DOMAIN q |-> q[f]]
           /\ q.value \in Values \cup {Nil} /\ q.unit \in Units \cup {Nil}
  BY DEF L!Quantities, L!Quantity, L!NoQuantity

(* A column that is written has the value that was wanted, and the others   *)
(* the value that is there.                                                 *)
LEMMA WrittenIsARow ==
    ASSUME NEW t, t.req \in ListRequests, t.read \in L!Row, NEW row \in L!Row,
           ~L!NamesUnknownUnit(t), L!Columns(L!Written(t, row).quantity)
    PROVE  /\ L!Written(t, row) \in L!Row
           /\ t.req.checked = Unset => L!Written(t, row).checked = row.checked
           /\ t.req.quantity = Unset => L!Written(t, row).quantity = row.quantity
  <1> DEFINE w == L!Written(t, row)
             want == L!Wanted(t)
             col(f) == IF want.quantity[f] = t.read.quantity[f] THEN row.quantity[f] ELSE want.quantity[f]
             q == [f \in {"value", "unit", "dim"} |-> col(f)]
             k == L!Ticks(t) \/ (IF want.checked = t.read.checked THEN row.checked ELSE want.checked)
  <1>1. w = [row EXCEPT !.checked = k, !.quantity = q]
    BY Zenon DEF L!Written
  <1>2. /\ t.req.checked \in BOOLEAN \cup {Unset}
        /\ t.req.quantity \in L!Quantities \cup {Unset}
    BY RequestsAreShaped DEF L!NamesUnknownUnit
  <1>3. /\ want.checked = (IF t.req.checked = Unset THEN t.read.checked ELSE t.req.checked)
        /\ want.quantity = (IF t.req.quantity = Unset THEN t.read.quantity ELSE t.req.quantity)
    BY DEF L!Wanted, L!Row
  <1>4. want.quantity \in L!Quantities /\ want.checked \in BOOLEAN
        /\ row.quantity \in L!Quantities /\ row.checked \in BOOLEAN
    BY <1>2, <1>3 DEF L!Row
  <1> HIDE DEF want
  <1>5. k \in BOOLEAN /\ (t.req.checked = Unset => k = row.checked)
    BY <1>3, <1>4 DEF L!Ticks
  <1>6. w.quantity = q /\ w.checked = k /\ w = [list |-> row.list, order |-> row.order, quantity |-> q, checked |-> k]
    BY <1>1 DEF L!Row
  <1>7. q.value = col("value") /\ q.unit = col("unit") /\ DOMAIN q = {"value", "unit", "dim"}
        /\ q = [f \in DOMAIN q |-> q[f]]
    OBVIOUS
  <1>8. q.value \in Values \cup {Nil} /\ q.unit \in Units \cup {Nil}
    BY <1>4, <1>7, QuantitiesHaveColumns
  <1>9. L!Columns(q)
    BY <1>6
  <1>10. t.req.quantity = Unset => q = row.quantity
    <2> SUFFICES ASSUME t.req.quantity = Unset PROVE q = row.quantity
      OBVIOUS
    <2>1. \A f \in {"value", "unit", "dim"} : col(f) = row.quantity[f]
      BY <1>3
    <2>2. DOMAIN row.quantity = {"value", "unit", "dim"} /\ row.quantity = [f \in DOMAIN row.quantity |-> row.quantity[f]]
      BY <1>4, QuantitiesHaveColumns
    <2> QED
      BY <2>1, <2>2
  <1> HIDE DEF q, k
  <1>11. q \in L!Quantities
    BY <1>7, <1>8, <1>9, ColumnsSayAQuantity
  <1>12. w \in L!Row
    BY <1>5, <1>6, <1>11 DEF L!Row
  <1> QED
    BY <1>5, <1>6, <1>10, <1>12

LEMMA EditItemKeeps ==
    ASSUME ListsIInv, NEW c \in Phones, L!EditItem(c)
    PROVE  ListsIInv'
  <1> DEFINE t == ltx[c]
             i == t.req.item
             done == [t EXCEPT !.phase = "commit"]
             written == [t EXCEPT !.phase = "commit", !.wrote = L!Written(t, items[i])]
  <1>1. Hand(t) /\ t.phase = "edit" /\ t.wrote = Nil /\ t.req.op = "edit" /\ t.req \in ListRequests /\ t.read \in L!Row
    BY DEF ListsIInv, Hand, L!EditItem
  <1>2. CASE L!Go(c, done)
    <2>1. Hand(done) /\ done.wrote = Nil
      BY <1>1 DEF Hand, Fields
    <2> QED
      BY <1>2, <2>1, GoKeeps DEF L!Go
  <1>3. CASE /\ ~L!NamesUnknownUnit(t) /\ L!Free(c) /\ L!Live(i)
             /\ L!Columns(L!Written(t, items[i]).quantity) /\ L!Go(c, written)
    <2>1. items[i] \in L!Row
      BY <1>3 DEF L!Live, ListsIInv, Tables
    <2>2. /\ L!Written(t, items[i]) \in L!Row
          /\ t.req.checked = Unset => L!Written(t, items[i]).checked = items[i].checked
          /\ t.req.quantity = Unset => L!Written(t, items[i]).quantity = items[i].quantity
      BY <1>1, <1>3, <2>1, WrittenIsARow
    <2>3. written.req = t.req /\ written.wrote = L!Written(t, items[i])
      BY <1>1 DEF Hand, Fields
    <2>4. Hand(written)
      BY <1>1, <1>3, <2>2, <2>3 DEF Hand, Fields
    <2>5. \A d \in Phones \ {c} : ltx[d].wrote # Nil => ltx[d].req.item # i
      BY <1>1, <1>3 DEF L!Free, L!WaitsFor, L!WroteItem
    <2> QED
      BY <1>3, <2>3, <2>4, <2>5, GoKeeps DEF L!Go
  <1> QED
    BY <1>2, <1>3, RollbackKeeps DEF L!EditItem

LEMMA DeleteItemKeeps ==
    ASSUME ListsIInv, NEW c \in Phones, L!DeleteItem(c)
    PROVE  ListsIInv'
  <1> DEFINE t == ltx[c]
             i == t.req.item
             wrote == IF L!Live(i) THEN Removed ELSE Nil
             written == [t EXCEPT !.phase = "commit", !.wrote = wrote]
  <1>1. Hand(t) /\ t.phase = "delete" /\ t.wrote = Nil /\ t.req.op = "remove"
    BY DEF ListsIInv, Hand, L!DeleteItem
  <1>2. written.req = t.req /\ written.wrote = wrote
    BY <1>1 DEF Hand, Fields
  <1>3. Hand(written)
    BY <1>1, <1>2 DEF Hand, Fields
  <1>4. \A d \in Phones \ {c} : ltx[d].wrote # Nil => ltx[d].req.item # i
    BY <1>1 DEF L!DeleteItem, L!Free, L!WaitsFor, L!WroteItem
  <1> QED
    BY <1>2, <1>3, <1>4, GoKeeps DEF L!DeleteItem, L!Go

LEMMA DeclineNextKeeps ==
    ASSUME ListsIInv, NEW c \in Phones, L!DeclineNext(c)
    PROVE  ListsIInv'
  <1> DEFINE t == ltx[c]
             next == [t EXCEPT !.todo = Tail(@), !.refused = @ \cup ({Head(t.todo)} \ declined)]
             done == [t EXCEPT !.phase = "commit"]
  <1>1. Hand(t) /\ t.phase = "decline" /\ t.wrote = Nil
    BY DEF ListsIInv, Hand, L!DeclineNext
  <1>2. Hand(next) /\ next.wrote = Nil /\ Hand(done) /\ done.wrote = Nil
    BY <1>1 DEF Hand, Fields
  <1> QED
    BY <1>2, GoKeeps, RollbackKeeps DEF L!DeclineNext, L!Go

LEMMA ForgetKeeps ==
    ASSUME ListsIInv, NEW c \in Phones, L!Forget(c)
    PROVE  ListsIInv'
  <1> DEFINE t == [ltx[c] EXCEPT !.phase = "commit", !.forgot = {Head(ltx[c].todo)} \cap declined]
  <1>1. Hand(ltx[c]) /\ ltx[c].phase = "forget" /\ ltx[c].wrote = Nil
    BY DEF ListsIInv, Hand, L!Forget
  <1>2. Hand(t) /\ t.wrote = Nil
    BY <1>1 DEF Hand, Fields
  <1> QED
    BY <1>2, GoKeeps DEF L!Forget, L!Go

(* What a commit leaves of the rows: those of nobody else are touched.      *)
LEMMA CommitWritesItsOwn ==
    ASSUME ListsIInv, NEW c \in Phones, L!Commit(c)
    PROVE  /\ items' \in Seq(L!Row \cup {Removed}) /\ Bounded'
           /\ DOMAIN items \subseteq DOMAIN items'
           /\ \A i \in DOMAIN items :
                items'[i] = IF ltx[c].wrote # Nil /\ i = ltx[c].req.item THEN ltx[c].wrote ELSE items[i]
  <1> DEFINE t == ltx[c]
             new == [n \in DOMAIN t.req.items |-> L!NewRow(t, n)]
  <1>1. Hand(t) /\ t.phase = "commit" /\ items \in Seq(L!Row \cup {Removed}) /\ t.req \in ListRequests
    BY DEF ListsIInv, Tables, Hand, L!Commit
  <1>2. PICK b \in Nat : \A i \in DOMAIN items : items[i] # Removed => items[i].order <= b
    BY DEF ListsIInv, Bounded
  <1>3. CASE t.req.op \in {"add", "import"}
    <2>1. t.wrote = Nil /\ t.next \in Nat /\ t.list \in ListIds /\ t.req.items \in Seq(L!NewItem)
      BY <1>1, <1>3, RequestsAreShaped DEF Hand
    <2>2. PICK len \in Nat : DOMAIN t.req.items = 1..len
      BY <2>1
    <2>3. ASSUME NEW n \in 1..len
          PROVE  L!NewRow(t, n) \in L!Row /\ L!NewRow(t, n).order <= t.next + len
      <3>1. n \in DOMAIN t.req.items /\ t.req.items[n] \in L!NewItem
        BY <2>1, <2>2
      <3>2. t.req.items[n].quantity \in L!Quantities
        BY <3>1 DEF L!NewItem
      <3>3. t.next + n - 1 \in Nat /\ t.next + n - 1 <= t.next + len
        BY <2>1
      <3> QED
        BY <2>1, <3>2, <3>3 DEF L!NewRow, L!Row
    <2>4. new \in Seq(L!Row) /\ Len(new) = len
      BY <2>2, <2>3
    <2>5. items' = items \o new
      BY <1>3 DEF L!Commit, L!ItemsAfter
    <2> HIDE DEF new
    <2>6. /\ items' \in Seq(L!Row \cup {Removed})
          /\ Len(items') = Len(items) + len
          /\ \A i \in 1..Len(items) : items'[i] = items[i]
          /\ \A i \in 1..len : items'[Len(items) + i] = new[i]
      <3> DEFINE Any == L!Row \cup {Removed}
      <3>1. items \in Seq(Any) /\ new \in Seq(Any)
        BY <1>1, <2>4
      <3> HIDE DEF Any
      <3>2. /\ items' \in Seq(Any) /\ Len(items') = Len(items) + Len(new)
            /\ \A i \in 1..Len(items) + Len(new) :
                 items'[i] = IF i <= Len(items) THEN items[i] ELSE new[i - Len(items)]
        BY <2>5, <3>1, ConcatProperties
      <3>3. Len(items) \in Nat /\ Len(new) = len
        BY <2>4, <3>1
      <3>4. items' \in Seq(L!Row \cup {Removed})
        BY <3>2 DEF Any
      <3>5. ASSUME NEW i \in 1..Len(items) PROVE items'[i] = items[i]
        <4>1. i \in 1..Len(items) + Len(new) /\ i <= Len(items)
          BY <3>3
        <4> QED
          BY <3>2, <4>1
      <3>6. ASSUME NEW i \in 1..len PROVE items'[Len(items) + i] = new[i]
        <4>1. /\ Len(items) + i \in 1..Len(items) + Len(new)
              /\ ~ (Len(items) + i <= Len(items)) /\ Len(items) + i - Len(items) = i
          BY <3>3
        <4> QED
          BY <3>2, <4>1
      <3> QED
        BY <3>2, <3>3, <3>4, <3>5, <3>6
    <2>7. \A i \in DOMAIN items' : items'[i] # Removed => items'[i].order <= b + t.next + len
      <3> SUFFICES ASSUME NEW i \in DOMAIN items', items'[i] # Removed
                   PROVE  items'[i].order <= b + t.next + len
        OBVIOUS
      <3>1. CASE i \in DOMAIN items
        <4>1. items[i] \in L!Row /\ items'[i] = items[i]
          BY <1>1, <2>6, <3>1
        <4> QED
          BY <1>2, <2>1, <3>1, <4>1 DEF L!Row
      <3>2. CASE i \notin DOMAIN items
        <4>1. i - Len(items) \in 1..len /\ i = Len(items) + (i - Len(items))
          BY <1>1, <2>6, <3>2
        <4>2. items'[i] = L!NewRow(t, i - Len(items))
          BY <2>2, <2>6, <4>1 DEF new
        <4> QED
          BY <2>1, <2>3, <4>1, <4>2 DEF L!Row
      <3> QED
        BY <3>1, <3>2
    <2>8. Bounded'
      <3>1. b + t.next + len \in Nat
        BY <2>1
      <3> QED
        BY <2>7, <3>1 DEF Bounded
    <2>9. DOMAIN items = 1..Len(items) /\ DOMAIN items \subseteq DOMAIN items'
      BY <1>1, <2>6
    <2> QED
      BY <2>1, <2>6, <2>8, <2>9
  <1>4. CASE t.req.op \notin {"add", "import"} /\ t.wrote # Nil
    <2>1. t.req.item \in DOMAIN items /\ t.wrote \in L!Row \cup {Removed}
      BY <1>1, <1>4 DEF Hand, L!Live
    <2>2. items' = [items EXCEPT ![t.req.item] = t.wrote]
      BY <1>4 DEF L!Commit, L!ItemsAfter
    <2>3. items' \in Seq(L!Row \cup {Removed}) /\ DOMAIN items' = DOMAIN items
      BY <1>1, <2>1, <2>2
    <2>4. \A i \in DOMAIN items : items'[i] = IF i = t.req.item THEN t.wrote ELSE items[i]
      BY <2>2
    <2>5. Bounded'
      <3>1. CASE t.wrote = Removed
        BY <1>2, <2>3, <2>4, <3>1 DEF Bounded
      <3>2. CASE t.wrote \in L!Row
        <4>1. t.wrote.order \in Nat
          BY <3>2 DEF L!Row
        <4>2. \A i \in DOMAIN items' : items'[i] # Removed => items'[i].order <= b + t.wrote.order
          <5> SUFFICES ASSUME NEW i \in DOMAIN items, items'[i] # Removed
                       PROVE  items'[i].order <= b + t.wrote.order
            BY <2>3
          <5>1. i = t.req.item \/ (items'[i] = items[i] /\ items[i] \in L!Row /\ items[i].order <= b)
            BY <1>1, <1>2, <2>4
          <5> QED
            BY <2>4, <4>1, <5>1 DEF L!Row
        <4> QED
          BY <4>1, <4>2 DEF Bounded
      <3> QED
        BY <2>1, <3>1, <3>2
    <2> QED
      BY <1>4, <2>3, <2>4, <2>5
  <1>5. CASE t.req.op \notin {"add", "import"} /\ t.wrote = Nil
    <2>1. items' = items
      BY <1>5 DEF L!Commit, L!ItemsAfter
    <2>2. Bounded'
      BY <1>2, <2>1 DEF Bounded
    <2>3. items' \in Seq(L!Row \cup {Removed}) /\ DOMAIN items \subseteq DOMAIN items'
      BY <1>1, <2>1
    <2> QED
      BY <1>1, <1>5, <2>1, <2>2
  <1> QED
    BY <1>3, <1>4, <1>5

LEMMA CommitKeeps ==
    ASSUME ListsIInv, NEW c \in Phones, L!Commit(c)
    PROVE  ListsIInv'
  <1>1. /\ items' \in Seq(L!Row \cup {Removed}) /\ Bounded'
        /\ DOMAIN items \subseteq DOMAIN items'
        /\ \A i \in DOMAIN items :
             items'[i] = IF ltx[c].wrote # Nil /\ i = ltx[c].req.item THEN ltx[c].wrote ELSE items[i]
    BY CommitWritesItsOwn
  <1>2. ltx'[c] = L!IdleTx /\ (\A d \in Phones \ {c} : ltx'[d] = ltx[d]) /\ DOMAIN ltx' = Phones
    BY DEF ListsIInv, Tables, L!Commit, L!Answer
  <1>3. lists' \subseteq ListIds
    BY DEF ListsIInv, Tables, Hand, L!Commit
  <1>4. ASSUME NEW d \in Phones \ {c} PROVE Hand(ltx[d])'
    <2>1. Hand(ltx[d]) /\ UNCHANGED ltx[d]
      BY <1>2 DEF ListsIInv
    <2>2. ASSUME ltx[d].wrote # Nil
          PROVE  L!Live(ltx[d].req.item)' /\ items'[ltx[d].req.item] = items[ltx[d].req.item]
      <3>1. L!Live(ltx[d].req.item)
        BY <2>1, <2>2 DEF Hand
      <3>2. ~(ltx[c].wrote # Nil /\ ltx[d].req.item = ltx[c].req.item)
        BY <2>2 DEF ListsIInv, Apart
      <3> QED
        BY <1>1, <2>1, <3>1, <3>2 DEF L!Live
    <2> QED
      BY <2>1, <2>2, HandStays
  <1>5. Hand(ltx[c])'
    BY <1>2, IdleHolds DEF Hand
  <1>6. Apart'
    BY <1>2, IdleHolds DEF ListsIInv, Apart
  <1> QED
    BY <1>1, <1>2, <1>3, <1>4, <1>5, <1>6 DEF ListsIInv, Tables

LEMMA ListsNext == ListsIInv /\ [L!Next]_(L!vars) => ListsIInv'
  <1> SUFFICES ASSUME ListsIInv, [L!Next]_(L!vars) PROVE ListsIInv'
    OBVIOUS
  <1>1. CASE UNCHANGED L!vars
    <2>1. UNCHANGED <<lists, items, ltx>>
      BY <1>1 DEF L!vars
    <2>2. \A d \in Phones : Hand(ltx[d])'
      <3> SUFFICES ASSUME NEW d \in Phones PROVE Hand(ltx[d])'
        OBVIOUS
      <3>1. Hand(ltx[d]) /\ UNCHANGED ltx[d]
        BY <2>1 DEF ListsIInv
      <3>2. ltx[d].wrote # Nil => L!Live(ltx[d].req.item)' /\ items'[ltx[d].req.item] = items[ltx[d].req.item]
        BY <2>1, <3>1 DEF Hand, L!Live
      <3> QED
        BY <3>1, <3>2, HandStays
    <2> QED
      BY <2>1, <2>2 DEF ListsIInv, Tables, Bounded, Apart
  <1>2. ASSUME NEW c \in Phones, L!Serve(c) PROVE ListsIInv'
    BY <1>2, ResolveKeeps, CreateListKeeps, TakeOrderKeeps, BuildItemsKeeps, RequireItemKeeps, EditItemKeeps,
       DeleteItemKeeps, DeclineNextKeeps, ForgetKeeps, CommitKeeps, RollbackKeeps DEF L!Serve, L!DeadlockVictim
  <1>3. ASSUME NEW c \in Phones, L!Interrupt(c) PROVE ListsIInv'
    BY <1>3, RollbackKeeps DEF L!Interrupt
  <1>4. ASSUME NEW c \in Phones, NEW req \in ListRequests, L!Begin(c, req) PROVE ListsIInv'
    BY <1>4, BeginKeeps
  <1> QED
    BY <1>1, <1>2, <1>3, <1>4 DEF L!Next, L!Finished

(* The rows change with a commit only.                                      *)
LEMMA RowsChangeAtCommit ==
    ASSUME [L!Next]_(L!vars), items' # items
    PROVE  \E c \in Phones : L!Commit(c)
  BY DEF L!Next, L!vars, L!Finished, L!Begin, L!Interrupt, L!Serve, L!Rollback, L!Go, L!Resolve, L!CreateList,
         L!TakeOrder, L!BuildItems, L!RequireItem, L!EditItem, L!DeleteItem, L!DeclineNext, L!Forget, L!DeadlockVictim

LEMMA RemovedStays ==
    ASSUME ListsIInv, [L!Next]_(L!vars), NEW i \in DOMAIN items, items[i] = Removed
    PROVE  items'[i] = Removed
  <1>1. ASSUME NEW c \in Phones, L!Commit(c) PROVE items'[i] = Removed
    <2>1. ~(ltx[c].wrote # Nil /\ i = ltx[c].req.item)
      BY DEF ListsIInv, Hand, L!Live
    <2> QED
      BY <1>1, <2>1, CommitWritesItsOwn
  <1> QED
    BY <1>1, RowsChangeAtCommit

(* What an edit was not asked to change is as it is when it commits.        *)
LEMMA EditKeepsTheRest ==
    ASSUME ListsIInv, [L!Next]_(L!vars), NEW c \in Phones, ltx[c].req.op = "edit",
           ltx[c].phase = "commit", L!Live(ltx[c].req.item), ltx'[c].phase = "idle"
    PROVE  LET was == items[ltx[c].req.item]
               now == items'[ltx[c].req.item]
           IN  /\ ltx[c].req.checked = Unset => now.checked = was.checked
               /\ ltx[c].req.quantity = Unset => now.quantity = was.quantity
  <1> DEFINE i == ltx[c].req.item
  <1>1. CASE items' = items
    BY <1>1
  <1>2. ASSUME NEW d \in Phones, L!Commit(d), d # c PROVE FALSE
    BY <1>2 DEF ListsIInv, Tables, L!Commit, L!Answer
  <1>3. CASE L!Commit(c)
    <2>1. items'[i] = IF ltx[c].wrote # Nil THEN ltx[c].wrote ELSE items[i]
      BY <1>3, CommitWritesItsOwn DEF L!Live
    <2>2. Hand(ltx[c])
      BY DEF ListsIInv
    <2> QED
      BY <2>1, <2>2 DEF Hand
  <1> QED
    BY <1>1, <1>2, <1>3, RowsChangeAtCommit

(* What one phone removed does not come back because another ticked it.     *)
THEOREM RemovedItemsStayRemoved == L!Spec => RemovedIsFinal
  <1>1. ListsIInv /\ [L!Next]_(L!vars) =>
          [\A i \in DOMAIN items : items[i] = Removed => items'[i] = Removed]_(L!vars)
    BY RemovedStays
  <1> QED
    BY <1>1, ListsInit, ListsNext, PTL DEF L!Spec, L!RemovedIsFinal, RemovedIsFinal

(* A tick does not undo the correction of the quantity that another phone   *)
(* made meanwhile, nor a correction the tick: what an edit was not asked to *)
(* change is, when it commits, as whoever wrote it last left it.            *)
THEOREM EditsKeepWhatOthersWrote == L!Spec => EditsDoNotUndoEachOther
  <1> DEFINE Kept ==
        \A c \in Phones :
          (ltx[c].req.op = "edit" /\ ltx[c].phase = "commit" /\ L!Live(ltx[c].req.item)) =>
            LET was == items[ltx[c].req.item]
                now == items'[ltx[c].req.item]
            IN  ltx'[c].phase = "idle" =>
                  /\ ltx[c].req.checked = Unset => now.checked = was.checked
                  /\ ltx[c].req.quantity = Unset => now.quantity = was.quantity
  <1>1. ListsIInv /\ [L!Next]_(L!vars) => [Kept]_(L!vars)
    BY EditKeepsTheRest
  <1> QED
    BY <1>1, ListsInit, ListsNext, PTL DEF L!Spec, L!EditsDoNotUndoEachOther, EditsDoNotUndoEachOther

-----------------------------------------------------------------------------
(* The households of one database.                                          *)


SessionFields == {"phase", "req", "conn", "ctx", "posted", "put", "cut", "saved", "steps",
                  "granted", "saw", "wrote", "whole"}

(* A request that goes by household h: the session will post it, or has     *)
(* posted it and it is in force, at every level but the one under a         *)
(* SAVEPOINT that went out before anything was posted: its request ends     *)
(* when that level comes back.                                              *)
GoesBy(t, s, h) ==
    \/ t.posted = Nil /\ t.ctx = h /\ (t.saved # Nil => t.req.op = "create")
    \/ /\ t.posted = h /\ t.ctx \in {Nil, h}
       /\ s[Len(s)] = h
       /\ t.saved # Nil /\ t.req.op # "create" => s[1] = h

(* A request that is under way, and the settings of its connection.         *)
Session(t, s) ==
    /\ DOMAIN t = SessionFields
    /\ t.phase \in {"resolve", "work", "refused"}
    /\ t.req \in Asks /\ t.conn \in Conns
    /\ t.put \subseteq H!Rows /\ t.cut \subseteq H!Rows
    /\ t.saved # Nil => t.saved.put \subseteq H!Rows /\ t.saved.cut \subseteq H!Rows
    /\ s \in Seq(Households \cup {Newborn, Nil})
    /\ Len(s) = IF t.saved = Nil THEN 1 ELSE 2
    /\ t.phase = "resolve" => /\ t.ctx = Nil /\ t.posted = Nil /\ t.granted = Nil /\ t.saved = Nil
                              /\ s = <<Nil>>
    /\ t.phase # "resolve" => t.granted \in t.req.proves \cup {Newborn}
    /\ t.phase = "refused" => t.saved = Nil
    /\ t.phase = "work" => GoesBy(t, s, t.granted)

(* What it has reached.                                                     *)
Reached(t) ==
    /\ t.saw \cup t.wrote \subseteq (IF t.granted = Nil THEN {} ELSE {t.granted, Public})
    /\ t.whole
    /\ <<"product", Public>> \notin t.cut
    /\ t.saved # Nil => <<"product", Public>> \notin t.saved.cut

Busy == \E c \in Callers : rtx[c].phase # "idle"

(* An instance serves only what it verified, and no migration undoes it.    *)
Verified ==
    /\ instance \in [env : H!Environments, role : H!Roles, state : {"stopped", "started", "ready"}]
    /\ revision \in Int \cup {Nil}
    /\ instance.state = "ready" \/ Busy => H!Serviceable /\ H!Safe

(* A connection is lent to one request at a time, and comes back without a  *)
(* household.                                                               *)
Lent ==
    /\ DOMAIN rtx = Callers /\ DOMAIN guc = Conns
    /\ \A c \in Callers : rtx[c].phase = "idle" => rtx[c] = H!IdleTx
    /\ \A c, d \in Callers : c # d /\ rtx[c].phase # "idle" => rtx[d].conn # rtx[c].conn
    /\ \A n \in Conns : (\A c \in Callers : rtx[c].conn # n) => guc[n] = <<Nil>>

TenancyIInv ==
    /\ Verified
    /\ Lent
    /\ rows \subseteq H!Rows
    /\ \A c \in Callers : rtx[c].phase # "idle" =>
         /\ Session(rtx[c], guc[rtx[c].conn])
         /\ H!RequiresRowLevelSecurity => Reached(rtx[c])

LEMMA TenancyInit == H!TenancyAssumption /\ H!Init => TenancyIInv
  <1> SUFFICES ASSUME H!Init PROVE TenancyIInv
    OBVIOUS
  <1>1. \A c \in Callers : rtx[c] = H!IdleTx /\ rtx[c].phase = "idle"
    BY DEF H!Init, H!IdleTx
  <1>2. Verified
    BY <1>1 DEF H!Init, Verified, Busy, H!Required
  <1>3. Lent
    BY <1>1 DEF H!Init, Lent, H!Unposted
  <1> QED
    BY <1>1, <1>2, <1>3 DEF H!Init, TenancyIInv

(* A request takes a step on its connection.                                *)
LEMMA SessionKeeps ==
    ASSUME TenancyIInv, NEW c \in Callers, rtx[c].phase # "idle", NEW t, NEW s,
           rtx' = [rtx EXCEPT ![c] = t], DOMAIN guc' = DOMAIN guc, guc'[rtx[c].conn] = s,
           \A n \in Conns \ {rtx[c].conn} : guc'[n] = guc[n],
           t.conn = rtx[c].conn, Session(t, s), H!RequiresRowLevelSecurity => Reached(t),
           rows' \subseteq H!Rows, UNCHANGED <<instance, reachable, revision>>
    PROVE  TenancyIInv'
  <1>1. /\ rtx'[c] = t /\ (\A d \in Callers \ {c} : rtx'[d] = rtx[d]) /\ DOMAIN rtx' = Callers
        /\ t.phase # "idle" /\ rtx[c].conn \in Conns
    BY DEF TenancyIInv, Lent, Session
  <1>2. guc'[rtx[c].conn] = s /\ (\A n \in Conns \ {rtx[c].conn} : guc'[n] = guc[n]) /\ DOMAIN guc' = Conns
    BY <1>1 DEF TenancyIInv, Lent
  <1>3. Verified'
    BY <1>1 DEF TenancyIInv, Verified, Busy, H!Serviceable, H!Safe, H!RequiresRowLevelSecurity, H!Enforced
  <1>4. Lent'
    <2>1. \A d \in Callers : rtx'[d].phase = "idle" => rtx'[d] = H!IdleTx
      BY <1>1 DEF TenancyIInv, Lent
    <2>2. \A d, e \in Callers : d # e /\ rtx'[d].phase # "idle" => rtx'[e].conn # rtx'[d].conn
      BY <1>1 DEF TenancyIInv, Lent
    <2>3. \A n \in Conns : (\A d \in Callers : rtx'[d].conn # n) => guc'[n] = <<Nil>>
      BY <1>1, <1>2 DEF TenancyIInv, Lent
    <2> QED
      BY <1>1, <1>2, <2>1, <2>2, <2>3 DEF Lent
  <1>5. H!RequiresRowLevelSecurity' <=> H!RequiresRowLevelSecurity
    BY DEF H!RequiresRowLevelSecurity
  <1>6. ASSUME NEW d \in Callers, rtx'[d].phase # "idle"
        PROVE  Session(rtx'[d], guc'[rtx'[d].conn]) /\ (H!RequiresRowLevelSecurity' => Reached(rtx'[d]))
    <2>1. CASE d = c
      BY <1>1, <1>2, <1>5, <2>1
    <2>2. CASE d # c
      <3>1. rtx'[d] = rtx[d] /\ rtx[d].conn # rtx[c].conn /\ rtx[d].conn \in Conns
        BY <1>1, <1>6, <2>2 DEF TenancyIInv, Lent, Session
      <3> QED
        BY <1>2, <1>5, <1>6, <3>1 DEF TenancyIInv
    <2> QED
      BY <2>1, <2>2
  <1>7. \A d \in Callers : (rtx[d].phase # "idle" =>
         /\ Session(rtx[d], guc[rtx[d].conn])
         /\ H!RequiresRowLevelSecurity => Reached(rtx[d]))'
    BY <1>6 DEF Session, Reached, GoesBy
  <1> QED
    BY <1>3, <1>4, <1>7 DEF TenancyIInv

(* The end of a request: the setting is restored, and the connection is     *)
(* back.                                                                    *)
LEMMA EndKeeps ==
    ASSUME TenancyIInv, NEW c \in Callers, rtx[c].phase # "idle", H!End(c),
           rows' \subseteq H!Rows
    PROVE  TenancyIInv'
  <1> DEFINE n == rtx[c].conn
  <1>1. n \in Conns /\ guc' = [guc EXCEPT ![n] = <<Nil>>] /\ rtx' = [rtx EXCEPT ![c] = H!IdleTx]
        /\ UNCHANGED <<instance, reachable, revision>>
    BY DEF TenancyIInv, Session, H!End, H!Restored, H!Unposted, H!Same
  <1>2. /\ rtx'[c] = H!IdleTx /\ (\A d \in Callers \ {c} : rtx'[d] = rtx[d]) /\ DOMAIN rtx' = Callers
        /\ H!IdleTx.phase = "idle" /\ H!IdleTx.conn = Nil
    BY <1>1 DEF TenancyIInv, Lent, H!IdleTx
  <1>3. guc'[n] = <<Nil>> /\ (\A m \in Conns \ {n} : guc'[m] = guc[m]) /\ DOMAIN guc' = Conns
    BY <1>1 DEF TenancyIInv, Lent
  <1>4. Verified'
    BY <1>1, <1>2 DEF TenancyIInv, Verified, Busy, H!Serviceable, H!Safe, H!RequiresRowLevelSecurity, H!Enforced
  <1>5. Lent'
    <2>1. \A d \in Callers : rtx'[d].phase = "idle" => rtx'[d] = H!IdleTx
      BY <1>2 DEF TenancyIInv, Lent
    <2>2. \A d, e \in Callers : d # e /\ rtx'[d].phase # "idle" => rtx'[e].conn # rtx'[d].conn
      <3> SUFFICES ASSUME NEW d \in Callers, NEW e \in Callers, d # e, rtx'[d].phase # "idle"
                   PROVE  rtx'[e].conn # rtx'[d].conn
        OBVIOUS
      <3>1. d # c /\ rtx'[d] = rtx[d] /\ rtx[d].conn \in Conns
        BY <1>2 DEF TenancyIInv, Session
      <3> QED
        BY HouseholdsAssumption, <1>2, <3>1 DEF TenancyIInv, Lent, H!TenancyAssumption
    <2>3. \A m \in Conns : (\A d \in Callers : rtx'[d].conn # m) => guc'[m] = <<Nil>>
      <3> SUFFICES ASSUME NEW m \in Conns \ {n}, \A d \in Callers : rtx'[d].conn # m
                   PROVE  guc'[m] = <<Nil>>
        BY <1>3
      <3>1. \A d \in Callers : rtx[d].conn # m
        BY <1>2
      <3> QED
        BY <1>3, <3>1 DEF TenancyIInv, Lent
    <2> QED
      BY <1>2, <1>3, <2>1, <2>2, <2>3 DEF Lent
  <1>6. H!RequiresRowLevelSecurity' <=> H!RequiresRowLevelSecurity
    BY <1>1 DEF H!RequiresRowLevelSecurity
  <1>7. ASSUME NEW d \in Callers, rtx'[d].phase # "idle"
        PROVE  Session(rtx'[d], guc'[rtx'[d].conn]) /\ (H!RequiresRowLevelSecurity' => Reached(rtx'[d]))
    <2>1. d # c /\ rtx'[d] = rtx[d]
      BY <1>2, <1>7
    <2>2. rtx[d].conn # n /\ rtx[d].conn \in Conns
      BY <1>7, <2>1 DEF TenancyIInv, Lent, Session
    <2> QED
      BY <1>3, <1>6, <1>7, <2>1, <2>2 DEF TenancyIInv
  <1>8. \A d \in Callers : (rtx[d].phase # "idle" =>
         /\ Session(rtx[d], guc[rtx[d].conn])
         /\ H!RequiresRowLevelSecurity => Reached(rtx[d]))'
    BY <1>7 DEF Session, Reached, GoesBy
  <1> QED
    BY <1>4, <1>5, <1>8 DEF TenancyIInv

LEMMA TenancyRollbackKeeps ==
    ASSUME TenancyIInv, NEW c \in Callers, H!Rollback(c)
    PROVE  TenancyIInv'
  BY EndKeeps DEF H!Rollback, TenancyIInv

LEMMA TenancyCommitKeeps ==
    ASSUME TenancyIInv, NEW c \in Callers, H!Commit(c)
    PROVE  TenancyIInv'
  <1>1. rtx[c].put \subseteq H!Rows /\ rows \subseteq H!Rows
    BY DEF TenancyIInv, Session, H!Commit
  <1> QED
    BY <1>1, EndKeeps DEF H!Commit, H!View

(* Every transaction ends with the process or with the database.            *)
LEMMA AllEndKeeps ==
    ASSUME TenancyIInv, rtx' = [c \in Callers |-> H!IdleTx], guc' = [n \in Conns |-> <<H!Unposted>>],
           UNCHANGED <<revision, rows>>,
           \/ UNCHANGED instance
           \/ instance' \in [env : {instance.env}, role : H!Roles, state : {"stopped"}]
    PROVE  TenancyIInv'
  <1>1. \A c \in Callers : rtx'[c] = H!IdleTx /\ rtx'[c].phase = "idle"
    BY DEF H!IdleTx
  <1>2. Verified'
    <2>1. ~Busy'
      BY <1>1 DEF Busy
    <2>2. CASE UNCHANGED instance
      BY <2>1, <2>2 DEF TenancyIInv, Verified, H!Serviceable, H!Safe, H!RequiresRowLevelSecurity, H!Enforced
    <2>3. CASE instance' \in [env : {instance.env}, role : H!Roles, state : {"stopped"}]
      BY <2>1, <2>3 DEF TenancyIInv, Verified
    <2> QED
      BY <2>2, <2>3
  <1>3. Lent'
    BY <1>1 DEF Lent, H!Unposted
  <1> QED
    BY <1>1, <1>2, <1>3 DEF TenancyIInv

(* Nothing but the deployment changes, and what a request relies on stays   *)
(* as it was verified.                                                      *)
LEMMA DeploymentKeeps ==
    ASSUME TenancyIInv, Verified', UNCHANGED <<rows, guc, rtx>>, UNCHANGED instance.env
    PROVE  TenancyIInv'
  <1>1. H!RequiresRowLevelSecurity' <=> H!RequiresRowLevelSecurity
    BY DEF H!RequiresRowLevelSecurity
  <1>2. Lent'
    BY DEF TenancyIInv, Lent
  <1>3. \A d \in Callers : (rtx[d].phase # "idle" =>
         /\ Session(rtx[d], guc[rtx[d].conn])
         /\ H!RequiresRowLevelSecurity => Reached(rtx[d]))'
    BY <1>1 DEF TenancyIInv, Session, Reached, GoesBy
  <1> QED
    BY <1>2, <1>3 DEF TenancyIInv

LEMMA StartKeeps == ASSUME TenancyIInv, H!Start PROVE TenancyIInv'
  <1>1. Verified' /\ UNCHANGED instance.env
    BY DEF TenancyIInv, Verified, Busy, H!Start, H!Environments, H!Roles, H!Serviceable, H!Safe,
           H!RequiresRowLevelSecurity, H!Enforced
  <1> QED
    BY <1>1, DeploymentKeeps DEF H!Start

LEMMA PollKeeps == ASSUME TenancyIInv, H!Poll PROVE TenancyIInv'
  <1>1. Verified' /\ UNCHANGED instance.env
    BY DEF TenancyIInv, Verified, Busy, H!Poll, H!Ready, H!Environments, H!Roles, H!Serviceable, H!Safe,
           H!RequiresRowLevelSecurity, H!Enforced
  <1> QED
    BY <1>1, DeploymentKeeps DEF H!Poll

LEMMA MigrateKeeps == ASSUME TenancyIInv, H!Migrate PROVE TenancyIInv'
  <1>1. Verified'
    BY HouseholdsAssumption DEF H!TenancyAssumption, TenancyIInv, Verified, Busy, H!Migrate, H!Serviceable, H!Safe, H!Required,
           H!RequiresRowLevelSecurity, H!Enforced
  <1> QED
    BY <1>1, DeploymentKeeps DEF H!Migrate

(* The pool lends a connection that carries no household.                   *)
LEMMA TenancyBeginKeeps ==
    ASSUME TenancyIInv, NEW c \in Callers, NEW req \in Asks, NEW n \in Conns,
           H!Begin(c, req, n)
    PROVE  TenancyIInv'
  <1> DEFINE t == [H!IdleTx EXCEPT !.phase = "resolve", !.req = req, !.conn = n]
  <1>1. /\ rtx' = [rtx EXCEPT ![c] = t] /\ UNCHANGED <<rows, guc, instance, reachable, revision>>
        /\ instance.state = "ready" /\ rtx[c].phase = "idle" /\ \A d \in Callers : rtx[d].conn # n
    BY DEF H!Begin, H!Same
  <1>2. guc[n] = <<Nil>>
    BY <1>1 DEF TenancyIInv, Lent
  <1>3. Session(t, guc[n]) /\ Reached(t) /\ t.conn = n /\ t.phase # "idle"
    BY <1>2 DEF Session, SessionFields, Reached, H!IdleTx
  <1> HIDE DEF t
  <1>4. rtx'[c] = t /\ (\A d \in Callers \ {c} : rtx'[d] = rtx[d]) /\ DOMAIN rtx' = Callers
    BY <1>1 DEF TenancyIInv, Lent
  <1>5. Verified'
    BY <1>1 DEF TenancyIInv, Verified, Busy, H!Serviceable, H!Safe, H!RequiresRowLevelSecurity, H!Enforced
  <1>6. Lent'
    <2>1. \A d \in Callers : rtx'[d].phase = "idle" => rtx'[d] = H!IdleTx
      BY <1>3, <1>4 DEF TenancyIInv, Lent
    <2>2. \A d, e \in Callers : d # e /\ rtx'[d].phase # "idle" => rtx'[e].conn # rtx'[d].conn
      BY <1>1, <1>3, <1>4 DEF TenancyIInv, Lent
    <2>3. \A m \in Conns : (\A d \in Callers : rtx'[d].conn # m) => guc'[m] = <<Nil>>
      <3> SUFFICES ASSUME NEW m \in Conns, \A d \in Callers : rtx'[d].conn # m
                   PROVE  guc'[m] = <<Nil>>
        OBVIOUS
      <3>1. rtx[c].conn = Nil
        BY <1>1 DEF TenancyIInv, Lent, H!IdleTx
      <3>2. \A d \in Callers : rtx[d].conn # m
        BY HouseholdsAssumption, <1>4, <3>1 DEF H!TenancyAssumption
      <3> QED
        BY <1>1, <3>2 DEF TenancyIInv, Lent
    <2> QED
      BY <1>1, <1>4, <2>1, <2>2, <2>3 DEF TenancyIInv, Lent
  <1>7. H!RequiresRowLevelSecurity' <=> H!RequiresRowLevelSecurity
    BY <1>1 DEF H!RequiresRowLevelSecurity
  <1>8. ASSUME NEW d \in Callers, rtx'[d].phase # "idle"
        PROVE  Session(rtx'[d], guc'[rtx'[d].conn]) /\ (H!RequiresRowLevelSecurity' => Reached(rtx'[d]))
    BY <1>1, <1>3, <1>4, <1>7, <1>8 DEF TenancyIInv
  <1>9. \A d \in Callers : (rtx[d].phase # "idle" =>
         /\ Session(rtx[d], guc[rtx[d].conn])
         /\ H!RequiresRowLevelSecurity => Reached(rtx[d]))'
    BY <1>8 DEF Session, Reached, GoesBy
  <1> QED
    BY <1>1, <1>5, <1>6, <1>9 DEF TenancyIInv

(* A request whose credential opens household h.                            *)
Granted(t, u, h) ==
    /\ DOMAIN t = SessionFields
    /\ t.phase = "work" /\ t.granted = h /\ t.put \subseteq H!Rows
    /\ \A f \in {"req", "conn", "cut", "saved", "saw", "wrote", "whole"} : t[f] = u[f]

(* The household is in the context, or posted.                              *)
LEMMA GrantKeeps ==
    ASSUME TenancyIInv, NEW c \in Callers, rtx[c].phase = "resolve",
           NEW h \in rtx[c].req.proves \cup {Newborn}, NEW t, Granted(t, rtx[c], h), NEW s,
           \/ t.posted = Nil /\ t.ctx = h /\ s = <<Nil>>
           \/ t.posted = h /\ t.ctx \in {Nil, h} /\ s = <<h>>,
           rtx' = [rtx EXCEPT ![c] = t], DOMAIN guc' = DOMAIN guc, guc'[rtx[c].conn] = s,
           \A n \in Conns \ {rtx[c].conn} : guc'[n] = guc[n],
           UNCHANGED <<rows, instance, reachable, revision>>
    PROVE  TenancyIInv'
  <1>1. Session(rtx[c], guc[rtx[c].conn]) /\ (H!RequiresRowLevelSecurity => Reached(rtx[c])) /\ rtx[c].phase # "idle"
    BY DEF TenancyIInv
  <1>2. /\ t.req = rtx[c].req /\ t.conn = rtx[c].conn /\ t.saved = rtx[c].saved /\ t.cut = rtx[c].cut
        /\ t.saw = rtx[c].saw /\ t.wrote = rtx[c].wrote /\ t.whole = rtx[c].whole
    BY DEF Granted
  <1>3. h \in Households \cup {Newborn} /\ rtx[c].req \in Asks
    BY HouseholdsAssumption, <1>1 DEF Session, H!TenancyAssumption
  <1>4. s \in Seq(Households \cup {Newborn, Nil}) /\ Len(s) = 1 /\ (s = <<Nil>> \/ s = <<h>>)
    <2>1. \A g \in Households \cup {Newborn, Nil} :
            <<g>> \in Seq(Households \cup {Newborn, Nil}) /\ Len(<<g>>) = 1
      OBVIOUS
    <2> QED
      BY <1>3, <2>1
  <1>5. GoesBy(t, s, h)
    <2>1. s = <<h>> => s[Len(s)] = h /\ s[1] = h
      OBVIOUS
    <2> QED
      BY <1>1, <1>2, <2>1 DEF GoesBy, Session
  <1>6. Session(t, s)
    BY <1>1, <1>2, <1>4, <1>5 DEF Session, Granted
  <1>7. Reached(rtx[c]) => Reached(t)
    BY <1>1, <1>2 DEF Reached, Session, Granted
  <1> QED
    BY <1>1, <1>2, <1>6, <1>7, SessionKeeps DEF TenancyIInv

LEMMA ResolveCookieKeeps ==
    ASSUME TenancyIInv, NEW c \in Callers, H!ResolveCookie(c)
    PROVE  TenancyIInv'
  <1>1. PICK h \in H!Selected(rtx[c].req) : rtx' = [rtx EXCEPT ![c] = H!Grant(c, h)]
    BY DEF H!ResolveCookie
  <1>2. h \in rtx[c].req.proves
    BY DEF H!Selected
  <1>3. Session(rtx[c], guc[rtx[c].conn]) /\ rtx[c].phase = "resolve"
    BY DEF TenancyIInv, H!ResolveCookie
  <1> DEFINE t == H!Grant(c, h)
  <1>4. Granted(t, rtx[c], h) /\ t.posted = Nil /\ t.ctx = h
    BY <1>3 DEF Granted, Session, SessionFields, H!Grant
  <1>5. guc'[rtx[c].conn] = <<Nil>>
    BY <1>3 DEF H!ResolveCookie, Session
  <1> QED
    BY <1>1, <1>2, <1>3, <1>4, <1>5, GrantKeeps DEF H!ResolveCookie, H!Same

LEMMA ResolveFeedKeeps ==
    ASSUME TenancyIInv, NEW c \in Callers, H!ResolveFeed(c)
    PROVE  TenancyIInv'
  <1>1. PICK h \in rtx[c].req.proves : rtx' = [rtx EXCEPT ![c] = H!Grant(c, h)]
    BY DEF H!ResolveFeed
  <1>2. Session(rtx[c], guc[rtx[c].conn]) /\ rtx[c].phase = "resolve"
    BY DEF TenancyIInv, H!ResolveFeed
  <1> DEFINE t == H!Grant(c, h)
  <1>3. Granted(t, rtx[c], h) /\ t.posted = Nil /\ t.ctx = h
    BY <1>2 DEF Granted, Session, SessionFields, H!Grant
  <1>4. guc'[rtx[c].conn] = <<Nil>>
    BY <1>2 DEF H!ResolveFeed, Session
  <1> QED
    BY <1>1, <1>2, <1>3, <1>4, GrantKeeps DEF H!ResolveFeed, H!Same

LEMMA ResolveNamedKeeps ==
    ASSUME TenancyIInv, NEW c \in Callers, H!ResolveNamed(c)
    PROVE  TenancyIInv'
  <1> DEFINE ctx(h) == IF rtx[c].req.op = "token" THEN h ELSE Nil
             t(h) == [H!Grant(c, h) EXCEPT !.posted = h, !.ctx = ctx(h)]
  <1>1. PICK h \in rtx[c].req.proves : rtx' = [rtx EXCEPT ![c] = t(h)]
                                    /\ guc' = [guc EXCEPT ![rtx[c].conn] = H!Posted(@, h)]
    BY DEF H!ResolveNamed
  <1>2. Session(rtx[c], guc[rtx[c].conn]) /\ rtx[c].phase = "resolve" /\ DOMAIN guc = Conns
    BY DEF TenancyIInv, Lent, H!ResolveNamed
  <1>3. Granted(t(h), rtx[c], h) /\ t(h).posted = h /\ t(h).ctx \in {Nil, h}
    BY <1>2 DEF Granted, Session, SessionFields, H!Grant
  <1>4. H!Posted(<<Nil>>, h) = <<h>>
    BY DEF H!Posted
  <1>5. /\ guc'[rtx[c].conn] = <<h>> /\ DOMAIN guc' = DOMAIN guc
        /\ \A n \in Conns \ {rtx[c].conn} : guc'[n] = guc[n]
    BY <1>1, <1>2, <1>4 DEF Session
  <1> HIDE DEF t
  <1> QED
    BY <1>1, <1>2, <1>3, <1>5, GrantKeeps DEF H!ResolveNamed, H!Same

LEMMA RegisterKeeps ==
    ASSUME TenancyIInv, NEW c \in Callers, H!Register(c)
    PROVE  TenancyIInv'
  <1> DEFINE t == [H!Grant(c, Newborn) EXCEPT !.posted = Newborn, !.ctx = Nil, !.put = {<<"household", Newborn>>}]
  <1>1. rtx' = [rtx EXCEPT ![c] = t] /\ guc' = [guc EXCEPT ![rtx[c].conn] = H!Posted(@, Newborn)]
    BY DEF H!Register
  <1>2. Session(rtx[c], guc[rtx[c].conn]) /\ rtx[c].phase = "resolve" /\ DOMAIN guc = Conns
    BY DEF TenancyIInv, Lent, H!Register
  <1>3. <<"household", Newborn>> \in H!Rows
    BY HouseholdsAssumption DEF H!Rows, H!Owners, H!TenancyAssumption
  <1>4. Granted(t, rtx[c], Newborn) /\ t.posted = Newborn /\ t.ctx = Nil
    BY <1>2, <1>3 DEF Granted, Session, SessionFields, H!Grant
  <1>5. H!Posted(<<Nil>>, Newborn) = <<Newborn>>
    BY DEF H!Posted
  <1>6. /\ guc'[rtx[c].conn] = <<Newborn>> /\ DOMAIN guc' = DOMAIN guc
        /\ \A n \in Conns \ {rtx[c].conn} : guc'[n] = guc[n]
    BY <1>1, <1>2, <1>5 DEF Session
  <1>7. UNCHANGED <<rows, instance, reachable, revision>> /\ Newborn \in rtx[c].req.proves \cup {Newborn}
    BY DEF H!Register, H!Same
  <1>8. rtx' = [rtx EXCEPT ![c] = t] /\ t.posted = Newborn /\ t.ctx \in {Nil, Newborn}
    BY <1>1, <1>4
  <1> HIDE DEF t
  <1> QED
    BY <1>2, <1>4, <1>6, <1>7, <1>8, GrantKeeps

(* A statement runs with the household of its request, and with none before *)
(* that is known.                                                           *)
LEMMA ScopeIsTheHousehold ==
    ASSUME NEW c \in Callers, H!Working(c), Session(rtx[c], guc[rtx[c].conn])
    PROVE  /\ H!Scope(c) = rtx[c].granted
           /\ rtx[c].granted \in Households \cup {Newborn, Nil}
           /\ rtx[c].phase = "work" => rtx[c].granted # Nil
  <1> DEFINE t == rtx[c]
             s == guc[t.conn]
  <1>1. CASE t.phase = "resolve"
    <2>1. s = <<Nil>> /\ t.ctx = Nil /\ t.granted = Nil
      BY <1>1 DEF Session
    <2> QED
      BY <1>1, <2>1 DEF H!Scope, H!Current, H!Top
  <1>2. CASE t.phase = "work"
    <2>1. t.granted \in Households \cup {Newborn} /\ t.granted # Nil /\ GoesBy(t, s, t.granted)
      BY HouseholdsAssumption, <1>2 DEF Session, H!TenancyAssumption
    <2> QED
      BY <1>2, <2>1 DEF GoesBy, H!Scope, H!Current, H!Top
  <1> QED
    BY <1>1, <1>2 DEF H!Working

(* A request after one of its statements.                                   *)
Stated(u, t) ==
    /\ DOMAIN u = SessionFields /\ u.put \subseteq H!Rows /\ u.cut \subseteq H!Rows
    /\ \A f \in {"phase", "req", "conn", "ctx", "posted", "saved", "granted", "steps"} : u[f] = t[f]

(* The setting is replaced at the innermost level, and there are two at     *)
(* most.                                                                    *)
LEMMA LastIsReplaced ==
    ASSUME NEW S, NEW q \in Seq(S), Len(q) \in {1, 2}, NEW v \in S, NEW r, r = [q EXCEPT ![Len(q)] = v]
    PROVE  /\ r \in Seq(S) /\ Len(r) = Len(q) /\ r[Len(r)] = v
           /\ Len(q) = 2 => r[1] = q[1]
  <1>1. Len(q) \in 1..Len(q) /\ (Len(q) = 2 => 1 \in 1..Len(q) /\ 1 # Len(q))
    OBVIOUS
  <1>2. /\ r \in Seq(S) /\ Len(r) = Len(q)
        /\ \A j \in 1..Len(q) : r[j] = IF j = Len(q) THEN v ELSE q[j]
    BY <1>1, ExceptSeq
  <1> QED
    BY <1>1, <1>2

LEMMA OneIsReplaced ==
    ASSUME NEW S, NEW q \in Seq(S), Len(q) = 1, NEW v \in S
    PROVE  LET r == [q EXCEPT ![1] = v] IN r \in Seq(S) /\ Len(r) = 1 /\ r[1] = v
  <1>1. 1 \in 1..Len(q)
    OBVIOUS
  <1> QED
    BY <1>1, ExceptSeq

LEMMA ExecuteKeeps ==
    ASSUME TenancyIInv, NEW c \in Callers, H!Working(c), NEW u, Stated(u, rtx[c]),
           H!RequiresRowLevelSecurity => Reached(u), H!Execute(c, u)
    PROVE  TenancyIInv'
  <1> DEFINE n == rtx[c].conn
             s == guc[n]
             t == [u EXCEPT !.posted = H!Pending(rtx[c]), !.steps = @ + 1]
             after == H!Posted(s, H!Scope(c))
  <1>1. Session(rtx[c], s) /\ rtx[c].phase # "idle" /\ n \in Conns /\ DOMAIN guc = Conns
    BY DEF TenancyIInv, Lent, Session, H!Working
  <1>2. /\ H!Scope(c) = rtx[c].granted
        /\ rtx[c].granted \in Households \cup {Newborn, Nil}
        /\ rtx[c].phase = "work" => rtx[c].granted # Nil
    BY <1>1, ScopeIsTheHousehold
  <1>3. /\ rtx' = [rtx EXCEPT ![c] = t] /\ guc' = [guc EXCEPT ![n] = after]
        /\ UNCHANGED <<rows, instance, reachable, revision>>
    BY DEF H!Execute, H!Same
  <1>4. /\ DOMAIN t = SessionFields /\ t.put \subseteq H!Rows /\ t.cut \subseteq H!Rows /\ t.posted = H!Pending(rtx[c])
        /\ t.phase = rtx[c].phase /\ t.req = rtx[c].req /\ t.conn = n /\ t.ctx = rtx[c].ctx
        /\ t.saved = rtx[c].saved /\ t.granted = rtx[c].granted
        /\ t.saw = u.saw /\ t.wrote = u.wrote /\ t.whole = u.whole /\ t.cut = u.cut
    BY DEF Stated, SessionFields
  <1> HIDE DEF t
  <1>5. /\ after \in Seq(Households \cup {Newborn, Nil}) /\ Len(after) = Len(s)
        /\ after[Len(after)] = rtx[c].granted
        /\ Len(s) = 2 => after[1] = s[1]
    <2>1. s \in Seq(Households \cup {Newborn, Nil}) /\ Len(s) \in {1, 2}
      BY <1>1 DEF Session
    <2> DEFINE Levels == Households \cup {Newborn, Nil}
    <2>2. after = [s EXCEPT ![Len(s)] = rtx[c].granted] /\ rtx[c].granted \in Levels /\ s \in Seq(Levels)
      BY <1>2, <2>1 DEF H!Posted
    <2> HIDE DEF Levels, after
    <2>3. /\ after \in Seq(Levels) /\ Len(after) = Len(s) /\ after[Len(after)] = rtx[c].granted
          /\ Len(s) = 2 => after[1] = s[1]
      BY <2>1, <2>2, LastIsReplaced
    <2> QED
      BY <2>3 DEF Levels
  <1>6. rtx[c].phase = "resolve" => t.posted = Nil /\ after = <<Nil>>
    <2> SUFFICES ASSUME rtx[c].phase = "resolve" PROVE t.posted = Nil /\ after = <<Nil>>
      OBVIOUS
    <2>1. s = <<Nil>> /\ rtx[c].ctx = Nil /\ rtx[c].posted = Nil /\ rtx[c].granted = Nil
      BY <1>1 DEF Session
    <2>2. H!Posted(<<Nil>>, Nil) = <<Nil>>
      BY DEF H!Posted
    <2> QED
      BY <1>2, <1>4, <2>1, <2>2 DEF H!Pending
  <1>7. rtx[c].phase = "work" => GoesBy(t, after, t.granted)
    <2> SUFFICES ASSUME rtx[c].phase = "work" PROVE GoesBy(t, after, t.granted)
      OBVIOUS
    <2>1. GoesBy(rtx[c], s, rtx[c].granted) /\ rtx[c].granted # Nil
      BY <1>1, <1>2 DEF Session
    <2>2. t.posted = t.granted /\ t.ctx \in {Nil, t.granted}
      BY <1>4, <2>1 DEF H!Pending, GoesBy
    <2>3. Len(s) = IF rtx[c].saved = Nil THEN 1 ELSE 2
      BY <1>1 DEF Session
    <2>4. t.saved # Nil /\ t.req.op # "create" => after[1] = t.granted
      BY <1>4, <1>5, <2>1, <2>3 DEF GoesBy
    <2> QED
      BY <1>4, <1>5, <2>2, <2>4 DEF GoesBy
  <1>8. Session(t, after)
    BY <1>1, <1>4, <1>5, <1>6, <1>7 DEF Session, H!Working
  <1>9. Reached(u) => Reached(t)
    BY <1>4 DEF Reached, Stated
  <1>10. /\ DOMAIN guc' = DOMAIN guc /\ guc'[n] = after
         /\ \A m \in Conns \ {n} : guc'[m] = guc[m]
    BY <1>1, <1>3
  <1> HIDE DEF after
  <1> QED
    BY <1>1, <1>3, <1>4, <1>8, <1>9, <1>10, SessionKeeps DEF TenancyIInv

(* What a statement may reach when the policies hold.                       *)
LEMMA PoliciesConfine ==
    ASSUME H!Enforced, NEW h \in Households \cup {Newborn, Nil}, NEW r \in H!Rows
    PROVE  /\ r[1] # "household" /\ H!Visible(h, r) => h # Nil /\ r[2] \in {h, Public}
           /\ r[1] # "household" /\ h # Nil /\ r[2] = h => H!Visible(h, r)
           /\ H!Deletable(h, r) => h # Nil /\ r[2] = h /\ r # <<"product", Public>>
  BY HouseholdsAssumption DEF H!Rows, H!Owners, H!Visible, H!Deletable, H!OwnRow, H!OwnOrPublicRow, H!TenancyAssumption

(* What a statement of a request starts from.                               *)
LEMMA StatementsAreScoped ==
    ASSUME TenancyIInv, NEW c \in Callers, H!Working(c)
    PROVE  /\ Session(rtx[c], guc[rtx[c].conn])
           /\ H!RequiresRowLevelSecurity => Reached(rtx[c]) /\ H!Enforced
           /\ H!Scope(c) = rtx[c].granted /\ rtx[c].granted \in Households \cup {Newborn, Nil}
           /\ H!View(rtx[c]) \subseteq H!Rows
  <1>1. /\ Session(rtx[c], guc[rtx[c].conn])
        /\ H!RequiresRowLevelSecurity => Reached(rtx[c]) /\ H!Enforced
    BY DEF TenancyIInv, H!Working, Verified, Busy, H!Safe
  <1> QED
    BY <1>1, ScopeIsTheHousehold DEF TenancyIInv, H!View, Session

LEMMA ReadKeeps ==
    ASSUME TenancyIInv, NEW c \in Callers, H!Read(c)
    PROVE  TenancyIInv'
  <1> DEFINE t == rtx[c]
             h == t.granted
             seen == {r \in H!View(t) : r[1] # "household" /\ H!Visible(H!Scope(c), r)}
             own == {r \in H!View(t) : r[1] # "household" /\ r[2] = h}
             u == [t EXCEPT !.saw = @ \cup {r[2] : r \in seen}, !.whole = @ /\ own \subseteq seen]
  <1>1. H!Working(c) /\ H!Execute(c, u)
    BY DEF H!Read
  <1>2. /\ Session(t, guc[t.conn])
        /\ H!RequiresRowLevelSecurity => Reached(t) /\ H!Enforced
        /\ H!Scope(c) = h /\ h \in Households \cup {Newborn, Nil}
        /\ H!View(t) \subseteq H!Rows
    BY <1>1, StatementsAreScoped
  <1>3. Stated(u, t) /\ u.saw = t.saw \cup {r[2] : r \in seen} /\ u.whole = (t.whole /\ own \subseteq seen)
        /\ u.wrote = t.wrote /\ u.cut = t.cut /\ u.saved = t.saved /\ u.granted = h
    BY <1>2 DEF Session, SessionFields, Stated
  <1>4. ASSUME H!RequiresRowLevelSecurity PROVE Reached(u)
    <2>1. \A r \in seen : h # Nil /\ r[2] \in {h, Public}
      BY <1>2, <1>4, PoliciesConfine
    <2>2. own \subseteq seen
      <3>1. \A r \in H!Rows : r[2] # Nil
        BY HouseholdsAssumption DEF H!Rows, H!Owners, H!TenancyAssumption
      <3> QED
        BY <1>2, <1>4, <3>1, PoliciesConfine
    <2>3. Reached(t)
      BY <1>2, <1>4
    <2> HIDE DEF seen, own, u
    <2>4. \A o \in {r[2] : r \in seen} : h # Nil /\ o \in {h, Public}
      BY <2>1
    <2> QED
      BY <1>3, <2>2, <2>3, <2>4 DEF Reached
  <1> HIDE DEF u
  <1> QED
    BY <1>1, <1>3, <1>4, ExecuteKeeps

LEMMA InsertKeeps ==
    ASSUME TenancyIInv, NEW c \in Callers, NEW r \in H!Rows, H!Insert(c, r)
    PROVE  TenancyIInv'
  <1> DEFINE t == rtx[c]
             h == t.granted
             u == [t EXCEPT !.put = @ \cup {r}, !.cut = @ \ {r}, !.wrote = @ \cup {r[2]}]
  <1>1. H!Working(c) /\ H!Execute(c, u) /\ r[1] # "household" /\ H!Writable(H!Scope(c), r)
    BY DEF H!Insert
  <1>2. /\ Session(t, guc[t.conn])
        /\ H!RequiresRowLevelSecurity => Reached(t) /\ H!Enforced
        /\ H!Scope(c) = h /\ h \in Households \cup {Newborn, Nil}
    BY <1>1, StatementsAreScoped
  <1>3. Stated(u, t) /\ u.saw = t.saw /\ u.whole = t.whole /\ u.wrote = t.wrote \cup {r[2]}
        /\ u.cut = t.cut \ {r} /\ u.saved = t.saved /\ u.granted = h
    BY <1>2 DEF Session, SessionFields, Stated
  <1>4. ASSUME H!RequiresRowLevelSecurity PROVE Reached(u)
    <2>1. h # Nil /\ r[2] \in {h, Public}
      BY <1>1, <1>2, <1>4, PoliciesConfine DEF H!Writable
    <2>2. Reached(t)
      BY <1>2, <1>4
    <2> HIDE DEF u
    <2> QED
      BY <1>3, <2>1, <2>2 DEF Reached
  <1> HIDE DEF u
  <1> QED
    BY <1>1, <1>3, <1>4, ExecuteKeeps

(* A deletion never reaches the shared catalogue.                           *)
LEMMA RemovalKeeps ==
    ASSUME TenancyIInv, NEW c \in Callers, H!Working(c), NEW gone \in SUBSET H!Rows, NEW owners,
           H!RequiresRowLevelSecurity =>
             /\ <<"product", Public>> \notin gone
             /\ \A o \in owners : rtx[c].granted # Nil /\ o \in {rtx[c].granted, Public},
           H!Execute(c, [rtx[c] EXCEPT !.put = @ \ gone, !.cut = @ \cup gone, !.wrote = @ \cup owners])
    PROVE  TenancyIInv'
  <1> DEFINE t == rtx[c]
             u == [t EXCEPT !.put = @ \ gone, !.cut = @ \cup gone, !.wrote = @ \cup owners]
  <1>1. /\ Session(t, guc[t.conn])
        /\ H!RequiresRowLevelSecurity => Reached(t)
    BY StatementsAreScoped
  <1>2. Stated(u, t) /\ u.saw = t.saw /\ u.whole = t.whole /\ u.wrote = t.wrote \cup owners
        /\ u.cut = t.cut \cup gone /\ u.saved = t.saved /\ u.granted = t.granted
    BY <1>1 DEF Session, SessionFields, Stated
  <1>3. H!Execute(c, u)
    OBVIOUS
  <1> HIDE DEF u
  <1>4. H!RequiresRowLevelSecurity => Reached(u)
    BY <1>1, <1>2 DEF Reached
  <1> QED
    BY <1>2, <1>3, <1>4, ExecuteKeeps

LEMMA DeleteKeeps ==
    ASSUME TenancyIInv, NEW c \in Callers, NEW kind, H!Delete(c, kind)
    PROVE  TenancyIInv'
  <1> DEFINE gone == {r \in H!View(rtx[c]) :
                        r[1] = kind /\ H!Visible(H!Scope(c), r) /\ H!Deletable(H!Scope(c), r)}
             owners == {r[2] : r \in gone}
  <1>1. H!Working(c)
        /\ H!Execute(c, [rtx[c] EXCEPT !.put = @ \ gone, !.cut = @ \cup gone, !.wrote = @ \cup owners])
    BY DEF H!Delete
  <1>2. /\ H!RequiresRowLevelSecurity => H!Enforced
        /\ H!Scope(c) = rtx[c].granted /\ rtx[c].granted \in Households \cup {Newborn, Nil}
        /\ H!View(rtx[c]) \subseteq H!Rows
    BY <1>1, StatementsAreScoped
  <1>3. H!RequiresRowLevelSecurity =>
          \A r \in gone : rtx[c].granted # Nil /\ r[2] = rtx[c].granted /\ r # <<"product", Public>>
    BY <1>2, PoliciesConfine
  <1>4. gone \in SUBSET H!Rows
    BY <1>2
  <1> HIDE DEF gone
  <1>5. H!RequiresRowLevelSecurity =>
          /\ <<"product", Public>> \notin gone
          /\ \A o \in owners : rtx[c].granted # Nil /\ o \in {rtx[c].granted, Public}
    BY <1>3
  <1> HIDE DEF owners
  <1> QED
    BY <1>1, <1>4, <1>5, RemovalKeeps

LEMMA EraseKeeps ==
    ASSUME TenancyIInv, NEW c \in Callers, H!Erase(c)
    PROVE  TenancyIInv'
  <1> DEFINE doomed == {q \in H!View(rtx[c]) : q[1] = "household" /\ H!Deletable(H!Scope(c), q)}
             dead == {r[2] : r \in doomed}
             gone == {r \in H!View(rtx[c]) : r[2] \in dead}
  <1>1. H!Working(c)
        /\ H!Execute(c, [rtx[c] EXCEPT !.put = @ \ gone, !.cut = @ \cup gone, !.wrote = @ \cup dead])
    BY DEF H!Erase, H!Working
  <1>2. /\ H!RequiresRowLevelSecurity => H!Enforced
        /\ H!Scope(c) = rtx[c].granted /\ rtx[c].granted \in Households \cup {Newborn, Nil}
        /\ H!View(rtx[c]) \subseteq H!Rows
    BY <1>1, StatementsAreScoped
  <1>3. H!RequiresRowLevelSecurity =>
          \A r \in doomed : rtx[c].granted # Nil /\ r[2] = rtx[c].granted
    BY <1>2, PoliciesConfine
  <1> HIDE DEF doomed
  <1>4. H!RequiresRowLevelSecurity => \A o \in dead : rtx[c].granted # Nil /\ o = rtx[c].granted
    BY <1>3
  <1>5. H!RequiresRowLevelSecurity => <<"product", Public>> \notin gone
    BY HouseholdsAssumption, <1>2, <1>4 DEF H!TenancyAssumption
  <1>6. gone \in SUBSET H!Rows
    BY <1>2
  <1> HIDE DEF gone, dead
  <1> QED
    BY <1>1, <1>4, <1>5, <1>6, RemovalKeeps

LEMMA UpdateKeeps ==
    ASSUME TenancyIInv, NEW c \in Callers, NEW r \in H!Rows, NEW o \in H!Owners,
           H!Update(c, r, o)
    PROVE  TenancyIInv'
  <1> DEFINE t == rtx[c]
             h == t.granted
             u == [t EXCEPT !.put = (@ \ {r}) \cup {<<"product", o>>}, !.wrote = @ \cup {r[2], o},
                            !.cut = @ \cup ({r} \ {<<"product", o>>})]
  <1>1. CASE H!Rollback(c)
    BY <1>1, TenancyRollbackKeeps
  <1>2. CASE H!Movable(r, o) /\ H!Execute(c, u)
    <2>1. H!Working(c) /\ r[1] = "product" /\ H!Visible(H!Scope(c), r) /\ r[2] = o
      BY <1>2 DEF H!Update, H!Movable
    <2>2. /\ Session(t, guc[t.conn])
          /\ H!RequiresRowLevelSecurity => Reached(t) /\ H!Enforced
          /\ H!Scope(c) = h /\ h \in Households \cup {Newborn, Nil}
      BY <2>1, StatementsAreScoped
    <2>3. r = <<"product", o>>
      BY <2>1 DEF H!Rows
    <2>4. Stated(u, t) /\ u.saw = t.saw /\ u.whole = t.whole /\ u.wrote = t.wrote \cup {o}
          /\ u.cut = t.cut /\ u.saved = t.saved /\ u.granted = h
      BY <2>1, <2>2, <2>3 DEF Session, SessionFields, Stated
    <2> HIDE DEF u
    <2>5. ASSUME H!RequiresRowLevelSecurity PROVE Reached(u)
      <3>1. h # Nil /\ o \in {h, Public}
        BY <2>1, <2>2, <2>5, PoliciesConfine
      <3> QED
        BY <2>2, <2>4, <2>5, <3>1 DEF Reached
    <2> QED
      BY <1>2, <2>1, <2>4, <2>5, ExecuteKeeps
  <1> QED
    BY <1>1, <1>2 DEF H!Update

(* A SAVEPOINT opens a level at which the household is what it was.         *)
LEMMA SavepointKeeps ==
    ASSUME TenancyIInv, NEW c \in Callers, H!Savepoint(c)
    PROVE  TenancyIInv'
  <1> DEFINE n == rtx[c].conn
             s == guc[n]
             kept == [put |-> rtx[c].put, cut |-> rtx[c].cut]
             t == [rtx[c] EXCEPT !.saved = kept]
             after == Append(s, s[Len(s)])
  <1>1. /\ Session(rtx[c], s) /\ (H!RequiresRowLevelSecurity => Reached(rtx[c]))
        /\ rtx[c].phase = "work" /\ rtx[c].saved = Nil /\ n \in Conns /\ DOMAIN guc = Conns
    BY DEF TenancyIInv, Lent, Session, H!Savepoint
  <1>2. /\ rtx' = [rtx EXCEPT ![c] = t] /\ guc' = [guc EXCEPT ![n] = after]
        /\ UNCHANGED <<rows, instance, reachable, revision>>
        /\ rtx[c].posted = Nil => rtx[c].req.op = "create"
    BY DEF H!Savepoint, H!Same, H!Top
  <1>3. kept.put = rtx[c].put /\ kept.cut = rtx[c].cut /\ kept # Nil
    BY HouseholdsAssumption, <1>1 DEF Session, H!TenancyAssumption
  <1>4. /\ DOMAIN t = SessionFields /\ t.saved = kept
        /\ \A f \in SessionFields \ {"saved"} : t[f] = rtx[c][f]
    BY <1>1 DEF Session, SessionFields
  <1> HIDE DEF t, kept
  <1>5. /\ t.phase = "work" /\ t.req = rtx[c].req /\ t.conn = n /\ t.put = rtx[c].put /\ t.cut = rtx[c].cut
        /\ t.ctx = rtx[c].ctx /\ t.posted = rtx[c].posted /\ t.granted = rtx[c].granted
        /\ t.saw = rtx[c].saw /\ t.wrote = rtx[c].wrote /\ t.whole = rtx[c].whole
    BY <1>1, <1>4 DEF SessionFields
  <1>6. /\ after \in Seq(Households \cup {Newborn, Nil}) /\ Len(after) = 2
        /\ after[1] = s[1] /\ after[2] = s[1] /\ Len(s) = 1
    <2> DEFINE Levels == Households \cup {Newborn, Nil}
    <2>1. s \in Seq(Levels) /\ Len(s) = 1
      BY <1>1 DEF Session
    <2>2. s[1] \in Levels /\ after = Append(s, s[1])
      BY <2>1
    <2> HIDE DEF Levels, after
    <2> QED
      BY <2>1, <2>2, AppendProperties DEF Levels
  <1>7. GoesBy(t, after, t.granted)
    BY <1>1, <1>2, <1>5, <1>6 DEF Session, GoesBy
  <1>8. Session(t, after)
    BY <1>1, <1>3, <1>4, <1>5, <1>6, <1>7 DEF Session
  <1>9. Reached(rtx[c]) => Reached(t)
    BY <1>3, <1>4, <1>5 DEF Reached
  <1>10. /\ DOMAIN guc' = DOMAIN guc /\ guc'[n] = after
         /\ \A m \in Conns \ {n} : guc'[m] = guc[m]
    BY <1>1, <1>2
  <1> HIDE DEF after
  <1> QED
    BY <1>1, <1>2, <1>5, <1>8, <1>9, <1>10, SessionKeeps DEF TenancyIInv

(* Released, what was set inside it stays.                                  *)
LEMMA ReleaseKeeps ==
    ASSUME TenancyIInv, NEW c \in Callers, rtx[c].phase # "idle", H!Release(c)
    PROVE  TenancyIInv'
  <1> DEFINE n == rtx[c].conn
             s == guc[n]
             t == [rtx[c] EXCEPT !.saved = Nil]
             after == H!Posted(SubSeq(s, 1, Len(s) - 1), s[Len(s)])
  <1>1. /\ Session(rtx[c], s) /\ (H!RequiresRowLevelSecurity => Reached(rtx[c]))
        /\ rtx[c].phase = "work" /\ rtx[c].saved # Nil /\ n \in Conns /\ DOMAIN guc = Conns
    BY DEF TenancyIInv, Lent, Session, H!Release
  <1>2. /\ rtx' = [rtx EXCEPT ![c] = t] /\ guc' = [guc EXCEPT ![n] = after]
        /\ UNCHANGED <<rows, instance, reachable, revision>>
    BY DEF H!Release, H!Same, H!Top
  <1>3. /\ DOMAIN t = SessionFields /\ t.saved = Nil
        /\ \A f \in SessionFields \ {"saved"} : t[f] = rtx[c][f]
    BY <1>1 DEF Session, SessionFields
  <1> HIDE DEF t
  <1>4. /\ t.phase = "work" /\ t.req = rtx[c].req /\ t.conn = n /\ t.put = rtx[c].put /\ t.cut = rtx[c].cut
        /\ t.ctx = rtx[c].ctx /\ t.posted = rtx[c].posted /\ t.granted = rtx[c].granted
        /\ t.saw = rtx[c].saw /\ t.wrote = rtx[c].wrote /\ t.whole = rtx[c].whole
    BY <1>1, <1>3 DEF SessionFields
  <1>5. after \in Seq(Households \cup {Newborn, Nil}) /\ Len(after) = 1 /\ after[1] = s[2] /\ Len(s) = 2
    <2> DEFINE Levels == Households \cup {Newborn, Nil}
    <2>1. s \in Seq(Levels) /\ Len(s) = 2
      BY <1>1 DEF Session
    <2> DEFINE outer == SubSeq(s, 1, 1)
    <2>2. s[1] \in Levels /\ s[2] \in Levels
      BY <2>1
    <2> HIDE DEF Levels
    <2>3. outer \in Seq(Levels) /\ Len(outer) = 1
      BY <2>2, SubSeqProperties
    <2>4. after = [outer EXCEPT ![1] = s[2]] /\ 1 \in 1..Len(outer)
      BY <2>1, <2>3 DEF H!Posted
    <2> HIDE DEF after, outer
    <2>5. after \in Seq(Levels) /\ Len(after) = 1 /\ after[1] = s[2]
      <3> DEFINE new == [outer EXCEPT ![1] = s[2]]
      <3>1. new \in Seq(Levels) /\ Len(new) = 1 /\ new[1] = s[2]
        BY <2>2, <2>3, OneIsReplaced
      <3> QED
        BY <2>4, <3>1
    <2> QED
      BY <2>1, <2>5 DEF Levels
  <1>6. GoesBy(t, after, t.granted)
    BY <1>1, <1>3, <1>4, <1>5 DEF Session, GoesBy
  <1>7. Session(t, after)
    BY <1>1, <1>3, <1>4, <1>5, <1>6 DEF Session
  <1>8. Reached(rtx[c]) => Reached(t)
    BY <1>3, <1>4 DEF Reached
  <1>9. /\ DOMAIN guc' = DOMAIN guc /\ guc'[n] = after
        /\ \A m \in Conns \ {n} : guc'[m] = guc[m]
    BY <1>1, <1>2
  <1> HIDE DEF after
  <1> QED
    BY <1>1, <1>2, <1>4, <1>7, <1>8, <1>9, SessionKeeps DEF TenancyIInv

(* Rolled back, what was set inside it is undone: a request that had set it *)
(* there has no other statement.                                            *)
LEMMA RollbackToKeeps ==
    ASSUME TenancyIInv, NEW c \in Callers, rtx[c].phase # "idle", H!RollbackTo(c)
    PROVE  TenancyIInv'
  <1> DEFINE n == rtx[c].conn
             s == guc[n]
             phase == IF rtx[c].req.op = "create" THEN "refused" ELSE "work"
             t == [rtx[c] EXCEPT !.put = rtx[c].saved.put, !.cut = rtx[c].saved.cut, !.saved = Nil, !.phase = phase]
             after == SubSeq(s, 1, Len(s) - 1)
  <1>1. /\ Session(rtx[c], s) /\ (H!RequiresRowLevelSecurity => Reached(rtx[c]))
        /\ rtx[c].phase = "work" /\ rtx[c].saved # Nil /\ n \in Conns /\ DOMAIN guc = Conns
    BY DEF TenancyIInv, Lent, Session, H!RollbackTo
  <1>2. /\ rtx' = [rtx EXCEPT ![c] = t] /\ guc' = [guc EXCEPT ![n] = after]
        /\ UNCHANGED <<rows, instance, reachable, revision>>
    BY DEF H!RollbackTo, H!Same
  <1>3. /\ DOMAIN t = SessionFields /\ t.saved = Nil /\ t.put = rtx[c].saved.put /\ t.cut = rtx[c].saved.cut
        /\ t.phase = phase
        /\ \A f \in SessionFields \ {"saved", "put", "cut", "phase"} : t[f] = rtx[c][f]
    BY <1>1 DEF Session, SessionFields
  <1> HIDE DEF t
  <1>4. /\ t.req = rtx[c].req /\ t.conn = n
        /\ t.ctx = rtx[c].ctx /\ t.posted = rtx[c].posted /\ t.granted = rtx[c].granted
        /\ t.saw = rtx[c].saw /\ t.wrote = rtx[c].wrote /\ t.whole = rtx[c].whole
    BY <1>3 DEF SessionFields
  <1>5. after \in Seq(Households \cup {Newborn, Nil}) /\ Len(after) = 1 /\ after[1] = s[1] /\ Len(s) = 2
    <2> DEFINE Levels == Households \cup {Newborn, Nil}
    <2>1. s \in Seq(Levels) /\ Len(s) = 2
      BY <1>1 DEF Session
    <2>2. s[1] \in Levels /\ after = SubSeq(s, 1, 1)
      BY <2>1
    <2> HIDE DEF Levels, after
    <2>3. \A i \in 1..1 : SubSeq(s, 1, 1)[i] = s[1 + i - 1]
      BY <2>2, SubSeqProperties
    <2>4. after \in Seq(Levels) /\ Len(after) = 1 /\ after[1] = s[1]
      BY <2>2, <2>3, SubSeqProperties
    <2> QED
      BY <2>1, <2>4 DEF Levels
  <1>6. t.phase = "work" => GoesBy(t, after, t.granted)
    BY <1>1, <1>3, <1>4, <1>5 DEF Session, GoesBy
  <1>7. Session(t, after)
    BY <1>1, <1>3, <1>4, <1>5, <1>6 DEF Session
  <1>8. Reached(rtx[c]) => Reached(t)
    BY <1>1, <1>3, <1>4 DEF Reached
  <1>9. /\ DOMAIN guc' = DOMAIN guc /\ guc'[n] = after
        /\ \A m \in Conns \ {n} : guc'[m] = guc[m]
    BY <1>1, <1>2
  <1> HIDE DEF after, phase
  <1> QED
    BY <1>1, <1>2, <1>4, <1>7, <1>8, <1>9, SessionKeeps DEF TenancyIInv

LEMMA TenancyNext == TenancyIInv /\ [H!Next]_(H!vars) => TenancyIInv'
  <1> SUFFICES ASSUME TenancyIInv, [H!Next]_(H!vars) PROVE TenancyIInv'
    OBVIOUS
  <1>1. CASE UNCHANGED H!vars
    <2>1. UNCHANGED <<instance, revision, rows, guc, rtx>>
      BY <1>1 DEF H!vars
    <2>2. Verified'
      BY <2>1 DEF TenancyIInv, Verified, Busy, H!Serviceable, H!Safe, H!RequiresRowLevelSecurity, H!Enforced
    <2> QED
      BY <2>1, <2>2, DeploymentKeeps
  <1>2. ASSUME NEW c \in Callers, NEW req \in Asks, NEW n \in Conns, H!Begin(c, req, n) PROVE TenancyIInv'
    BY <1>2, TenancyBeginKeeps
  <1>3. ASSUME NEW c \in Callers,
               H!ResolveCookie(c) \/ H!ResolveFeed(c) \/ H!ResolveNamed(c) \/ H!Register(c) \/ H!Refuse(c)
        PROVE  TenancyIInv'
    BY <1>3, ResolveCookieKeeps, ResolveFeedKeeps, ResolveNamedKeeps, RegisterKeeps, TenancyRollbackKeeps
       DEF H!Refuse
  <1>4. ASSUME NEW c \in Callers,
               \/ H!Read(c) \/ H!Erase(c) \/ (\E r \in H!Rows : H!Insert(c, r))
               \/ \E r \in H!Rows, o \in H!Owners : H!Update(c, r, o)
               \/ \E kind \in {"lot", "product"} : H!Delete(c, kind)
        PROVE  TenancyIInv'
    BY <1>4, ReadKeeps, EraseKeeps, InsertKeeps, UpdateKeeps, DeleteKeeps
  <1>5. ASSUME NEW c \in Callers, H!Savepoint(c) \/ H!Release(c) \/ H!RollbackTo(c) PROVE TenancyIInv'
    <2>1. rtx[c].phase = "idle" => rtx[c].saved = Nil
      BY DEF TenancyIInv, Lent, H!IdleTx
    <2>2. H!Release(c) \/ H!RollbackTo(c) => rtx[c].phase # "idle"
      BY <2>1 DEF H!Release, H!RollbackTo
    <2> QED
      BY <1>5, <2>2, SavepointKeeps, ReleaseKeeps, RollbackToKeeps
  <1>6. ASSUME NEW c \in Callers, H!Commit(c) \/ H!Rollback(c) PROVE TenancyIInv'
    BY <1>6, TenancyCommitKeeps, TenancyRollbackKeeps
  <1>7. CASE H!Start \/ H!Poll \/ H!Migrate
    BY <1>7, StartKeeps, PollKeeps, MigrateKeeps
  <1>8. CASE H!Lose \/ H!Deploy
    BY <1>8, AllEndKeeps DEF H!Lose, H!Deploy
  <1> QED
    BY <1>1, <1>2, <1>3, <1>4, <1>5, <1>6, <1>7, <1>8 DEF H!Next, H!Stopped

(* Whatever its statements ask, and whichever request held its connection   *)
(* before, a request reads and writes rows of the household its credential  *)
(* proves and of the shared catalogue, all of the first and none of it      *)
(* before it is known, and it meets no schema older than the build.         *)
THEOREM HouseholdsAreKeptApart == H!Spec => []RequestsReachTheirHousehold
  <1>1. TenancyIInv => H!RequestsReachTheirHousehold
    <2> SUFFICES ASSUME TenancyIInv, NEW c \in Callers, rtx[c].phase # "idle"
                 PROVE  /\ H!Serviceable
                        /\ H!RequiresRowLevelSecurity =>
                             /\ Reached(rtx[c])
                             /\ rtx[c].granted \in rtx[c].req.proves \cup {Nil, Newborn}
      BY DEF H!RequestsReachTheirHousehold, Reached
    <2> QED
      BY DEF TenancyIInv, Verified, Busy, Session
  <1> QED
    BY <1>1, HouseholdsAssumption, TenancyInit, TenancyNext, PTL DEF H!Spec, RequestsReachTheirHousehold

-----------------------------------------------------------------------------
(* The processes that read documents.                                       *)


SomeBroken == \E p \in D!PoolIds : pools[p].state = "broken"

(* A document in a process is in one that has read nothing.  One that will  *)
(* have no answer of its own was in a pool of which a process died, or in   *)
(* one that was thrown away for it.                                         *)
Placed(j) ==
    /\ DOMAIN j = {"phase", "file", "pool", "worker"}
    /\ j.phase \in {"submit", "queued", "fed"} => j.pool \in D!PoolIds
    /\ j.phase = "fed" => j.worker = D!InitialiseWorker
    /\ j.phase \in {"broken", "cancelled"} => SomeBroken

(* What a request was told.                                                 *)
Judged(a) ==
    a # Nil => \/ a.outcome = D!Deserves(a.file)
               \/ SomeBroken /\ a.outcome \in {D!TooLarge("processing"), Lost}

(* A pool is thrown away once a process died, or at the end of all.         *)
ThrownAway ==
    \A p \in D!PoolIds : pools[p].state = "shut" =>
        SomeBroken \/ (uploads = MaxUploads /\ \A c \in Members : job[c].phase = "idle")

SandboxIInv ==
    /\ DOMAIN job = Members /\ DOMAIN said = Members /\ DOMAIN pools = D!PoolIds
    /\ \A p \in D!PoolIds : DOMAIN pools[p] = {"state", "spent"}
    /\ pool \in D!PoolIds \cup {0}
    /\ ThrownAway
    /\ \A c \in Members : Placed(job[c]) /\ Judged(said[c])

LEMMA SandboxInit == D!SInit => SandboxIInv
  <1> SUFFICES ASSUME D!SInit PROVE SandboxIInv
    OBVIOUS
  <1>1. \A c \in Members : job[c] = D!IdleJob /\ said[c] = Nil
    BY DEF D!SInit
  <1>2. \A c \in Members : Placed(job[c]) /\ Judged(said[c])
    BY <1>1 DEF Placed, Judged, D!IdleJob
  <1> QED
    BY <1>2 DEF D!SInit, SandboxIInv, ThrownAway, D!Pool

(* A process that died stays dead, and what was told for it stays said.     *)
LEMMA OthersKeep ==
    ASSUME SandboxIInv, SomeBroken => SomeBroken', NEW c \in Members,
           UNCHANGED job[c] \/ UNCHANGED said[c]
    PROVE  /\ UNCHANGED job[c] => Placed(job[c])'
           /\ UNCHANGED said[c] => Judged(said[c])'
  BY DEF SandboxIInv, Placed, Judged, D!Deserves, D!ExtractInWorker, D!Spend, D!Above

(* One request goes on, and the pools stay as they are built.               *)
LEMMA JobKeeps ==
    ASSUME SandboxIInv, NEW c \in Members,
           DOMAIN job' = Members, \A d \in Members \ {c} : job'[d] = job[d],
           DOMAIN said' = Members, \A d \in Members \ {c} : said'[d] = said[d],
           DOMAIN pools' = D!PoolIds, \A p \in D!PoolIds : DOMAIN pools'[p] = {"state", "spent"},
           pool' \in D!PoolIds \cup {0}, SomeBroken => SomeBroken', ThrownAway',
           Placed(job[c])', Judged(said[c])'
    PROVE  SandboxIInv'
  <1>1. \A d \in Members : Placed(job[d])' /\ Judged(said[d])'
    BY OthersKeep
  <1> QED
    BY <1>1 DEF SandboxIInv

(* A request under way leaves no pool thrown away without reason.           *)
LEMMA UnderWay ==
    ASSUME SandboxIInv, NEW c \in Members, job[c].phase # "idle", NEW p \in D!PoolIds, pools[p].state = "shut"
    PROVE  SomeBroken
  BY DEF SandboxIInv, ThrownAway

LEMMA SubmitsKeeps ==
    ASSUME SandboxIInv, NEW c \in Members, NEW file \in Pdfs, D!Submits(c, file)
    PROVE  SandboxIInv'
  <1> DEFINE j == [D!IdleJob EXCEPT !.phase = "get", !.file = file]
  <1>1. Placed(j)
    BY DEF Placed, D!IdleJob
  <1>2. UNCHANGED <<pool, pools, said>> /\ job' = [job EXCEPT ![c] = j] /\ uploads # MaxUploads
    BY WorkersAssumption DEF D!Submits, D!SandboxAssumption
  <1>3. SomeBroken' <=> SomeBroken
    BY <1>2 DEF SomeBroken
  <1>4. ThrownAway'
    BY <1>2, <1>3 DEF SandboxIInv, ThrownAway
  <1>5. Judged(said[c])'
    BY <1>2, <1>3, OthersKeep
  <1> HIDE DEF j
  <1>6. job'[c] = j /\ DOMAIN job' = Members /\ \A d \in Members \ {c} : job'[d] = job[d]
    BY <1>2 DEF SandboxIInv
  <1>7. Placed(job[c])'
    BY <1>1, <1>3, <1>6 DEF Placed
  <1> QED
    BY <1>2, <1>3, <1>4, <1>5, <1>6, <1>7, JobKeeps DEF SandboxIInv

LEMMA GetPoolKeeps ==
    ASSUME SandboxIInv, NEW c \in Members, D!GetPool(c)
    PROVE  SandboxIInv'
  <1>1. PICK given \in D!PoolIds :
          /\ IF pool = 0 THEN D!ToBuild(given) ELSE given = pool
          /\ pool' = given
          /\ pools' = [pools EXCEPT ![given] = IF pool = 0 THEN D!Pool("serves") ELSE @]
          /\ job' = [job EXCEPT ![c].phase = "submit", ![c].pool = given]
    BY DEF D!GetPool
  <1> DEFINE j == [job[c] EXCEPT !.phase = "submit", !.pool = given]
  <1>2. job[c].phase = "get" /\ UNCHANGED said /\ job' = [job EXCEPT ![c] = j] /\ DOMAIN job = Members
    BY <1>1 DEF D!GetPool, SandboxIInv
  <1>3. \A p \in D!PoolIds :
          /\ pools'[p].state = "broken" <=> pools[p].state = "broken"
          /\ pools'[p].state = "shut" => pools[p].state = "shut"
          /\ DOMAIN pools'[p] = {"state", "spent"}
    BY <1>1 DEF SandboxIInv, D!ToBuild, D!Pool
  <1>4. SomeBroken' <=> SomeBroken
    BY <1>3 DEF SomeBroken
  <1>5. ThrownAway'
    BY <1>2, <1>3, <1>4, UnderWay DEF ThrownAway
  <1>6. Judged(said[c])'
    BY <1>2, <1>4, OthersKeep
  <1>7. job'[c] = j /\ DOMAIN job' = Members /\ \A d \in Members \ {c} : job'[d] = job[d]
    BY <1>2
  <1>8. Placed(job[c])'
    BY <1>2, <1>7 DEF SandboxIInv, Placed
  <1> HIDE DEF j
  <1> QED
    BY <1>1, <1>2, <1>3, <1>4, <1>5, <1>6, <1>7, <1>8, JobKeeps DEF SandboxIInv

(* Nothing but one request changes.                                         *)
LEMMA PoolsStayKeep ==
    ASSUME SandboxIInv, NEW c \in Members, job[c].phase # "idle", NEW j, NEW a,
           job' = [job EXCEPT ![c] = j],
           DOMAIN said' = DOMAIN said, said'[c] = a, \A d \in Members \ {c} : said'[d] = said[d],
           DOMAIN pools' = D!PoolIds,
           \A p \in D!PoolIds : DOMAIN pools'[p] = {"state", "spent"} /\ pools'[p].state = pools[p].state,
           UNCHANGED pool, Placed(j), Judged(a)
    PROVE  SandboxIInv'
  <1>1. SomeBroken' <=> SomeBroken
    BY DEF SomeBroken
  <1>2. ThrownAway'
    BY <1>1, UnderWay DEF ThrownAway
  <1>3. job'[c] = j /\ DOMAIN job' = Members /\ \A d \in Members \ {c} : job'[d] = job[d]
    BY DEF SandboxIInv
  <1>4. Judged(said[c])'
    BY <1>1 DEF Judged, D!Deserves, D!ExtractInWorker, D!Spend, D!Above
  <1>5. Placed(job[c])'
    BY <1>1, <1>3 DEF Placed
  <1> QED
    BY <1>1, <1>2, <1>3, <1>4, <1>5, JobKeeps DEF SandboxIInv

LEMMA IdlePlaced == Placed(D!IdleJob)
  BY DEF Placed, D!IdleJob

LEMMA SubmitKeeps ==
    ASSUME SandboxIInv, NEW c \in Members, D!Submit(c)
    PROVE  SandboxIInv'
  <1> DEFINE p == job[c].pool
  <1>1. job[c].phase = "submit" /\ p \in D!PoolIds /\ UNCHANGED <<pool, pools>> /\ Placed(job[c]) /\ Judged(said[c])
    BY DEF SandboxIInv, Placed, D!Submit
  <1>2. CASE pools[p].state = "shut" /\ D!Answer(c, Lost)
    <2> DEFINE a == [file |-> job[c].file, outcome |-> Lost]
    <2>1. SomeBroken
      BY <1>1, <1>2, UnderWay
    <2>2. Judged(a)
      BY <2>1 DEF Judged
    <2> HIDE DEF a
    <2>3. job' = [job EXCEPT ![c] = D!IdleJob] /\ said' = [said EXCEPT ![c] = a]
      BY <1>2 DEF D!Answer, a
    <2> QED
      BY <1>1, <2>2, <2>3, IdlePlaced, PoolsStayKeep DEF SandboxIInv
  <1>3. CASE pools[p].state = "broken" /\ job' = [job EXCEPT ![c].phase = "broken"] /\ UNCHANGED said
    <2> DEFINE j == [job[c] EXCEPT !.phase = "broken"]
    <2>1. Placed(j)
      BY <1>1, <1>3 DEF Placed, SomeBroken
    <2>2. job' = [job EXCEPT ![c] = j]
      BY <1>3 DEF SandboxIInv
    <2> HIDE DEF j
    <2> QED
      BY <1>1, <1>3, <2>1, <2>2, PoolsStayKeep DEF SandboxIInv
  <1>4. CASE job' = [job EXCEPT ![c].phase = "queued"] /\ UNCHANGED said
    <2> DEFINE j == [job[c] EXCEPT !.phase = "queued"]
    <2>1. Placed(j)
      BY <1>1 DEF Placed
    <2>2. job' = [job EXCEPT ![c] = j]
      BY <1>4 DEF SandboxIInv
    <2> HIDE DEF j
    <2> QED
      BY <1>1, <1>4, <2>1, <2>2, PoolsStayKeep DEF SandboxIInv
  <1> QED
    BY <1>2, <1>3, <1>4 DEF D!Submit

LEMMA FeedKeeps ==
    ASSUME SandboxIInv, NEW c \in Members, D!Feed(c)
    PROVE  SandboxIInv'
  <1> DEFINE j == [job[c] EXCEPT !.phase = "fed", !.worker = D!NextWorker(job[c].pool)]
  <1>1. job[c].phase = "queued" /\ UNCHANGED <<pool, pools, said>> /\ Placed(job[c]) /\ Judged(said[c])
    BY DEF SandboxIInv, D!Feed
  <1>2. Placed(j)
    BY <1>1 DEF Placed, D!NextWorker
  <1>3. job' = [job EXCEPT ![c] = j]
    BY DEF SandboxIInv, D!Feed
  <1> HIDE DEF j
  <1> QED
    BY <1>1, <1>2, <1>3, PoolsStayKeep DEF SandboxIInv

(* What a process that had read nothing answers is what the document        *)
(* deserves.                                                                *)
LEMMA ExtractKeeps ==
    ASSUME SandboxIInv, NEW c \in Members, D!Extract(c)
    PROVE  SandboxIInv'
  <1> DEFINE a == [file |-> job[c].file, outcome |-> D!ExtractInWorker(job[c].worker, job[c].file)]
             p == job[c].pool
  <1>1. /\ job[c].phase = "fed" /\ ~job[c].file.stuck /\ UNCHANGED pool
        /\ job[c].worker = D!InitialiseWorker /\ p \in D!PoolIds
    BY DEF SandboxIInv, Placed, D!Extract
  <1>2. Judged(a)
    BY <1>1 DEF Judged, D!Deserves
  <1>3. job' = [job EXCEPT ![c] = D!IdleJob] /\ said' = [said EXCEPT ![c] = a]
    BY DEF D!Extract, D!Answer
  <1>4. DOMAIN pools' = D!PoolIds
        /\ \A q \in D!PoolIds : DOMAIN pools'[q] = {"state", "spent"} /\ pools'[q].state = pools[q].state
    BY <1>1 DEF SandboxIInv, D!Extract
  <1> HIDE DEF a
  <1> QED
    BY <1>1, <1>2, <1>3, <1>4, IdlePlaced, PoolsStayKeep DEF SandboxIInv

(* A process died: every document in its pool will be said to take too long.*)
LEMMA BreakKeeps ==
    ASSUME SandboxIInv, NEW c \in Members, job[c].phase = "fed", D!Break(job[c].pool), UNCHANGED <<pool, said>>
    PROVE  SandboxIInv'
  <1> DEFINE p == job[c].pool
  <1>1. p \in D!PoolIds /\ pools' = [pools EXCEPT ![p] = D!Pool("broken")]
    BY DEF SandboxIInv, Placed, D!Break
  <1>2. /\ DOMAIN pools' = D!PoolIds /\ SomeBroken'
        /\ \A q \in D!PoolIds : DOMAIN pools'[q] = {"state", "spent"}
    BY <1>1 DEF SandboxIInv, SomeBroken, D!Pool
  <1>3. ASSUME NEW d \in Members PROVE Placed(job[d])' /\ Judged(said[d])'
    <2>1. Judged(said[d])'
      BY <1>2, OthersKeep
    <2>2. CASE UNCHANGED job[d]
      BY <1>2, <2>1, <2>2, OthersKeep
    <2>3. CASE job'[d] = [job[d] EXCEPT !.phase = "broken"]
      BY <1>2, <2>1, <2>3 DEF SandboxIInv, Placed
    <2> QED
      BY <2>2, <2>3 DEF D!Break
  <1> QED
    BY <1>2, <1>3 DEF SandboxIInv, ThrownAway, D!Break

(* The pool of the moment goes, and the documents that wait in it, because  *)
(* some process died.                                                       *)
LEMMA CatchBrokenKeeps ==
    ASSUME SandboxIInv, NEW c \in Members, D!CatchBroken(c)
    PROVE  SandboxIInv'
  <1> DEFINE a == [file |-> job[c].file, outcome |-> D!TooLarge("processing")]
             jobs == [job EXCEPT ![c] = D!IdleJob]
  <1>1. SomeBroken
    BY DEF SandboxIInv, Placed, D!CatchBroken
  <1>2. said' = [said EXCEPT ![c] = a] /\ D!DiscardPool(jobs)
    BY DEF D!CatchBroken
  <1>3. /\ DOMAIN pools' = D!PoolIds
        /\ \A q \in D!PoolIds :
             /\ DOMAIN pools'[q] = {"state", "spent"}
             /\ pools[q].state = "broken" => pools'[q].state = "broken"
    BY <1>2 DEF SandboxIInv, D!DiscardPool, D!Pool
  <1>4. SomeBroken'
    BY <1>1, <1>3 DEF SomeBroken
  <1>5. ASSUME NEW d \in Members PROVE Placed(job[d])'
    <2>1. Placed(jobs[d])
      BY IdlePlaced DEF SandboxIInv
    <2>2. job'[d] = jobs[d] \/ job'[d] = [jobs[d] EXCEPT !.phase = "cancelled"]
      BY <1>2 DEF D!DiscardPool
    <2> HIDE DEF jobs
    <2> QED
      BY <1>4, <2>1, <2>2 DEF Placed
  <1>6. ASSUME NEW d \in Members PROVE Judged(said[d])'
    <2>1. CASE d = c
      BY <1>2, <1>4, <2>1 DEF SandboxIInv, Judged
    <2>2. CASE d # c
      BY <1>2, <1>4, <2>2, OthersKeep DEF SandboxIInv
    <2> QED
      BY <2>1, <2>2
  <1> QED
    BY <1>2, <1>3, <1>4, <1>5, <1>6 DEF SandboxIInv, ThrownAway, D!DiscardPool

LEMMA CancelledKeeps ==
    ASSUME SandboxIInv, NEW c \in Members, D!Cancelled(c)
    PROVE  SandboxIInv'
  <1> DEFINE a == [file |-> job[c].file, outcome |-> Lost]
  <1>1. job[c].phase = "cancelled" /\ UNCHANGED <<pool, pools>> /\ SomeBroken
    BY DEF SandboxIInv, Placed, D!Cancelled
  <1>2. Judged(a)
    BY <1>1 DEF Judged
  <1>3. job' = [job EXCEPT ![c] = D!IdleJob] /\ said' = [said EXCEPT ![c] = a]
    BY DEF D!Cancelled, D!Answer
  <1> HIDE DEF a
  <1> QED
    BY <1>1, <1>2, <1>3, IdlePlaced, PoolsStayKeep DEF SandboxIInv

LEMMA ShutdownKeeps ==
    ASSUME SandboxIInv, D!Shutdown
    PROVE  SandboxIInv'
  <1>1. uploads = MaxUploads /\ UNCHANGED <<said, uploads>> /\ D!DiscardPool(job)
        /\ \A c \in Members : job[c].phase = "idle"
    BY DEF D!Shutdown
  <1>2. /\ DOMAIN pools' = D!PoolIds
        /\ \A q \in D!PoolIds :
             /\ DOMAIN pools'[q] = {"state", "spent"}
             /\ pools[q].state = "broken" => pools'[q].state = "broken"
    BY <1>1 DEF SandboxIInv, D!DiscardPool, D!Pool
  <1>3. SomeBroken => SomeBroken'
    BY <1>2 DEF SomeBroken
  <1>4. \A c \in Members : job'[c] = job[c]
    BY <1>1 DEF D!DiscardPool
  <1>5. \A c \in Members : Placed(job[c])' /\ Judged(said[c])'
    BY <1>1, <1>3, <1>4, OthersKeep
  <1> QED
    BY <1>1, <1>2, <1>4, <1>5 DEF SandboxIInv, ThrownAway, D!DiscardPool

LEMMA SandboxNext == SandboxIInv /\ [D!SNext]_(D!sandboxed) => SandboxIInv'
  <1> SUFFICES ASSUME SandboxIInv, [D!SNext]_(D!sandboxed) PROVE SandboxIInv'
    OBVIOUS
  <1>1. CASE UNCHANGED D!sandboxed
    <2>1. UNCHANGED <<pool, pools, job, said, uploads>>
      BY <1>1 DEF D!sandboxed
    <2>2. SomeBroken => SomeBroken'
      BY <2>1 DEF SomeBroken
    <2>3. \A c \in Members : Placed(job[c])' /\ Judged(said[c])'
      BY <2>1, <2>2, OthersKeep
    <2> QED
      BY <2>1, <2>2, <2>3 DEF SandboxIInv, ThrownAway
  <1>2. ASSUME NEW c \in Members, D!Read(c) PROVE SandboxIInv'
    BY <1>2, GetPoolKeeps, SubmitKeeps, FeedKeeps, ExtractKeeps, BreakKeeps, CatchBrokenKeeps, CancelledKeeps
       DEF D!Read, D!Killed
  <1>3. ASSUME NEW c \in Members, D!Reclaimed(c) PROVE SandboxIInv'
    BY <1>3, BreakKeeps DEF D!Reclaimed
  <1>4. ASSUME NEW c \in Members, NEW file \in Pdfs, D!Submits(c, file) PROVE SandboxIInv'
    BY <1>4, SubmitsKeeps
  <1> QED
    BY <1>1, <1>2, <1>3, <1>4, ShutdownKeeps DEF D!SNext, D!Closed

(* In whatever order and company documents are read, each is judged by what *)
(* it spends itself: it has the answer it would get alone, or a process     *)
(* died, and then no text is made up for it.                                *)
THEOREM NoDocumentPaysForAnother == D!SSpec => []DocumentsAreJudgedAlone
  <1>1. SandboxIInv => D!DocumentsAreJudgedAlone
    BY DEF SandboxIInv, Judged, SomeBroken, D!DocumentsAreJudgedAlone
  <1> QED
    BY <1>1, SandboxInit, SandboxNext, PTL DEF D!SSpec, DocumentsAreJudgedAlone

-----------------------------------------------------------------------------
(* The calendar feed.  Nothing is needed of the clock, the zone, the window *)
(* or the limits.                                                           *)

(* The token of the phone is a tag of the tasks it shows, and the request   *)
(* in flight carries that token.                                            *)
TokenTellsTheTasks ==
    /\ DOMAIN phone = {"credential", "token", "tasks", "answer"}
    /\ DOMAIN tx = {"pc", "credential", "token", "began"}
    /\ tx.pc \in {"idle", "scan", "report"}
    /\ phone.token # FullSync => phone.token = [tag |-> CollectionTag(phone.tasks)]
    /\ tx.pc # "idle" => tx.token = phone.token /\ phone.answer = None
    /\ phone.answer # None /\ phone.answer.status = "unchanged" => phone.answer.tasks = phone.tasks

(* The counter only grows: a request that was let in at the counter of its  *)
(* credential began at that one or an earlier one.                          *)
CredentialsAreCurrent ==
    /\ epoch \in Nat
    /\ tx.pc # "idle" => tx.began \in Nat /\ tx.began <= epoch
    /\ tx.pc = "report" => tx.credential \in Nat /\ tx.credential >= tx.began
    /\ phone.answer # None /\ phone.answer.status # "unauthorized" =>
         phone.answer.credential >= phone.answer.began

(* One revocation holds the row at a time, and hands back the credential of *)
(* the counter it is about to commit.                                       *)
LastRevocationLives ==
    /\ revocations \in Nat
    /\ DOMAIN revoking = Owners
    /\ \A o \in Owners : DOMAIN revoking[o] = {"pc", "handed"}
    /\ \A o \in Owners : revoking[o].pc = "commit" => revoking[o].handed = CredentialsFor(epoch + 1)
    /\ \A o, p \in Owners : revoking[o].pc = "commit" /\ revoking[p].pc = "commit" => o = p
    /\ revocations > 0 /\ ~Held => \E o \in Owners : Resolve(revoking[o].handed)

CalendarIInv == TokenTellsTheTasks /\ CredentialsAreCurrent /\ LastRevocationLives

LEMMA CalendarInit == Init => CalendarIInv
  <1> SUFFICES ASSUME Init PROVE CalendarIInv
    OBVIOUS
  <1>1. TokenTellsTheTasks
    BY DEF Init, TokenTellsTheTasks, Idle
  <1>2. CredentialsAreCurrent
    BY DEF Init, CredentialsAreCurrent, Idle
  <1>3. LastRevocationLives
    BY DEF Init, LastRevocationLives
  <1> QED
    BY <1>1, <1>2, <1>3 DEF CalendarIInv

(* A step of the phone leaves the household as it is.                       *)
LEMMA HouseholdStays ==
    ASSUME LastRevocationLives, UNCHANGED <<epoch, revoking, revocations>>
    PROVE  LastRevocationLives'
  BY DEF LastRevocationLives, Held, Resolve

LEMMA PollKeepsIInv ==
    ASSUME CalendarIInv, Poll
    PROVE  CalendarIInv'
  <1>1. LastRevocationLives'
    BY HouseholdStays DEF Poll, Same, CalendarIInv
  <1>2. CASE UNCHANGED <<tx, phone>>
    BY <1>1, <1>2 DEF Poll, Same, CalendarIInv, TokenTellsTheTasks, CredentialsAreCurrent
  <1>3. CASE ~ UNCHANGED <<tx, phone>>
    <2>1. /\ tx.pc = "idle" /\ epoch' = epoch
          /\ tx' = [pc |-> "scan", credential |-> phone.credential, token |-> phone.token, began |-> epoch]
          /\ phone' = [phone EXCEPT !.answer = None]
      BY <1>3 DEF Poll, Same
    <2>2. TokenTellsTheTasks'
      BY <2>1 DEF CalendarIInv, TokenTellsTheTasks
    <2>3. CredentialsAreCurrent'
      BY <2>1 DEF CalendarIInv, TokenTellsTheTasks, CredentialsAreCurrent
    <2> QED
      BY <1>1, <2>2, <2>3 DEF CalendarIInv
  <1> QED
    BY <1>2, <1>3

LEMMA AuthenticateKeepsIInv ==
    ASSUME CalendarIInv, Authenticate
    PROVE  CalendarIInv'
  <1>1. LastRevocationLives' /\ epoch' = epoch /\ tx.pc = "scan"
    BY HouseholdStays DEF Authenticate, Same, CalendarIInv
  <1>2. CASE ~Resolve(tx.credential)
    <2>1. phone' = [phone EXCEPT !.answer = Answer("unauthorized", None)] /\ tx' = Idle
      BY <1>2 DEF Authenticate
    <2>2. TokenTellsTheTasks'
      BY <2>1 DEF CalendarIInv, TokenTellsTheTasks, Idle, Answer
    <2>3. CredentialsAreCurrent'
      BY <1>1, <2>1 DEF CalendarIInv, TokenTellsTheTasks, CredentialsAreCurrent, Idle, Answer
    <2> QED
      BY <1>1, <2>2, <2>3 DEF CalendarIInv
  <1>3. CASE Resolve(tx.credential) /\ tx' = Idle
    <2>1. phone' = phone
      BY <1>1, <1>3 DEF Authenticate, Idle, CalendarIInv, TokenTellsTheTasks
    <2> QED
      BY <1>1, <1>3, <2>1 DEF CalendarIInv, TokenTellsTheTasks, CredentialsAreCurrent, Idle
  <1>4. CASE Resolve(tx.credential) /\ tx' # Idle
    <2>1. phone' = phone /\ tx' = [tx EXCEPT !.pc = "report"] /\ tx.credential = epoch
      BY <1>4 DEF Authenticate, Resolve, CredentialsFor
    <2>2. TokenTellsTheTasks'
      BY <1>1, <2>1 DEF CalendarIInv, TokenTellsTheTasks
    <2>3. CredentialsAreCurrent'
      BY <1>1, <2>1 DEF CalendarIInv, TokenTellsTheTasks, CredentialsAreCurrent
    <2> QED
      BY <1>1, <2>2, <2>3 DEF CalendarIInv
  <1> QED
    BY <1>2, <1>3, <1>4

(* An answer is given for the token the phone holds: the same tag is the    *)
(* same tasks.                                                              *)
LEMMA SyncCollectionKeepsIInv ==
    ASSUME CalendarIInv, SyncCollection
    PROVE  CalendarIInv'
  <1>1. LastRevocationLives' /\ epoch' = epoch /\ tx.pc = "report" /\ tx' = Idle
    BY HouseholdStays DEF SyncCollection, Same, CalendarIInv
  <1>2. tx.token = phone.token /\ tx.credential >= tx.began
    BY <1>1 DEF CalendarIInv, TokenTellsTheTasks, CredentialsAreCurrent
  <1> DEFINE tag == CollectionTag(Tasks)
  <1>3. CASE tx.token = FullSync
    <2>1. phone' = [phone EXCEPT !.token = [tag |-> tag], !.tasks = Tasks, !.answer = Answer("listed", None)]
      BY <1>3 DEF SyncCollection
    <2> HIDE DEF tag
    <2>2. TokenTellsTheTasks'
      BY <1>1, <2>1 DEF CalendarIInv, TokenTellsTheTasks, Idle, Answer, tag, CollectionTag
    <2>3. CredentialsAreCurrent'
      BY <1>1, <1>2, <2>1 DEF CalendarIInv, TokenTellsTheTasks, CredentialsAreCurrent, Idle, Answer
    <2> QED
      BY <1>1, <2>2, <2>3 DEF CalendarIInv
  <1>4. CASE tx.token # FullSync /\ tx.token = [tag |-> tag]
    <2>1. phone' = [phone EXCEPT !.answer = Answer("unchanged", Tasks)]
      BY <1>4 DEF SyncCollection
    <2>2. [tag |-> Tasks] = [tag |-> phone.tasks]
      BY <1>2, <1>4 DEF CalendarIInv, TokenTellsTheTasks, CollectionTag
    <2>3. Tasks = phone.tasks
      <3> HIDE DEF tag
      <3>1. [tag |-> Tasks].tag = [tag |-> phone.tasks].tag
        BY <2>2
      <3> QED
        BY <3>1
    <2>4. TokenTellsTheTasks'
      BY <1>1, <2>1, <2>3 DEF CalendarIInv, TokenTellsTheTasks, Idle, Answer
    <2>5. CredentialsAreCurrent'
      BY <1>1, <1>2, <2>1 DEF CalendarIInv, TokenTellsTheTasks, CredentialsAreCurrent, Idle, Answer
    <2> QED
      BY <1>1, <2>4, <2>5 DEF CalendarIInv
  <1>5. CASE tx.token # FullSync /\ tx.token # [tag |-> tag]
    <2>1. phone' = [phone EXCEPT !.token = FullSync, !.answer = Answer("invalid", None)]
      BY <1>5 DEF SyncCollection
    <2>2. TokenTellsTheTasks'
      BY <1>1, <2>1 DEF CalendarIInv, TokenTellsTheTasks, Idle, Answer
    <2>3. CredentialsAreCurrent'
      BY <1>1, <1>2, <2>1 DEF CalendarIInv, TokenTellsTheTasks, CredentialsAreCurrent, Idle, Answer
    <2> QED
      BY <1>1, <2>2, <2>3 DEF CalendarIInv
  <1> QED
    BY <1>3, <1>4, <1>5

LEMMA SubscribeKeepsIInv ==
    ASSUME CalendarIInv, Subscribe
    PROVE  CalendarIInv'
  <1>1. LastRevocationLives'
    BY HouseholdStays DEF Subscribe, Same, CalendarIInv
  <1>2. /\ tx.pc = "idle" /\ tx' = tx /\ epoch' = epoch
        /\ phone' = [phone EXCEPT !.credential = CredentialsFor(epoch)]
    BY DEF Subscribe, Same
  <1>3. TokenTellsTheTasks' /\ CredentialsAreCurrent'
    BY <1>2 DEF CalendarIInv, TokenTellsTheTasks, CredentialsAreCurrent
  <1> QED
    BY <1>1, <1>3 DEF CalendarIInv

LEMMA RevokeKeepsIInv ==
    ASSUME CalendarIInv, NEW o \in Owners, Revoke(o)
    PROVE  CalendarIInv'
  <1>1. /\ ~Held /\ epoch' = epoch /\ tx' = tx /\ phone' = phone /\ revocations' = revocations + 1
        /\ revoking' = [revoking EXCEPT ![o] = [pc |-> "commit", handed |-> CredentialsFor(epoch + 1)]]
    BY DEF Revoke, Rest
  <1>2. TokenTellsTheTasks' /\ CredentialsAreCurrent'
    BY <1>1 DEF CalendarIInv, TokenTellsTheTasks, CredentialsAreCurrent
  <1>3. revoking'[o].pc = "commit" /\ Held'
    BY <1>1 DEF CalendarIInv, LastRevocationLives, Held
  <1>4. LastRevocationLives'
    BY <1>1, <1>3 DEF CalendarIInv, LastRevocationLives, Held
  <1> QED
    BY <1>2, <1>4 DEF CalendarIInv

LEMMA CommitRevocationKeepsIInv ==
    ASSUME CalendarIInv, NEW o \in Owners, CommitRevocation(o)
    PROVE  CalendarIInv'
  <1>1. /\ revoking[o].pc = "commit" /\ epoch' = epoch + 1 /\ tx' = tx /\ phone' = phone
        /\ revocations' = revocations /\ revoking' = [revoking EXCEPT ![o].pc = "idle"]
    BY DEF CommitRevocation, Rest
  <1>2. TokenTellsTheTasks' /\ CredentialsAreCurrent'
    BY <1>1 DEF CalendarIInv, TokenTellsTheTasks, CredentialsAreCurrent
  <1>3. /\ DOMAIN revoking' = Owners
        /\ \A p \in Owners : DOMAIN revoking'[p] = {"pc", "handed"} /\ revoking'[p].pc # "commit"
        /\ revoking'[o].handed = CredentialsFor(epoch')
    BY <1>1 DEF CalendarIInv, LastRevocationLives
  <1>4. LastRevocationLives'
    BY <1>1, <1>3 DEF CalendarIInv, LastRevocationLives, Resolve
  <1> QED
    BY <1>2, <1>4 DEF CalendarIInv

LEMMA CalendarNext == CalendarIInv /\ [Next]_(vars) => CalendarIInv'
  <1> SUFFICES ASSUME CalendarIInv, [Next]_(vars) PROVE CalendarIInv'
    OBVIOUS
  <1>1. CASE UNCHANGED <<epoch, revoking, revocations, phone, tx>>
    BY <1>1, HouseholdStays DEF CalendarIInv, TokenTellsTheTasks, CredentialsAreCurrent
  <1>2. CASE Poll
    BY <1>2, PollKeepsIInv
  <1>3. CASE Authenticate
    BY <1>3, AuthenticateKeepsIInv
  <1>4. CASE SyncCollection
    BY <1>4, SyncCollectionKeepsIInv
  <1>5. CASE Subscribe
    BY <1>5, SubscribeKeepsIInv
  <1>6. CASE Refill
    BY <1>1, <1>6 DEF Refill, Same
  <1>7. ASSUME NEW o \in Owners, Revoke(o) PROVE CalendarIInv'
    BY <1>7, RevokeKeepsIInv
  <1>8. ASSUME NEW o \in Owners, CommitRevocation(o) PROVE CalendarIInv'
    BY <1>8, CommitRevocationKeepsIInv
  <1>9. ASSUME NEW l \in Lots, Change(l) PROVE CalendarIInv'
    BY <1>1, <1>9 DEF Change
  <1>10. CASE Tick
    BY <1>1, <1>10 DEF Tick
  <1>11. CASE UNCHANGED vars
    BY <1>1, <1>11 DEF vars
  <1> QED
    BY <1>2, <1>3, <1>4, <1>5, <1>6, <1>7, <1>8, <1>9, <1>10, <1>11 DEF Next

(* A phone that is told nothing has changed holds what it would be sent.    *)
THEOREM UnchangedMeansUnchanged == Spec => []SyncTellsTheTruth
  <1>1. CalendarIInv => SyncTellsTheTruth
    BY DEF CalendarIInv, TokenTellsTheTasks, SyncTellsTheTruth
  <1> QED
    BY <1>1, CalendarInit, CalendarNext, PTL DEF Spec

(* A request that begins after a revocation was committed reads nothing     *)
(* with what was revoked, and the credential handed back last is the one    *)
(* that lives.                                                              *)
THEOREM RevokedCredentialsReadNothing == Spec => []RevokedReadsNothing
  <1>1. CalendarIInv => RevokedReadsNothing
    BY DEF CalendarIInv, CredentialsAreCurrent, LastRevocationLives, RevokedReadsNothing
  <1> QED
    BY <1>1, CalendarInit, CalendarNext, PTL DEF Spec
=============================================================================
