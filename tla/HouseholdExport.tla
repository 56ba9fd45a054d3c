--------------------------- MODULE HouseholdExport ---------------------------
(***************************************************************************)
(* The document a household may ask for: every row it holds, table by      *)
(* table, and what makes the rows legible (services/privacy.py,            *)
(* api/routers/privacy.py).  Each table is read by a statement of its own, *)
(* the accounts and the public products last; under READ COMMITTED the     *)
(* other members go on between two statements, and one may even erase the  *)
(* household.                                                              *)
(***************************************************************************)
EXTENDS Integers, Sequences

CONSTANTS
    Tables,      \* TENANT_TABLES, in dependency order: the products before what names them
    References,  \* the tables with a column that names a product
    Matched,     \* the one of them whose rows are pointed at another product
    Catalogue,   \* the table of the products
    Households, House, \* all of them, and the one that asks
    Ids,         \* identifiers of rows
    Persons, Requester,
    Databases,   \* the rows to start from
    None,
    MaxChanges   \* bound: what the members and the other households do meanwhile

(* The household of a public product is None.                               *)
Row == [table : {Tables[i] : i \in DOMAIN Tables}, house : Households \cup {None}, product : Ids \cup {None}]

(* What a household may name: a product of its own or a public one.         *)
Visible(rows, house) ==
    {i \in Ids : rows[i] # None /\ rows[i].table = Catalogue /\ rows[i].house \in {house, None}}

(* The constraints of the schema on a row.                                  *)
Allowed(rows, r) ==
    /\ r.table \in References <=> r.product # None
    /\ r.house = None => r.table = Catalogue
    /\ r.product # None => r.product \in Visible(rows, r.house)

HouseholdExportAssumption ==
    /\ Tables \in Seq(STRING) /\ References \subseteq STRING
    /\ \A i, j \in DOMAIN Tables : Tables[i] = Catalogue /\ Tables[j] \in References => i < j
    /\ Databases \subseteq [Ids -> Row \cup {None}]
    /\ \A d \in Databases, i \in Ids : d[i] # None => Allowed(d, d[i])
    /\ Matched \in References
    /\ Catalogue \in {Tables[i] : i \in DOMAIN Tables} \ References
    /\ House \in Households /\ Requester \in Persons /\ None \notin Ids \cup Households \cup Row
    /\ MaxChanges \in Nat

VARIABLES
    row,      \* each identifier: its table, its household, the product it names, or None
    members,  \* who belongs to the household
    standing, \* the household exists
    at,       \* 0, then the number of the next statement
    document, \* what has been read
    steady,   \* the rows unchanged since the document was begun, a history variable
    stayed,   \* who has been a member since then, a history variable
    late,     \* the products born since then, a history variable
    changes

home == <<row, members, standing, changes>>
vars == <<home, at, document, steady, stayed, late>>

Blank == [rows |-> {}, accounts |-> {}, public |-> {}]

Rows(table, house) == {i \in Ids : row[i] # None /\ row[i].table = table /\ row[i].house = house}

Init ==
    /\ row \in Databases
    /\ members \in {m \in SUBSET Persons : Requester \in m}
    /\ standing = TRUE
    /\ at = 0 /\ document = Blank
    /\ steady = {} /\ stayed = {} /\ late = {} /\ changes = 0

-----------------------------------------------------------------------------
(* One statement after another: the tables, the accounts, the products.     *)
AccountsTurn == Len(Tables) + 1
ProductsTurn == Len(Tables) + 2
Done == Len(Tables) + 3

(* Only for an owner, and of a household that exists.                       *)
Begin ==
    /\ at = 0 /\ standing /\ Requester \in members
    /\ at' = 1
    /\ steady' = {i \in Ids : row[i] # None /\ row[i].house = House} /\ stayed' = members
    /\ late' = {}
    /\ UNCHANGED <<home, document>>

Written(i) == [id |-> i, table |-> row[i].table, house |-> row[i].house, product |-> row[i].product]

RowsOf ==
    /\ at \in DOMAIN Tables
    /\ document' = [document EXCEPT !.rows = @ \cup {Written(i) : i \in Rows(Tables[at], House)}]
    /\ at' = at + 1
    /\ UNCHANGED <<home, steady, stayed, late>>

(* The members of the moment, and the address of the one who asks.          *)
MemberAccounts ==
    /\ at = AccountsTurn
    /\ document' = [document EXCEPT !.accounts =
          {[id |-> p, email |-> p = Requester] : p \in members}]
    /\ at' = at + 1
    /\ UNCHANGED <<home, steady, stayed, late>>

(* Mutant: the products of one table only.                                  *)
MutWanted == {r.product : r \in {r \in document.rows : r.table = CHOOSE t \in References : TRUE}} \ {None}

Wanted == {r.product : r \in {r \in document.rows : r.table \in References}}

ReferencedPublicProducts ==
    /\ at = ProductsTurn
    /\ document' = [document EXCEPT !.public = Wanted \cap Rows(Catalogue, None)]
    /\ at' = at + 1
    /\ UNCHANGED <<home, steady, stayed, late>>

-----------------------------------------------------------------------------
(* What goes on meanwhile.                                                  *)
Meanwhile(rows, people) ==
    /\ at < Done
    /\ changes < MaxChanges /\ changes' = changes + 1
    /\ row' = rows /\ members' = people
    /\ steady' = {i \in steady : rows[i] = row[i]}
    /\ stayed' = stayed \cap people
    /\ late' = late \cup {i \in Ids : row[i] = None /\ rows[i] # None /\ rows[i].table = Catalogue}
    /\ UNCHANGED <<at, document>>

Insert(i, r) ==
    /\ row[i] = None /\ Allowed(row, r) /\ (r.house = House => standing)
    /\ Meanwhile([row EXCEPT ![i] = r], members) /\ UNCHANGED standing

(* A line, a receipt or a person; no product goes but with its household.   *)
Delete(i) ==
    /\ row[i] # None /\ row[i].table # Catalogue
    /\ Meanwhile([row EXCEPT ![i] = None], members) /\ UNCHANGED standing

(* A line of a receipt is confirmed as another product.                     *)
Repoint(i, p) ==
    /\ row[i] # None /\ row[i].table = Matched /\ p \in Visible(row, row[i].house)
    /\ Meanwhile([row EXCEPT ![i].product = p], members) /\ UNCHANGED standing

Join(p) == standing /\ Meanwhile(row, members \cup {p}) /\ UNCHANGED standing
Leave(p) == p # Requester /\ Meanwhile(row, members \ {p}) /\ UNCHANGED standing

(* Erased by another owner: every row of it goes at once.                   *)
Erase ==
    /\ standing /\ standing' = FALSE
    /\ Meanwhile([i \in Ids |-> IF row[i] # None /\ row[i].house = House THEN None ELSE row[i]], {})

Finished == (at = Done \/ (at = 0 /\ ~standing)) /\ UNCHANGED vars

Next ==
    \/ Begin \/ RowsOf \/ MemberAccounts \/ ReferencedPublicProducts \/ Erase \/ Finished
    \/ \E i \in Ids : Delete(i) \/ \E r \in Row : Insert(i, r)
    \/ \E i, p \in Ids : Repoint(i, p)
    \/ \E p \in Persons : Join(p) \/ Leave(p)

Spec == Init /\ [][Next]_vars

-----------------------------------------------------------------------------
(* privacy.py:468-509: whatever the members did meanwhile, the document     *)
(* holds every row and names every member that stayed, nothing of another   *)
(* household, and says of every product a row names what it is, unless the  *)
(* product is the household's and was born while the document was written.  *)
DocumentIsWhole ==
    at = Done =>
        LET here == {r.id : r \in document.rows}
        IN  /\ steady \subseteq here /\ stayed \subseteq {a.id : a \in document.accounts}
            /\ \A r \in document.rows : r.house = House
            /\ \A r \in document.rows :
                  r.product # None => r.product \in here \cup document.public \cup late
=============================================================================
