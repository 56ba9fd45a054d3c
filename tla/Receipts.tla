------------------------------ MODULE Receipts ------------------------------
(***************************************************************************)
(* Till receipts: read in, reviewed, confirmed into stock or discarded     *)
(* (services/receipts.py), by concurrent requests of one household.  One   *)
(* request is one READ COMMITTED transaction: what it writes is its own    *)
(* until Commit, and a row it wrote makes the others wait.  The intake of  *)
(* one line is the "add" of module Inventory, seen from outside: it finds  *)
(* a lot or not, then merges into it or creates it.                        *)
(***************************************************************************)
EXTENDS Integers, Sequences, FiniteSets

CONSTANTS
    Clients,      \* requests that can be in flight together
    Ids,          \* receipt identifiers (bound: receipts ever stored)
    Files,        \* uploads, by the SHA-256 of their bytes
    LineNos,      \* the lines read from every file
    Names,        \* product names, up to case
    Listed,       \* the names the catalogue already holds
    Requests,     \* the requests the clients may send
    Unknown,      \* a product or a line of nobody's
    None,
    Gone,         \* the mark of an identifier whose receipt was deleted
    MaxRequests   \* bound: requests issued in the behaviour

(* A product is a name and the request that created it, None for those of   *)
(* the catalogue: nothing in the schema keeps two from having one name.     *)
Products == Names \X (Clients \cup {None})

(* One line of a confirmation.  "stock" carries a usable quantity,          *)
(* "nothing" none or a unit unknown here, and the intake of "refused" fails *)
(* (a place of another household, a quantity that rounds to zero, a kind of *)
(* date without a date).                                                    *)
Decision == [line : LineNos \cup {Unknown}, name : Names \cup {Unknown},
             gives : {"stock", "nothing", "refused"}]

Import(file) == [op |-> "import", file |-> file, id |-> None, decisions |-> <<>>]
Confirm(r, decisions) == [op |-> "confirm", file |-> None, id |-> r, decisions |-> decisions]
Discard(r) == [op |-> "discard", file |-> None, id |-> r, decisions |-> <<>>]

VARIABLES
    receipts,  \* the committed receipt rows, Gone once deleted
    products,  \* the committed product rows
    shelf,     \* intakes of each product on its committed lot, 0 without one
    intakes,   \* intakes committed for each line of each receipt
    tx,        \* the transaction of each client
    reply,     \* what each client was last answered
    issued     \* requests issued so far

vars == <<receipts, products, shelf, intakes, tx, reply, issued>>

LineStates == {"proposed", "confirmed", "ignored"}
Row == [file : Files, status : {"parsed", "confirmed"}, lines : [LineNos -> LineStates]]

ASSUME ReceiptsAssumption ==
    /\ MaxRequests \in Nat
    /\ Listed \subseteq Names
    /\ Unknown \notin Names /\ Unknown \notin LineNos
    /\ None \notin Clients /\ None \notin Ids /\ None \notin Files
    /\ \A req \in Requests :
         \/ \E file \in Files : req = Import(file)
         \/ \E r \in Ids : req = Discard(r)
         \/ /\ req.id \in Ids /\ req.decisions \in Seq(Decision)
            /\ req = Confirm(req.id, req.decisions)
    /\ None \notin Row \cup Products \cup {"insert", "confirm", "delete"} /\ Gone \notin Row \cup {None}

Proposed(file) == [file |-> file, status |-> "parsed", lines |-> [n \in LineNos |-> "proposed"]]

Stored(r) == receipts[r] \notin {None, Gone}
Confirmed(r) == Stored(r) /\ receipts[r].status = "confirmed"

(* stocked: the intakes of this transaction, and whether each created its   *)
(* lot; marked: the lines it has updated; wrote: what it did to the receipt.*)
IdleTx == [phase |-> "idle", req |-> None, id |-> None, todo |-> <<>>, lines |-> {},
           kept |-> {}, product |-> None, found |-> FALSE, made |-> {},
           stocked |-> {}, marked |-> {}, wrote |-> None]

NoReply == [outcome |-> None, names |-> None]

Init ==
    /\ receipts = [r \in Ids |-> None]
    /\ products = {<<name, None>> : name \in Listed}
    /\ shelf = [p \in Products |-> 0]
    /\ intakes = [r \in Ids |-> [n \in LineNos |-> 0]]
    /\ tx = [c \in Clients |-> IdleTx]
    /\ reply = [c \in Clients |-> NoReply]
    /\ issued = 0

(* The stock as a transaction leaves it.                                    *)
ShelfAfter(t) ==
    [p \in Products |-> shelf[p] + Cardinality({s \in t.stocked : s.product = p})]

IntakesAfter(t) ==
    IF t.stocked = {} THEN intakes
    ELSE [intakes EXCEPT ![t.id] =
            [n \in LineNos |-> @[n] + Cardinality({s \in t.stocked : s.line = n})]]

(* Mutant: each intake is committed by itself.                              *)
MutRollbackKeepsStock(c, outcome, named) ==
    /\ reply' = [reply EXCEPT ![c] = [outcome |-> outcome, names |-> named]]
    /\ tx' = [tx EXCEPT ![c] = IdleTx]
    /\ shelf' = ShelfAfter(tx[c])
    /\ intakes' = IntakesAfter(tx[c])
    /\ UNCHANGED <<receipts, products, issued>>

(* Mutant: a refusal is answered, and its transaction is left open.         *)
MutRollbackLeftOpen(c, outcome, named) ==
    /\ reply' = [reply EXCEPT ![c] = [outcome |-> outcome, names |-> named]]
    /\ tx' = [tx EXCEPT ![c] = IF outcome \in {"deadlock", "interrupted"} THEN IdleTx
                               ELSE [@ EXCEPT !.phase = "idle"]]
    /\ UNCHANGED <<receipts, products, shelf, intakes, issued>>

Rollback(c, outcome, named) ==
    /\ reply' = [reply EXCEPT ![c] = [outcome |-> outcome, names |-> named]]
    /\ tx' = [tx EXCEPT ![c] = IdleTx]
    /\ UNCHANGED <<receipts, products, shelf, intakes, issued>>

Go(c, t) ==
    /\ tx' = [tx EXCEPT ![c] = t]
    /\ UNCHANGED <<receipts, products, shelf, intakes, reply, issued>>

First(op) == CASE op = "import" -> "digest" [] op = "confirm" -> "require" [] op = "discard" -> "require"

Begin(c, req) ==
    /\ tx[c].phase = "idle" /\ issued < MaxRequests
    /\ issued' = issued + 1
    /\ tx' = [tx EXCEPT ![c] = [IdleTx EXCEPT !.phase = First(req.op), !.req = req,
                                              !.id = req.id, !.todo = req.decisions]]
    /\ reply' = [reply EXCEPT ![c] = NoReply]
    /\ UNCHANGED <<receipts, products, shelf, intakes>>

-----------------------------------------------------------------------------
(* The rows a transaction has written or locked, and those it waits for.    *)

WroteReceipt(d, r) == tx[d].id = r /\ tx[d].wrote # None
WroteLine(d, r, n) == tx[d].id = r /\ n \in tx[d].marked
(* The foreign key of a new lot locks its receipt line against deletion.    *)
SharesLine(d, r, n) == tx[d].id = r /\ \E s \in tx[d].stocked : s.line = n /\ s.new
HoldsLot(d, p) == \E s \in tx[d].stocked : s.product = p
InsertsFile(d, file) == tx[d].wrote = "insert" /\ tx[d].req.file = file
DeletesFile(d, file) == tx[d].wrote = "delete" /\ receipts[tx[d].id].file = file

WaitsFor(c, d) ==
    LET t == tx[c]
    IN  /\ d # c
        /\ CASE t.phase = "read" -> InsertsFile(d, t.req.file) \/ DeletesFile(d, t.req.file)
             [] t.phase = "stock" -> \/ HoldsLot(d, t.product)
                                     \/ ~t.found /\ tx[d].wrote = "delete"
                                        /\ WroteLine(d, t.id, Head(t.todo).line)
             [] t.phase = "mark" -> WroteLine(d, t.id, Head(t.todo).line)
             [] t.phase = "settle" -> \/ WroteReceipt(d, t.id)
                                      \/ \E n \in t.lines : WroteLine(d, t.id, n)
             [] t.phase = "erase" -> WroteReceipt(d, t.id)
             [] t.phase = "cascade" -> \E n \in LineNos : WroteLine(d, t.id, n)
                                                          \/ SharesLine(d, t.id, n)
             [] OTHER -> FALSE

Free(c) == \A d \in Clients : ~WaitsFor(c, d)

-----------------------------------------------------------------------------
(* propose: refuse a file seen before, read it, store what was read.        *)

CheckDigest(c) ==
    LET same == {r \in Ids : Stored(r) /\ receipts[r].file = tx[c].req.file}
    IN  /\ tx[c].phase = "digest"
        /\ IF same = {} THEN Go(c, [tx[c] EXCEPT !.phase = "read"])
           ELSE \E r \in same : Rollback(c, "already_imported", r)

(* No text in the PDF, no model, or a model that fails: nothing is stored.  *)
ReadFails(c) == tx[c].phase = "read" /\ Rollback(c, "unreadable", None)

(* The INSERT meets uq_receipt_household_sha256; an identifier is made by   *)
(* that INSERT, so when it fails the refusal has none to name.              *)
Store(c) ==
    /\ tx[c].phase = "read" /\ Free(c)
    /\ IF \E r \in Ids : Stored(r) /\ receipts[r].file = tx[c].req.file
       THEN Rollback(c, "already_imported", None)
       ELSE \E r \in Ids : /\ receipts[r] = None /\ \A d \in Clients : tx[d].id # r
                           /\ Go(c, [tx[c] EXCEPT !.id = r, !.wrote = "insert",
                                                  !.phase = "commit"])

-----------------------------------------------------------------------------
(* _require, for confirm and discard: a plain SELECT, which locks nothing.  *)

Require(c) ==
    LET t == tx[c]
    IN  /\ t.phase = "require"
        /\ IF ~Stored(t.id) THEN Rollback(c, "not_found", None)
           ELSE IF Confirmed(t.id) THEN Rollback(c, "already_confirmed", None)
           ELSE Go(c, [t EXCEPT !.phase = IF t.req.op = "confirm" THEN "load" ELSE "erase"])

(* confirm: the lines as they are stored now.                               *)
LoadLines(c) ==
    /\ tx[c].phase = "load"
    /\ Go(c, [tx[c] EXCEPT !.lines = IF Stored(tx[c].id) THEN LineNos ELSE {},
                           !.phase = "line"])

Visible(c) == products \cup tx[c].made

(* A line that is not of this receipt, or that was already decided.         *)
Dropped(t, decision) == decision.line \notin t.lines \ t.kept

DropDecision(c) ==
    LET t == tx[c]
    IN  /\ t.phase = "line" /\ t.todo # <<>> /\ Dropped(t, Head(t.todo))
        /\ Go(c, [t EXCEPT !.todo = Tail(@)])

(* _resolve_target: the product of that name that this request can see, or  *)
(* a new private one.  An unusable quantity leads straight to the mark.     *)
ResolveTarget(c) ==
    LET t == tx[c]
        decision == Head(t.todo)
        known == {p \in Visible(c) : p[1] = decision.name}
        next == IF decision.gives = "nothing" THEN "mark" ELSE "find"
    IN  /\ t.phase = "line" /\ t.todo # <<>> /\ ~Dropped(t, decision)
        /\ IF decision.name = Unknown THEN Rollback(c, "product_not_found", None)
           ELSE IF known # {}
           THEN \E p \in known : Go(c, [t EXCEPT !.phase = next, !.product = p,
                                                 !.kept = @ \cup {decision.line}])
           ELSE LET p == <<decision.name, c>>
                IN  Go(c, [t EXCEPT !.phase = next, !.product = p,
                                    !.made = @ \cup {p},
                                    !.kept = @ \cup {decision.line}])

(* The intake looks for a lot to merge into ...                             *)
FindLot(c) ==
    LET t == tx[c]
    IN  /\ t.phase = "find"
        /\ IF Head(t.todo).gives = "refused" THEN Rollback(c, "intake_refused", None)
           ELSE Go(c, [t EXCEPT !.phase = "stock",
                                !.found = shelf[t.product] > 0 \/ HoldsLot(c, t.product)])

(* ... and merges, once nobody else has it, or creates it.  A lot that has  *)
(* appeared meanwhile breaks the unique index, and a line that was deleted  *)
(* the foreign key.                                                         *)
StockLine(c) ==
    LET t == tx[c]
        line == Head(t.todo).line
        intake == [line |-> line, product |-> t.product, new |-> ~t.found]
    IN  /\ t.phase = "stock" /\ Free(c)
        /\ IF t.found \/ (shelf[t.product] = 0 /\ Stored(t.id))
           THEN Go(c, [t EXCEPT !.phase = "mark", !.stocked = @ \cup {intake}])
           ELSE Rollback(c, "intake_refused", None)

(* The UPDATE of the line is flushed by the query that comes next; one that *)
(* matches no row ends the request.                                         *)
MarkLine(c) ==
    LET t == tx[c]
    IN  /\ t.phase = "mark" /\ Free(c)
        /\ IF Stored(t.id)
           THEN Go(c, [t EXCEPT !.phase = "line", !.marked = @ \cup {Head(t.todo).line},
                                !.todo = Tail(@)])
           ELSE Rollback(c, "stale", None)

(* The lines nobody kept are ignored, and the receipt is confirmed.         *)
Settle(c) ==
    LET t == tx[c]
    IN  \/ /\ t.phase = "line" /\ t.todo = <<>>
           /\ Go(c, [t EXCEPT !.phase = "settle"])
        \/ /\ t.phase = "settle" /\ Free(c)
           /\ IF Stored(t.id)
              THEN Go(c, [t EXCEPT !.phase = "commit", !.wrote = "confirm", !.marked = t.lines])
              ELSE Rollback(c, "stale", None)

-----------------------------------------------------------------------------
(* discard: the receipt, then its lines by cascade.  Deleting a row that is *)
(* no longer there is not an error.                                         *)

Erase(c) ==
    /\ tx[c].phase = "erase" /\ Free(c)
    /\ Go(c, IF Stored(tx[c].id) THEN [tx[c] EXCEPT !.phase = "cascade", !.wrote = "delete"]
             ELSE [tx[c] EXCEPT !.phase = "commit"])

Cascade(c) ==
    /\ tx[c].phase = "cascade" /\ Free(c)
    /\ Go(c, [tx[c] EXCEPT !.phase = "commit", !.marked = LineNos])

-----------------------------------------------------------------------------
(* The lines as one confirmation leaves them.                               *)
LinesAfter(t, lines) ==
    [n \in LineNos |-> IF n \in t.kept THEN "confirmed"
                       ELSE IF n \in t.lines THEN "ignored" ELSE lines[n]]

ReceiptAfter(t) ==
    CASE t.wrote = "insert" -> [receipts EXCEPT ![t.id] = Proposed(t.req.file)]
      [] t.wrote = "confirm" -> [receipts EXCEPT ![t.id].status = "confirmed",
                                                 ![t.id].lines = LinesAfter(t, @)]
      [] t.wrote = "delete" -> [receipts EXCEPT ![t.id] = Gone]
      [] OTHER -> receipts

Commit(c) ==
    LET t == tx[c]
    IN  /\ t.phase = "commit"
        /\ receipts' = ReceiptAfter(t)
        /\ products' = products \cup t.made
        /\ shelf' = ShelfAfter(t)
        /\ intakes' = IntakesAfter(t)
        /\ tx' = [tx EXCEPT ![c] = IdleTx]
        /\ reply' = [reply EXCEPT ![c] = [outcome |-> "ok", names |-> t.id]]
        /\ UNCHANGED issued

(* The connection is lost or the process stops.                             *)
Interrupt(c) == tx[c].phase # "idle" /\ Rollback(c, "interrupted", None)

Deadlocked(c) ==
    \E S \in SUBSET Clients :
        /\ c \in S
        /\ \A d \in S : (\E e \in S : WaitsFor(d, e)) /\ (\E e \in S : WaitsFor(e, d))

DeadlockVictim(c) == Deadlocked(c) /\ Rollback(c, "deadlock", None)

Finished ==
    /\ issued = MaxRequests \/ \A r \in Ids : receipts[r] # None
    /\ \A c \in Clients : tx[c].phase = "idle"
    /\ UNCHANGED vars

Serve(c) ==
    \/ CheckDigest(c) \/ ReadFails(c) \/ Store(c)
    \/ Require(c) \/ LoadLines(c) \/ DropDecision(c) \/ ResolveTarget(c)
    \/ FindLot(c) \/ StockLine(c) \/ MarkLine(c) \/ Settle(c)
    \/ Erase(c) \/ Cascade(c) \/ Commit(c) \/ DeadlockVictim(c)

Next ==
    \/ \E c \in Clients : \E req \in Requests : Begin(c, req)
    \/ \E c \in Clients : Serve(c) \/ Interrupt(c)
    \/ Finished

Spec == Init /\ [][Next]_vars

-----------------------------------------------------------------------------
(* A receipt that is still a proposal has put nothing in stock: whatever    *)
(* fails, waits or is interrupted in a confirmation takes everything back.  *)
ParsedIsUnstocked ==
    \A r \in Ids : (Stored(r) /\ ~Confirmed(r)) =>
        \A n \in LineNos : intakes[r][n] = 0 /\ receipts[r].lines[n] = "proposed"

(* A confirmed receipt has no line left to decide.                          *)
ConfirmedIsDecided ==
    \A r \in Ids : Confirmed(r) =>
        \A n \in LineNos : receipts[r].lines[n] \in {"confirmed", "ignored"}

(* A receipt and its lines tell one story, whatever fails, waits, repeats   *)
(* or interrupts: all of it is a proposal, or all of it is decided.         *)
LinesFollowTheReceipt == ParsedIsUnstocked /\ ConfirmedIsDecided

(* "Idempotent by refusal, not by replay": confirming again never doubles   *)
(* the inventory.                                                           *)
NoLineStockedTwice == \A r \in Ids, n \in LineNos : intakes[r][n] <= 1
=============================================================================
