----------------------------- MODULE MCPurchases -----------------------------
(***************************************************************************)
(* Small instances of Receipts, of ShoppingImport and of the three parts   *)
(* of Parts.  Each is explored with the others at rest in their initial    *)
(* state.  Receipts have two lines, one name in the catalogue and one that *)
(* a confirmation has to create; the lists have two units of mass and one  *)
(* of volume, and are those of a new household; a document has up to four  *)
(* lines, of which three are read, and two of those are put to a model;    *)
(* the one connection of a database serves two requests in turn; a pool    *)
(* has one process.                                                        *)
(***************************************************************************)
EXTENDS Receipts, Parts, TLC

CONSTANTS
    r1, r2, f1, f2, l1, l2, p1, p2, h1, h2

VARIABLES
    raws, readings, touched, matches, batch, answered, stage,
    about   \* which of the five is explored

MCNames == {"milk", "flour"}
MCListed == {"milk"}

Line(n, name, gives) == [line |-> n, name |-> name, gives |-> gives]

(* Both lines, in two orders, and reviews that repeat or mistake a line.    *)
Both == <<Line(1, "milk", "stock"), Line(2, "flour", "stock")>>
Crossed == <<Line(2, "flour", "stock"), Line(1, "milk", "stock")>>
Repeated == <<Line(1, "milk", "stock"), Line(1, "milk", "stock"), Line(Unknown, "milk", "stock")>>
Unquantified == <<Line(1, "flour", "nothing")>>
Misplaced == <<Line(1, "milk", "stock"), Line(2, "milk", "refused")>>
Misnamed == <<Line(1, "milk", "stock"), Line(2, Unknown, "stock")>>

RaceRequests ==
    {Import(f1), Import(f2), Discard(r1), Confirm(r1, Both), Confirm(r1, Repeated),
     Confirm(r2, Crossed), Confirm(r2, Unquantified), Confirm(r2, Misplaced),
     Confirm(r2, Misnamed)}

DoubleRequests == {Import(f1), Confirm(r1, Unquantified), Confirm(r1, Both)}

-----------------------------------------------------------------------------
MCUnits == {"g", "kg", "ml"}
MCDimension == [u \in MCUnits |-> IF u = "ml" THEN "volume" ELSE "mass"]

Blank == [op |-> "read", list |-> None, items |-> <<>>, item |-> None,
          checked |-> Unset, quantity |-> Unset, products |-> <<>>]
Add(added) == [Blank EXCEPT !.op = "add", !.items = added]
ConfirmImport(l, added) == [Blank EXCEPT !.op = "import", !.list = l, !.items = added]
Edit(checked, quantity) == [Blank EXCEPT !.op = "edit", !.item = 1, !.checked = checked, !.quantity = quantity]
Remove(i) == [Blank EXCEPT !.op = "remove", !.item = i]
Decline(op, products_named) == [Blank EXCEPT !.op = op, !.products = products_named]

Nothing == [value |-> None, unit |-> None, dim |-> None]
Amount(value, unit) == [value |-> value, unit |-> unit, dim |-> MCDimension[unit]]
Odd == [value |-> 1, unit |-> Unknown, dim |-> None]
Loose == [quantity |-> Nothing, valid |-> TRUE]
Grams == [quantity |-> Amount(5, "g"), valid |-> TRUE]
Misspelt == [quantity |-> Nothing, valid |-> FALSE]

(* Every request, on the first items of the list and on two refusals.       *)
AllListRequests ==
    {Blank, Add(<<Grams, Loose>>), Add(<<Loose, Misspelt>>), ConfirmImport(None, <<Loose>>),
     ConfirmImport(l1, <<Loose>>), ConfirmImport(Unknown, <<Loose>>),
     Edit(TRUE, Unset), Edit(FALSE, Amount(7, "g")), Edit(Unset, Nothing),
     Edit(Unset, Amount(5, "ml")), Edit(TRUE, Odd), Remove(1), Remove(2),
     Decline("decline", <<p1, p2>>), Decline("decline", <<p2, p1>>), Decline("decline", <<p1, Unknown>>),
     Decline("undecline", <<p1>>)}

TornRequests == {Add(<<Grams>>), Edit(Unset, Amount(7, "g")), Edit(Unset, Amount(1, "kg"))}

-----------------------------------------------------------------------------
Asking(op, proves, header) == [op |-> op, proves |-> proves, header |-> header]

(* One member of one household and of two, with and without a choice, a     *)
(* token used with the header of another household, and the other ways in.  *)
MCAsks ==
    {Asking("browse", {h1}, None), Asking("browse", {h1, h2}, h2), Asking("browse", {h1, h2}, None),
     Asking("browse", {h1}, h2), Asking("create", {h1}, None), Asking("remove", {h2}, None),
     Asking("erase", {h1}, None), Asking("token", {h1}, h2), Asking("token", {h2}, None),
     Asking("feed", {h1}, None), Asking("redeem", {h2}, None), Asking("register", {}, None)}

(* Three members send a recap that is read, one that is too heavy, and one  *)
(* inside which a process is lost.                                          *)
P == INSTANCE MCReviews
MCPdfs == P!MCPdfs

-----------------------------------------------------------------------------
Label(spelled, folded, words) == [spelled |-> spelled, folded |-> folded, words |-> words]
Milk == Label("milk", "milk", 1)
Creme == Label("creme", "creme", 1)
Accented == Label("cr^eme", "creme", 1)
Sentence == Label("dont forget the milk", "dont forget the milk", 4)
Bare == [form |-> "none", amount |-> None, unit |-> None]
Form(form, amount, unit) == [form |-> form, amount |-> amount, unit |-> unit]
Text(raw, head, label, tail, whole) ==
    [raw |-> raw, head |-> head, label |-> label, tail |-> tail, whole |-> whole]

(* Two pieces by a multiplier, 500 g before, 1 g after, a dozen, an amount  *)
(* past the bound, a plain name in two spellings, a sentence, and a price.  *)
MCLines ==
    {Text("2 x milk", Form("times", 20, None), Milk, Bare, Label("2 x milk", "2 x milk", 3)),
     Text("50 g creme", Form("number", 500, "g"), Creme, Bare, Label("50 g creme", "50 g creme", 3)),
     Text("creme 1 g", Bare, Creme, Form("number", 10, "g"), Label("creme 1 g", "creme 1 g", 3)),
     Text("dozen milk", Form("dozen", 120, None), Milk, Bare, Label("dozen milk", "dozen milk", 2)),
     Text("900 milk x9", Form("number", 9000, None), Milk, Form("times", 9000, None), Sentence),
     Text("creme", Bare, None, Bare, Creme), Text("cr^eme", Bare, None, Bare, Accented),
     Text("dont forget the milk", Bare, None, Bare, Sentence), Text("2,50", Bare, None, Bare, None)}

(* Every document of two lines, and longer ones that repeat a line, hold    *)
(* more of them than the model is asked about, or than are read.            *)
Unread == Text("dont forget the milk", Bare, None, Bare, Sentence)
Priced == Text("2,50", Bare, None, Bare, None)
Plain == Text("creme", Bare, None, Bare, Creme)
MCDocuments ==
    UNION {[1..k -> MCLines] : k \in 0..2}
        \cup {<<Unread, Plain, Unread>>, <<Priced, Unread, Priced>>, <<Plain, Unread, Plain, Priced>>}

Says(raw, label, amount, unit) == [raw |-> raw, label |-> label, amount |-> amount, unit |-> unit]
(* What a model may say: a good reading, one with half a quantity, one with *)
(* no name, one that is about a line of the parser, or of nobody, an amount *)
(* that rounds to nothing and one that is not a number.                     *)
MCCandidates ==
    {Says("dont forget the milk", Milk, 10, "g"), Says("dont forget the milk", Milk, 10, Unknown),
     Says("2,50", None, 20, "piece"), Says("2,50", Milk, None, None), Says("2 x milk", Creme, 10, "g"),
     Says("900 milk x9", Milk, 4, "g"), Says("2,50", Milk, Gone, "g"), Says("bread", Milk, 10, "g")}

Product(id, label, own) == [id |-> id, spelled |-> label.spelled, folded |-> label.folded, own |-> own]
MCCatalogue == {Product(p1, Creme, FALSE), Product(p2, Accented, TRUE)}
MCEvents == {[product |-> p, reason |-> r] : p \in {p1, p2}, r \in {"consumed", "wasted", "correction"}}

M == INSTANCE ShoppingImport WITH
        Documents <- MCDocuments, MaxLines <- 3, MaxModelLines <- 2, MaxWords <- 3,
        MaxAmount <- 5000, Codes <- {"g", "piece"}, Count <- "piece", Catalogue <- MCCatalogue,
        Candidates <- MCCandidates, Flagged <- {"milk"}, Events <- MCEvents, Named <- {p1},
        NotANumber <- Gone, phase <- stage

-----------------------------------------------------------------------------
shopping == <<lists, items, declined, ltx, lreply, lissued>>
tenancy == <<instance, reachable, revision, rows, guc, rtx, rissued, deploys>>
sandbox == <<pool, pools, job, said, uploads, reclaims>>
imported == <<raws, readings, touched, matches, batch, answered, stage>>
beside == <<imported, tenancy, sandbox, about>>

PurchasesInit ==
    /\ Init /\ L!Init /\ M!Init /\ H!Init /\ D!SInit
    /\ about \in {"receipts", "lists", "import", "tenancy", "sandbox"}
    /\ about # "tenancy" => revision = None /\ instance = [env |-> "local", role |-> "application", state |-> "stopped"]
(* A local deployment promises nothing, and is only started and polled.     *)
Promised == instance.env = "local" => rissued' = 0

PurchasesNext ==
    \/ about = "receipts" /\ Next /\ UNCHANGED <<shopping, beside>>
    \/ about = "lists" /\ L!Next /\ UNCHANGED <<vars, beside>>
    \/ about = "import" /\ M!Next /\ UNCHANGED <<vars, shopping, tenancy, sandbox, about>>
    \/ about = "tenancy" /\ H!Next /\ Promised /\ UNCHANGED <<vars, shopping, imported, sandbox, about>>
    \/ about = "sandbox" /\ D!SNext /\ UNCHANGED <<vars, shopping, imported, tenancy, about>>
PurchasesSpec == PurchasesInit /\ [][PurchasesNext]_<<vars, shopping, beside>>
(* What serves a client, of whichever of the two machines has requests.     *)
ServeEither(c) ==
    \/ about = "receipts" /\ Serve(c) /\ UNCHANGED <<shopping, beside>>
    \/ about = "lists" /\ L!Serve(c) /\ UNCHANGED <<vars, beside>>
FairPurchasesSpec ==
    PurchasesSpec /\ \A c \in Clients : WF_<<vars, shopping, beside>>(ServeEither(c))

Resting(c) == tx[c].phase = "idle" /\ ltx[c].phase = "idle"

(* Every request is answered, on either side: each wait for a row, an index *)
(* entry or a foreign key is finite, or ends in a deadlock that is broken.  *)
EveryRequestAnswered == \A c \in Clients : ~Resting(c) ~> Resting(c)

(* As in ShoppingImport: a proposal accounts for the document it was given. *)
ImportReportsTheDocument == M!ImportReportsTheDocument
=============================================================================
