--------------------------- MODULE ReceiptReading ---------------------------
(***************************************************************************)
(* One receipt from the upload to the review screen (services/receipts.py):*)
(* its text is parsed, or its photograph put to the model of the           *)
(* household; what was read is stored with the products its names match;   *)
(* and the proposal is built again from what was stored, each time it is   *)
(* asked for.  The household changes its model and its products meanwhile. *)
(* What two requests do to one receipt is module Receipts.                 *)
(***************************************************************************)
EXTENDS ReceiptText, Documents

CONSTANTS
    Uploads,      \* the files a member may send
    Answers,      \* what a model may say of a photograph
    Products,     \* identifiers of products
    Named,        \* the text each of them is named by
    Own,          \* the products of the household; the others are everyone's
    Models,       \* the models a household can configure
    Seeing,       \* those that read images
    Codes,        \* the units the instance knows
    MaxMoney,     \* the money a column can hold
    MaxQuantity,
    MaxChanges    \* bound: changes the household makes meanwhile

VARIABLES
    model,     \* the model configured for receipts, or None
    live,      \* the products that are not archived
    step,      \* where the request is
    upload,    \* what was sent
    reading,   \* what was read of it
    row,       \* the receipt stored
    rows,      \* its lines
    view,      \* the proposal last shown
    asked,     \* the model the photograph was put to
    changes

reviewing == <<model, live, step, upload, reading, row, rows, view, asked, changes>>

RInit ==
    /\ model \in Models \cup {None} /\ live = Products
    /\ step = "idle" /\ upload = None /\ reading = None
    /\ row = None /\ rows = {} /\ view = None /\ asked = None /\ changes = 0

Refuse(why) ==
    /\ step' = why
    /\ UNCHANGED <<model, live, upload, reading, row, rows, view, asked, changes>>

Propose(sent) ==
    /\ step = "idle"
    /\ upload' = sent
    /\ step' = ReadUpload(sent)
    /\ UNCHANGED <<model, live, reading, row, rows, view, asked, changes>>

LinesOf(pages) == FlattenSeq([i \in DOMAIN pages |-> pages[i].lines])

(* A PDF without text is a scan: it is refused, not put to a model.         *)
ReadPdf ==
    /\ step = "pdf"
    /\ LET found == ExtractPdfText(upload)
           text == LinesOf(found.pages)
       IN  IF found.kind = "text" /\ LooksLikeReceiptText(text)
           THEN /\ reading' = [parsed |-> ParseReceiptText(text), readBy |-> "text"]
                /\ step' = "read"
                /\ UNCHANGED <<model, live, upload, row, rows, view, asked, changes>>
           ELSE Refuse(IF found.kind = "text" THEN "unreadable" ELSE found.kind)

(* The bytes must be an image, and the household have a model that reads    *)
(* them: one that does not would answer with a receipt all the same.        *)
ReadPhoto ==
    /\ step = "image"
    /\ CASE SniffImage(upload).kind # "image" -> Refuse(SniffImage(upload).kind)
         [] SniffImage(upload).kind = "image" /\ model \notin Seeing -> Refuse("unavailable")
         [] OTHER -> /\ asked' = model /\ step' = "asked"
                     /\ UNCHANGED <<model, live, upload, reading, row, rows, view, changes>>

(* The answer of the model, which can take long, or its failure.            *)
ModelAnswers(answer) ==
    /\ step = "asked"
    /\ reading' = [parsed |-> [answer EXCEPT !.lines = SubSeq(@, 1, IF Len(@) > MaxLines THEN MaxLines ELSE Len(@)),
                                             !.truncated = Len(answer.lines) > MaxLines],
                   readBy |-> "model"]
    /\ step' = "read"
    /\ UNCHANGED <<model, live, upload, row, rows, view, asked, changes>>

ModelFails == step = "asked" /\ Refuse("failed")

-----------------------------------------------------------------------------
(* Storing.                                                                 *)

Money(value) == IF value = None \/ value >= MaxMoney \/ value <= -MaxMoney THEN None ELSE value
Quantity(value) == IF value = None \/ value <= 0 \/ value > MaxQuantity THEN None ELSE value

(* Which model read the receipt, asked of the configuration once the model  *)
(* has answered.                                                            *)
Provenance == IF model \in Seeing THEN model ELSE None

(* The products named by the label shown, the readable one or the printed:  *)
(* those of the household before everyone's; between two of a kind that     *)
(* share a name, the query says nothing.                                    *)
OwnFirst(found) == IF found \cap Own # {} THEN found \cap Own ELSE found
NamedBy(label, shown) ==
    {p \in live : IF shown = {} THEN AsPrinted(label, Named[p]) ELSE Named[p] \in shown}
MatchProducts(label, retailer) == OwnFirst(NamedBy(label, Readable(label, retailer).shown))

(* How sure the match is: the surety of the reading of the label.           *)
Surety(result) == IF Best(result) = {} THEN None ELSE result.confidence
MatchConfidence(label, retailer) == Surety(ExpandLabel(label, retailer))

(* A number without a unit known here is no quantity, nor a unit without a  *)
(* number.                                                                  *)
StoredLine(n, line, product, retailer) ==
    LET whole == Quantity(line.quantity) # None /\ line.unit \in Codes
    IN  [no |-> n, label |-> line.label,
         quantity |-> IF whole THEN line.quantity ELSE None,
         unit |-> IF whole THEN line.unit ELSE None,
         unitPrice |-> Money(line.unitPrice), totalPrice |-> Money(line.totalPrice),
         product |-> product,
         confidence |-> IF product = None THEN None ELSE MatchConfidence(line.label, retailer),
         status |-> IF product = None THEN "pending" ELSE "suggested"]

(* A line whose label is empty once cleaned is left out, its number is not  *)
(* given to another.                                                        *)
Store ==
    /\ step = "read"
    /\ LET parsed == reading.parsed
           retailer == parsed.merchant
           kept == {n \in DOMAIN parsed.lines : parsed.lines[n].label # None}
           candidates == [n \in kept |-> MatchProducts(parsed.lines[n].label, retailer)]
       IN  /\ row' = [merchant |-> retailer, purchasedOn |-> parsed.purchasedOn,
                      total |-> Money(parsed.total), currency |-> parsed.currency,
                      truncated |-> parsed.truncated, notice |-> parsed.notice,
                      provider |-> IF reading.readBy = "model" THEN Provenance ELSE None]
           /\ \E match \in [kept -> Products \cup {None}] :
                /\ \A n \in kept : IF candidates[n] = {} THEN match[n] = None ELSE match[n] \in candidates[n]
                /\ \A n, m \in kept : parsed.lines[n].label = parsed.lines[m].label => match[n] = match[m]
                /\ rows' = {StoredLine(n, parsed.lines[n], match[n], retailer) : n \in kept}
    /\ step' = "stored"
    /\ UNCHANGED <<model, live, upload, reading, view, asked, changes>>

-----------------------------------------------------------------------------
(* The review screen.                                                       *)

(* The sum of the lines, when every one has a price; a part of it would     *)
(* never disprove the total.                                                *)
LineSum(lines) ==
    IF lines = {} \/ \E l \in lines : l.totalPrice = None THEN None
    ELSE MapThenSumSet(LAMBDA l : l.totalPrice, lines)

LineSumDelta(total, sum) == IF total = None \/ sum = None THEN None ELSE total - sum

Source == IF row.provider # None THEN "photo" ELSE "pdf"

(* The proposal as it is built from the rows; the names are read again.     *)
Proposal ==
    [source |-> Source, readBy |-> IF row.provider # None THEN "model" ELSE "text",
     merchant |-> row.merchant, purchasedOn |-> row.purchasedOn,
     total |-> row.total, currency |-> row.currency,
     lines |-> {[line |-> l, label |-> Readable(l.label, row.merchant)] : l \in rows},
     delta |-> LineSumDelta(row.total, LineSum(rows)),
     truncated |-> row.truncated, notice |-> row.notice]

(* The receipts waiting for a review: one, with the number of its lines.    *)
ListPending ==
    IF row = None THEN {} ELSE {[source |-> Source, total |-> row.total, lineCount |-> Cardinality(rows)]}

(* What the review screens show.                                            *)
Show ==
    /\ step = "stored"
    /\ view' = [proposal |-> Proposal, pending |-> ListPending]
    /\ step' = "shown"
    /\ UNCHANGED <<model, live, upload, reading, row, rows, asked, changes>>

(* The household changes its model or archives a product.                   *)
Change ==
    /\ changes < MaxChanges
    /\ changes' = changes + 1
    /\ \/ model' \in (Models \cup {None}) \ {model} /\ UNCHANGED live
       \/ \E p \in live \cap Own : live' = live \ {p} /\ UNCHANGED model
    /\ UNCHANGED <<step, upload, reading, row, rows, view, asked>>

Ended == {"too-large", "unsupported", "unreadable", "unavailable", "failed", "shown"}
Reviewed == step \in Ended /\ changes = MaxChanges /\ UNCHANGED reviewing

RNext ==
    \/ \E sent \in Uploads : Propose(sent)
    \/ ReadPdf \/ ReadPhoto \/ ModelFails \/ Store \/ Show \/ Change \/ Reviewed
    \/ \E answer \in Answers : ModelAnswers(answer)

RSpec == RInit /\ [][RNext]_reviewing

-----------------------------------------------------------------------------
(* What the reader of recaps supposes: between a count without prices and   *)
(* the next prices within reach there is no other count, since "the next    *)
(* article's own prices are always further away than that".                 *)
NextPricesAreFurther(lines) ==
    \A i, j \in DOMAIN lines :
        /\ lines[i].head # None /\ lines[i].prices = None
        /\ j \in i + 1 .. i + RecapPriceWindow /\ lines[j].head = None /\ lines[j].prices # None
        => \A k \in i + 1 .. j : lines[k].head = None

(* A line of the review that bears the name of an article of the document   *)
(* bears the prices of no other.  The reader does not test what it supposes:*)
(* it takes the first prices it finds within four lines.                    *)
PricesAreTheArticlesOwn ==
    (view # None /\ reading.readBy = "text") =>
        \A l \in view.proposal.lines : \A a \in upload.articles :
            l.line.label = a.label =>
                l.line.totalPrice \in {a.totalPrice, None} /\ l.line.unitPrice \in {a.unitPrice, None}

(* As long as what the reader supposes holds of the text, no number is      *)
(* given to another article: a line bears no count, measure, price or amount*)
(* but those of the article it names.  Whatever the text, the total shown is*)
(* the one printed as such.                                                 *)
NumbersStayTogether ==
    (view # None /\ reading.readBy = "text") =>
        /\ NextPricesAreFurther(LinesOf(ExtractPdfText(upload).pages)) => PricesAreTheArticlesOwn
        /\ \A l \in view.proposal.lines : \A a \in upload.articles :
             l.line.label = a.label =>
                <<l.line.quantity, l.line.unit>> \in {<<a.quantity, a.unit>>, <<None, None>>}
        /\ \A shown \in {view.proposal} \cup view.pending : shown.total \in {upload.total, None}

(* The texts a label can be read as with the entries that hold at this      *)
(* retailer and that the lexicon vouches for.                               *)
TrustedTexts(words, retailer) ==
    LET Trusted(form) == {e \in Range(Lexicon) \cup Range(SlashPrefixes) :
                             /\ e.form = form /\ Rank[e.confidence] >= Rank["medium"]
                             /\ e.retailers = {} \/ retailer \in e.retailers}
        Reads(form) == UNION {IF e.kind \in NonDesignation THEN {<<>>} ELSE Range(e.expansions) : e \in Trusted(form)}
        flat == FlattenSeq([i \in DOMAIN words |-> words[i].parts])
        texts[i \in 1..(Len(flat) + 1)] ==
            IF i > Len(flat) THEN {<<>>}
            ELSE {<<flat[i]>> \o rest : rest \in (IF flat[i] \in Vowelless THEN {} ELSE texts[i + 1])}
                 \cup UNION {{read \o rest : read \in Reads(SubSeq(flat, i, j)), rest \in texts[j + 1]} :
                                 j \in i..Len(flat)}
    IN  texts[1]

(* A name shown in place of the printed one is a reading of all its words,  *)
(* by entries of this chain that are sure enough; a reading that is not is  *)
(* at most offered beside the printed name.                                 *)
ShownNamesAreVouchedFor ==
    view # None =>
        \A l \in view.proposal.lines :
            /\ l.label.shown \subseteq
                 TrustedTexts(NormalizeLabel(l.line.label, view.proposal.merchant).words, view.proposal.merchant)
            /\ Cardinality(l.label.shown \cup l.label.offered) <= 1
=============================================================================
