----------------------------- MODULE ReceiptText -----------------------------
(***************************************************************************)
(* A drive order recap or a till receipt read out of the text its PDF      *)
(* already holds, without a model (services/receipt_text.py).              *)
(***************************************************************************)
EXTENDS Labels

CONSTANTS
    MaxLines,     \* the lines kept of one document
    MaxAmount     \* the amounts past which a figure is not a price

Amount(value) == IF value = None \/ value > MaxAmount \/ value < -MaxAmount THEN None ELSE value

Indices(lines, Test(_)) == {i \in DOMAIN lines : Test(lines[i])}
FirstOf(indices) == CHOOSE i \in indices : \A j \in indices : i <= j

LooksLikeReceiptText(lines) == Len(lines) >= 2 /\ \E i \in DOMAIN lines : lines[i].label # None

IsFurniture(line) == line.furniture

NoQuantity == [quantity |-> None, unit |-> None, price |-> None]

(* The columns between the label and the total: a multiplier or a measure   *)
(* before a price, a price alone; without a price a count in front of the   *)
(* label, a measure or a multiplier after it.                               *)
ReadPriceColumns(columns) ==
    LET Measured(price) == [quantity |-> columns.measure[1], unit |-> columns.measure[2], price |-> price]
        Counted(n, price) == [quantity |-> n, unit |-> "piece", price |-> price]
    IN  CASE columns.price # None /\ columns.count # None -> Counted(columns.count, Amount(columns.price))
          [] columns.price # None /\ columns.count = None /\ columns.measure # None ->
               Measured(Amount(columns.price))
          [] columns.price # None /\ columns.count = None /\ columns.measure = None ->
               [NoQuantity EXCEPT !.price = Amount(columns.price)]
          [] columns.price = None /\ columns.leading # None -> Counted(columns.leading, None)
          [] columns.price = None /\ columns.leading = None /\ columns.measure # None -> Measured(None)
          [] OTHER -> IF columns.trailing # None THEN Counted(columns.trailing, None) ELSE NoQuantity

(* A purchase on one line, or nothing: <<>> or the line.                    *)
ReadLine(line) ==
    LET read == ReadPriceColumns(line.columns)
        counts == read.quantity # None /\ read.quantity > 0
    IN  IF line.label = None \/ IsFurniture(line) \/ Amount(line.amount) = None
        THEN <<>>
        ELSE <<[label |-> line.label, quantity |-> IF counts THEN read.quantity ELSE None,
                unit |-> IF counts THEN read.unit ELSE None,
                unitPrice |-> read.price, totalPrice |-> line.amount]>>

RecapPriceWindow == 4

(* Mutant: the prices are looked for to the end of the document.            *)
MutWindowOf(lines, head) == {i \in DOMAIN lines : i > head}

(* Where the prices of the article counted at this line are looked for.     *)
WindowOf(lines, head) == {i \in DOMAIN lines : i > head /\ i <= head + RecapPriceWindow}

(* An article of a recap: the label is the line above the count, the prices *)
(* are on the line of the count or on the first line after it that has some.*)
ReadRecapBlock(lines, head) ==
    LET title == lines[head - 1]
        priced == {i \in WindowOf(lines, head) : lines[i].head = None /\ lines[i].prices # None}
        prices == CASE lines[head].prices # None -> lines[head].prices
                    [] lines[head].prices = None /\ priced # {} -> lines[FirstOf(priced)].prices
                    [] OTHER -> None
    IN  IF \/ head = 1 \/ title.label = None \/ IsFurniture(title)
           \/ title.head # None \/ title.prices # None
           \/ prices = None \/ Amount(prices[1]) = None
        THEN <<>>
        ELSE <<[label |-> title.label, quantity |-> lines[head].head, unit |-> "piece",
                unitPrice |-> Amount(prices[2]), totalPrice |-> prices[1]]>>

(* The articles of a recap, or none when the document is not one: it takes  *)
(* two counts to make a layout.                                             *)
ReadRecapBlocks(lines) ==
    LET heads == Indices(lines, LAMBDA line : line.head # None)
    IN  IF Cardinality(heads) < 2 THEN <<>>
        ELSE FlattenSeq([i \in DOMAIN lines |-> IF i \in heads THEN ReadRecapBlock(lines, i) ELSE <<>>])

(* The amount at the caption's own place, in a run of captions followed by  *)
(* a run of as many amounts.                                                *)
ColumnTotal(lines, index) ==
    LET Captions(i, j) == \A k \in i..j : lines[k].caption
        Amounts(i, j) == \A k \in i..j : lines[k].bare /\ Amount(lines[k].amount) # None
        start == CHOOSE i \in 1..index : Captions(i, index) /\ (i = 1 \/ ~lines[i - 1].caption)
        end == CHOOSE j \in index..Len(lines) :
                   Captions(index, j) /\ (j = Len(lines) \/ ~lines[j + 1].caption)
        length == end - start + 1
        aligned == /\ end + length <= Len(lines) /\ Amounts(end + 1, end + length)
                   /\ end + length < Len(lines) => ~Amounts(end + length + 1, end + length + 1)
    IN  IF ~lines[index].caption \/ ~aligned THEN None ELSE lines[end + 1 + index - start].amount

(* The last total printed that is more than nothing.                        *)
FindTotal(lines) ==
    LET Value(i) == IF lines[i].amount # None THEN Amount(lines[i].amount) ELSE ColumnTotal(lines, i)
        found == {i \in DOMAIN lines : /\ lines[i].total /\ ~lines[i].notTotal
                                       /\ Value(i) # None /\ Value(i) > 0}
    IN  IF found = {} THEN None ELSE Value(CHOOSE i \in found : \A j \in found : j <= i)

(* The first date printed decides, and one that is no day gives none.       *)
FindPurchasedAt(lines) ==
    LET dated == Indices(lines, LAMBDA line : line.date # None)
    IN  IF dated = {} \/ lines[FirstOf(dated)].date = "no such day" THEN None
        ELSE lines[FirstOf(dated)].date

(* The first line that names a chain; no other merchant is ever guessed.    *)
FindMerchant(lines) ==
    LET named == Indices(lines, LAMBDA line : line.merchant # None)
    IN  IF named = {} THEN None ELSE lines[FirstOf(named)].merchant

(* Euros wherever they are printed, then Swiss francs.                      *)
FindCurrency(lines) ==
    LET printed == {lines[i].currency : i \in DOMAIN lines} \ {None}
    IN  IF printed = {} THEN None ELSE IF "EUR" \in printed THEN "EUR" ELSE "CHF"

ParseReceiptText(lines) ==
    LET blocks == ReadRecapBlocks(lines)
        candidates == IF blocks # <<>> THEN blocks
                      ELSE FlattenSeq([i \in DOMAIN lines |-> ReadLine(lines[i])])
    IN  [lines |-> SubSeq(candidates, 1, IF Len(candidates) > MaxLines THEN MaxLines ELSE Len(candidates)),
         truncated |-> Len(candidates) > MaxLines,
         merchant |-> FindMerchant(lines), purchasedOn |-> FindPurchasedAt(lines),
         currency |-> FindCurrency(lines), total |-> FindTotal(lines), notice |-> None]
=============================================================================
