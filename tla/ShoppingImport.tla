--------------------------- MODULE ShoppingImport ---------------------------
(***************************************************************************)
(* The proposal made of a document (ShoppingImportService.propose) and the *)
(* one made of what ran out (DepletionService.propose).  Neither writes.   *)
(* A household's parser reads every line; a model may be asked about those *)
(* it could not interpret, and answers anything; the catalogue and the     *)
(* allergen screen are asked last.  A line is what its forms are: a head   *)
(* and a tail that may hold an amount, and the label between them.         *)
(* External: the splitter and the screen, which this build does not have.  *)
(***************************************************************************)
EXTENDS Integers, Sequences, FiniteSetsExt

CONSTANTS
    Documents,      \* the candidate lines of the documents sent
    MaxLines,       \* lines of a document that are read (max_lines)
    MaxModelLines,  \* lines the model is asked about (MAX_MODEL_LINES)
    MaxWords,       \* words a plain label may have (MAX_LABEL_WORDS)
    MaxAmount,      \* the largest amount, in tenths of the quantum (MAX_AMOUNT)
    Codes,          \* codes of the unit table
    Count,          \* the unit of pieces, None when the table lacks it
    Catalogue,      \* visible live products: [id, spelled, folded, own]
    Candidates,     \* what a splitter may answer of one line
    Flagged,        \* folded labels the screen puts a flag on
    Events,         \* movements reported together: [product, reason]
    Named,          \* products whose name the household can see
    NotANumber,     \* an amount that parses and compares with nothing
    None

Products == {e.product : e \in Events}

VARIABLES
    raws,      \* the candidate lines of the document
    readings,  \* what the parser, then the model, made of each line read
    touched,   \* lines a candidate was applied to
    matches,   \* the product each line was matched to
    batch,     \* the movements a depletion request was told of
    answered,  \* the proposal of the request
    phase

vars == <<raws, readings, touched, matches, batch, answered, phase>>

Reading(label, amount, unit) == [label |-> label, amount |-> amount, unit |-> unit]

-----------------------------------------------------------------------------
(* The parser.                                                              *)

(* numeric(12,3): the bound is tested first and the rounding comes after.   *)
Rounded(a) == LET q == a \div 10   r == a % 10
              IN  IF r > 5 \/ (r = 5 /\ q % 2 = 1) THEN q + 1 ELSE q
Decimal(a) == IF a \in Int /\ a > 0 /\ a <= MaxAmount THEN Rounded(a) ELSE None

(* A rule reads a line, or leaves it to the next one.                       *)
PrefixMultiplier(line) ==
    IF line.head.form = "times" /\ Count # None /\ Decimal(line.head.amount) # None /\ line.label # None
    THEN {Reading(line.label, Decimal(line.head.amount), Count)} ELSE {}

Dozen(line) ==
    IF line.head.form = "dozen" /\ Count # None /\ line.label # None
    THEN {Reading(line.label, Decimal(line.head.amount), Count)} ELSE {}

(* A unit with nothing after it is no quantity of anything.                 *)
PrefixQuantity(line) ==
    LET unit == IF line.head.unit \in Codes THEN line.head.unit ELSE Count
    IN  IF line.head.form = "number" /\ Decimal(line.head.amount) # None /\ line.label # None /\ unit # None
        THEN {Reading(line.label, Decimal(line.head.amount), unit)} ELSE {}

SuffixMultiplier(line) ==
    IF line.tail.form = "times" /\ Count # None /\ Decimal(line.tail.amount) # None /\ line.label # None
    THEN {Reading(line.label, Decimal(line.tail.amount), Count)} ELSE {}

(* A number alone at the end may be part of a name: it needs its unit.      *)
SuffixQuantity(line) ==
    IF line.tail.form = "number" /\ line.tail.unit \in Codes /\ Decimal(line.tail.amount) # None /\ line.label # None
    THEN {Reading(line.label, Decimal(line.tail.amount), line.tail.unit)} ELSE {}

(* The first rule that reads the line, or its whole text as a bare label.   *)
ParseShoppingLine(line) ==
    LET rules == <<PrefixMultiplier(line), Dozen(line), PrefixQuantity(line),
                   SuffixMultiplier(line), SuffixQuantity(line)>>
        read == {n \in DOMAIN rules : rules[n] # {}}
    IN  IF read = {} THEN Reading(line.whole, None, None)
        ELSE CHOOSE r \in rules[Min(read)] : TRUE

ConfidenceFor(r, matched) ==
    CASE r.amount # None /\ matched -> "high"
      [] (r.amount # None) # matched -> "medium"
      [] OTHER -> IF r.label = None \/ r.label.words > MaxWords THEN "none" ELSE "low"

-----------------------------------------------------------------------------
Init ==
    /\ raws = <<>> /\ readings = <<>> /\ touched = {} /\ matches = <<>>
    /\ batch = <<>> /\ answered = None /\ phase = "idle"

Truncated == Len(raws) > MaxLines

(* A document: its first lines are parsed, the others are counted.          *)
Upload(lines) ==
    /\ phase = "idle"
    /\ raws' = lines
    /\ readings' = [n \in 1..Min({Len(lines), MaxLines}) |-> ParseShoppingLine(lines[n])]
    /\ phase' = "split"
    /\ UNCHANGED <<touched, matches, batch, answered>>

Unresolved == {n \in DOMAIN readings : ConfidenceFor(readings[n], FALSE) = "none"}
Asked == {n \in Unresolved : Cardinality({k \in Unresolved : k < n}) < MaxModelLines}

(* Mutant: a candidate is looked up among all the lines of the document.    *)
MutSelected(raw) == {n \in DOMAIN readings : raws[n].raw = raw}
(* The lines that were submitted under a text.                              *)
Selected(raw) == {n \in Asked : raws[n].raw = raw}

(* dict(zip(payload, selected)): of two lines with one text, the last.      *)
IndexOf(c) == IF Selected(c.raw) = {} THEN None ELSE Max(Selected(c.raw))

(* Half a quantity is none, and so is one that cannot be read.              *)
Believed(c) ==
    LET amount == Decimal(c.amount)
        unit == IF c.unit \in Codes THEN c.unit ELSE None
    IN  IF (amount = None) = (unit = None) THEN Reading(c.label, amount, unit)
        ELSE Reading(c.label, None, None)

Usable(c) == IndexOf(c) # None /\ c.label # None

NoSplitter ==
    /\ phase = "split"
    /\ phase' = "match"
    /\ UNCHANGED <<raws, readings, touched, matches, batch, answered>>

(* The model answers; a later candidate about a line replaces an earlier.   *)
Split(cs) ==
    LET about(n) == {k \in DOMAIN cs : Usable(cs[k]) /\ IndexOf(cs[k]) = n}
        got == {n \in DOMAIN readings : about(n) # {}}
    IN  /\ phase = "split" /\ Unresolved # {} /\ Len(cs) <= Cardinality(Asked)
        /\ \A k \in DOMAIN cs : Usable(cs[k]) => cs[k].amount # NotANumber
        /\ readings' = [n \in DOMAIN readings |->
                          IF n \in got THEN Believed(cs[Max(about(n))]) ELSE readings[n]]
        /\ touched' = got
        /\ phase' = "match"
        /\ UNCHANGED <<raws, matches, batch, answered>>

(* An amount that compares with nothing raises, and ends the request.       *)
SplitRaises(cs) ==
    /\ phase = "split" /\ Unresolved # {} /\ Len(cs) <= Cardinality(Asked)
    /\ \E k \in DOMAIN cs : Usable(cs[k]) /\ cs[k].amount = NotANumber
    /\ phase' = "failed"
    /\ UNCHANGED <<raws, readings, touched, matches, batch, answered>>

Labels == {readings[n].label : n \in DOMAIN readings} \ {None}

(* Rows are fetched by their spelling, then compared by their folding: a    *)
(* household's own product before a public one.                             *)
Fetched == {p \in Catalogue : p.spelled \in {l.spelled : l \in Labels}}
Matching(label) ==
    LET same == {p \in Fetched : p.folded = label.folded}
        own == {p \in same : p.own}
    IN  IF own # {} THEN own ELSE same

MatchProducts ==
    /\ phase = "match"
    /\ matches' \in {m \in [DOMAIN readings -> {p.id : p \in Catalogue} \cup {None}] :
                       \A n \in DOMAIN m :
                          LET found == IF readings[n].label = None THEN {} ELSE Matching(readings[n].label)
                          IN  m[n] \in {p.id : p \in found} \/ (found = {} /\ m[n] = None)}
    /\ phase' = "screen"
    /\ UNCHANGED <<raws, readings, touched, batch, answered>>

ProposedLine(n, flags) ==
    LET r == readings[n]
        c == ConfidenceFor(r, matches[n] # None)
        confidence == IF n \in touched /\ c = "high" THEN "medium" ELSE c
    IN  [raw |-> raws[n].raw, label |-> r.label,
         quantity |-> IF r.amount = None \/ r.unit = None THEN None ELSE <<r.amount, r.unit>>,
         matched |-> matches[n], confidence |-> confidence,
         review |-> (confidence = "none") \/ n \in touched \/ n \in flags]

(* The screen flags labels, or fails and flags none: it drops no line.      *)
Propose(flags) ==
    /\ phase = "screen"
    /\ flags \in {{}, {n \in DOMAIN readings : readings[n].label # None /\ readings[n].label.folded \in Flagged}}
    /\ LET lines == [n \in DOMAIN readings |-> ProposedLine(n, flags)]
       IN  answered' = [lines |-> lines, truncated |-> Truncated,
                        unparsed |-> Cardinality({n \in DOMAIN lines : lines[n].confidence = "none"})]
    /\ phase' = "answered"
    /\ UNCHANGED <<raws, readings, touched, matches, batch>>

-----------------------------------------------------------------------------
(* What ran out.                                                            *)

IsDepletionReason(reason) == reason \in {"consumed", "wasted"}

(* Each product once, with the reason of its first event, in the order told.*)
Eligible(events) ==
    SelectSeq([n \in DOMAIN events |->
                 IF /\ IsDepletionReason(events[n].reason)
                    /\ \A k \in 1..(n - 1) :
                         (events[k].product = events[n].product) => ~IsDepletionReason(events[k].reason)
                 THEN events[n] ELSE [product |-> None, reason |-> None]],
              LAMBDA e : e.product # None)

(* onList: products with an unchecked item on a live list; refused: those   *)
(* somebody dismissed.  Both are read, and neither drops a proposal.        *)
DepletionProposals(events, onList, refused) ==
    LET told == SelectSeq(Eligible(events), LAMBDA e : e.product \in Named)
    IN  [n \in DOMAIN told |->
           [product |-> told[n].product, reason |-> told[n].reason,
            listed |-> told[n].product \in onList, declined |-> told[n].product \in refused]]

Deplete(events, onList, refused) ==
    /\ phase = "idle"
    /\ batch' = events
    /\ answered' = DepletionProposals(events, onList, refused)
    /\ phase' = "proposed"
    /\ UNCHANGED <<raws, readings, touched, matches>>

Finished == phase \in {"answered", "proposed", "failed"} /\ UNCHANGED vars

Next ==
    \/ \E lines \in Documents : Upload(lines)
    \/ NoSplitter
    \/ \E cs \in UNION {[1..k -> Candidates] : k \in 0..2} : Split(cs) \/ SplitRaises(cs)
    \/ MatchProducts
    \/ \E flags \in SUBSET (DOMAIN readings) : Propose(flags)
    \/ \E events \in UNION {[1..k -> Events] : k \in 0..2}, onList, refused \in SUBSET Products :
          Deplete(events, onList, refused)
    \/ Finished

Spec == Init /\ [][Next]_vars

-----------------------------------------------------------------------------
(* An import reports the document it was given: one line for each line that *)
(* was read, in order, and word of those that were not; a quantity is an    *)
(* amount and a unit of the table; what the household's own parser had      *)
(* understood is not rewritten by a model, and what a model did write is    *)
(* left for somebody to review, never passed off as certain (the rule of    *)
(* ProposedLine, AUD-006).                                                  *)
ImportReportsTheDocument ==
    phase = "answered" =>
        /\ DOMAIN answered.lines = 1..Min({Len(raws), MaxLines})
        /\ answered.truncated = (Len(raws) > Len(answered.lines))
        /\ \A n \in DOMAIN answered.lines :
             LET told == answered.lines[n]   own == ParseShoppingLine(raws[n])
             IN  /\ told.raw = raws[n].raw
                 /\ told.quantity # None => told.quantity[2] \in Codes
                 /\ told.label # own.label \/ told.quantity # (IF own.amount = None THEN None ELSE <<own.amount, own.unit>>)
                      => /\ ConfidenceFor(own, FALSE) = "none"
                         /\ told.review /\ told.confidence # "high"
=============================================================================
