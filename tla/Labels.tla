------------------------------- MODULE Labels -------------------------------
(***************************************************************************)
(* The abbreviated names a till prints, read with a lexicon                *)
(* (domain/labels): a printed label is normalised, cut into segments, the  *)
(* longest known form first, and each segment is replaced by what the      *)
(* lexicon says of it.  What comes out is one name, several, or none.      *)
(* A label is a sequence of tokens and what shows it was cut, a text is a  *)
(* sequence of words.                                                      *)
(***************************************************************************)
EXTENDS Integers, SequencesExt

CONSTANTS
    None,
    Lexicon,        \* the entries, in the order of the file
    SlashPrefixes,  \* the entries that may open a word ending with a slash
    Widths,         \* the width some retailers cut a label at
    Vowelless       \* the words with no vowel, which look abbreviated

(* In the order the patterns are tried.                                     *)
Shapes == <<"packThenSize", "sizeThenPack", "size", "percentage", "sachets", "times">>

Masses == [g |-> 1, kg |-> 1000]
Volumes == [ml |-> 1, cl |-> 10, dl |-> 100, l |-> 1000]

(* What one pattern makes of a token; a size is kept in grams or in         *)
(* millilitres, and the packs stay apart from it.                           *)
Extract(token) ==
    LET value == token.of[1]
        unit == token.of[2]
        packs == IF token.is \in {"packThenSize", "sizeThenPack"} THEN token.of[3] ELSE 0
    IN  CASE unit \in DOMAIN Masses ->
               [kind |-> "mass", value |-> value * Masses[unit], unit |-> "g", packs |-> packs]
          [] unit \in DOMAIN Volumes ->
               [kind |-> "volume", value |-> value * Volumes[unit], unit |-> "ml", packs |-> packs]
          [] token.is = "percentage" ->
               [kind |-> "percentage", value |-> value, unit |-> "none", packs |-> 0]
          [] OTHER ->
               [kind |-> "count", value |-> value,
                unit |-> (IF token.is = "sachets" \/ unit = "st" THEN "sachet" ELSE "none"), packs |-> 0]

(* The quantities come out in the order of the patterns, not of the label.  *)
ExtractQuantities(tokens) ==
    LET Of(shape) == SelectSeq(tokens, LAMBDA token : token.is = shape)
    IN  FlattenSeq([s \in 1..Len(Shapes) |->
            [i \in 1..Len(Of(Shapes[s])) |-> Extract(Of(Shapes[s])[i])]])

(* A label that fills the width of the till may have been cut there.        *)
DetectTruncation(label, retailer) ==
    LET long == FoldLeft(LAMBDA n, token : n + token.wide, 0, label.tokens)
    IN  CASE label.marker -> "marker"
          [] ~label.marker /\ retailer \in DOMAIN Widths /\ long >= Widths[retailer] -> "width"
          [] OTHER -> "none"

(* The words of a label: sizes are taken out, figures dropped, and a word   *)
(* glued to a figure parts from it.                                         *)
NormalizeLabel(label, retailer) ==
    [words |-> SelectSeq(label.tokens, LAMBDA token : token.is \in {"word", "glued"}),
     quantities |-> ExtractQuantities(label.tokens),
     truncation |-> DetectTruncation(label, retailer)]

-----------------------------------------------------------------------------
(* The lexicon.                                                             *)

Rank == [low |-> 0, medium |-> 1, high |-> 2]
Weakest(confidences) ==
    CHOOSE c \in confidences \cup {"high"} :
        \A d \in confidences \cup {"high"} : Rank[c] <= Rank[d]

(* Kinds that say who sells the article, not what it is.                    *)
NonDesignation == {"brand", "private_label", "department"}

(* A form of the file is listed once for each set of retailers.             *)
LexiconIsIndexed ==
    \A i, j \in DOMAIN Lexicon :
        (i # j /\ Lexicon[i].form = Lexicon[j].form) => Lexicon[i].retailers # Lexicon[j].retailers

(* A designation says what the article is.                                  *)
EntriesSayWhat ==
    \A i \in DOMAIN Lexicon :
        Lexicon[i].kind \notin NonDesignation => Lexicon[i].expansions # <<>>

MaxNgram == CHOOSE n \in {Len(Lexicon[i].form) : i \in DOMAIN Lexicon} :
                \A i \in DOMAIN Lexicon : Len(Lexicon[i].form) <= n

(* Mutant: the retailer an entry was seen at is forgotten.                  *)
MutLookup(form, retailer) == SelectSeq(Lexicon, LAMBDA e : e.form = form)

(* The entries of a form, those of one retailer only when it is the one.    *)
Lookup(form, retailer) ==
    SelectSeq(Lexicon, LAMBDA e : e.form = form /\ (e.retailers = {} \/ retailer \in e.retailers))

LexiconSlashPrefix(text) == SelectSeq(SlashPrefixes, LAMBDA e : e.form = <<text>>)

-----------------------------------------------------------------------------
(* Segments: what a run of words is read as.                                *)

Unique(s) == FoldLeft(LAMBDA seen, x : IF x \in Range(seen) THEN seen ELSE Append(seen, x), <<>>, s)

FromEntries(source, entries) ==
    LET all == Unique(FlattenSeq([i \in 1..Len(entries) |-> entries[i].expansions]))
    IN  [source |-> source,
         readings |-> IF entries[1].kind \in NonDesignation THEN <<>> ELSE all,
         confidence |-> Weakest({entries[i].confidence : i \in DOMAIN entries}),
         kind |-> entries[1].kind, unresolved |-> FALSE]

Verbatim(text) ==
    [source |-> <<text>>, readings |-> <<<<text>>>>, confidence |-> "high", kind |-> "none",
     unresolved |-> text \in Vowelless]

Part(text, retailer) ==
    LET entries == Lookup(<<text>>, retailer)
    IN  IF entries # <<>> THEN FromEntries(<<text>>, entries) ELSE Verbatim(text)

(* A word no form matches: a known prefix before a slash, then the rest; or *)
(* its parts, one by one; or the word as it stands.                         *)
ExpandWord(token, retailer) ==
    LET rule == LexiconSlashPrefix(token.parts[1])
        Parts(from) == [i \in 1..(Len(token.parts) - from + 1) |->
                            Part(token.parts[i + from - 1], retailer)]
    IN  IF token.by = "slash" /\ Len(token.parts) > 1 /\ rule # <<>>
        THEN <<FromEntries(<<token.parts[1]>>, rule)>> \o Parts(2)
        ELSE Parts(1)

(* The form a run of words spells, if every one of them is a plain word.    *)
Spelled(words, i, size) ==
    IF \A k \in i..(i + size - 1) : Len(words[k].parts) = 1
    THEN [k \in 1..size |-> words[i + k - 1].parts[1]]
    ELSE <<"joined">>

(* The longest form the lexicon knows, from left to right.                  *)
Segments(words, retailer) ==
    LET from[i \in 1..(Len(words) + 1)] ==
            IF i > Len(words) THEN <<>>
            ELSE LET known == {size \in 1..MaxNgram :
                                  /\ i + size - 1 <= Len(words)
                                  /\ Lookup(Spelled(words, i, size), retailer) # <<>>}
                     size == CHOOSE s \in known : \A other \in known : other <= s
                 IN  IF known = {} THEN ExpandWord(words[i], retailer) \o from[i + 1]
                     ELSE <<FromEntries(Spelled(words, i, size), Lookup(Spelled(words, i, size), retailer))>>
                            \o from[i + size]
    IN  from[1]

(* The word a cut label ends with, when the lexicon does not know it.       *)
TruncatedTail(segments, truncation) ==
    IF truncation = "none" \/ segments = <<>> \/ Last(segments).kind # "none"
    THEN <<>> ELSE Last(segments).source

MaxCandidates == 12

(* Every choice of one reading for each segment that has some.              *)
Texts(segments) ==
    LET variable == SelectSeq(segments, LAMBDA s : s.readings # <<>>)
    IN  FoldLeft(LAMBDA texts, s : {text \o s.readings[i] : text \in texts, i \in DOMAIN s.readings},
                 {<<>>}, variable)

Combinations(segments) ==
    FoldLeft(LAMBDA n, s : IF s.readings = <<>> THEN n ELSE n * Len(s.readings), 1, segments)

(* Too many readings are as good as none, and the two say so differently.   *)
ReadSegments(normal, segments) ==
    LET none == \A s \in Range(segments) : s.readings = <<>>
        used == {s \in Range(segments) : s.kind # "none" /\ s.readings # <<>>}
    IN  [verdict |-> (CASE none -> "unresolved"
                       [] ~none /\ Combinations(segments) = 1 -> "resolved"
                       [] OTHER -> "ambiguous"),
         candidates |-> IF none \/ Combinations(segments) > MaxCandidates THEN {} ELSE Texts(segments),
         confidence |-> Weakest({s.confidence : s \in used}),
         unresolved |-> {s.source : s \in {x \in Range(segments) : x.unresolved}},
         tail |-> TruncatedTail(segments, normal.truncation),
         brands |-> {s.source : s \in {x \in Range(segments) : x.kind \in NonDesignation}},
         expanded |-> \E s \in Range(segments) : s.kind # "none" \/ s.readings # <<s.source>>,
         normal |-> normal]

ExpandNormal(normal, retailer) == ReadSegments(normal, Segments(normal.words, retailer))
ExpandLabel(label, retailer) == ExpandNormal(NormalizeLabel(label, retailer), retailer)

(* The one reading, or none.                                                *)
Best(result) == IF result.verdict = "resolved" THEN result.candidates ELSE {}

RequiresReview(result) ==
    Best(result) = {} \/ Rank[result.confidence] < Rank["medium"]

(* A printed label that is only plain words, as a text.                     *)
Printed(label) == FlattenSeq([i \in 1..Len(label.tokens) |-> label.tokens[i].parts])

AsPrinted(label, text) ==
    /\ \A i \in DOMAIN label.tokens : label.tokens[i].is = "word" /\ Len(label.tokens[i].parts) = 1
    /\ ~label.marker
    /\ Printed(label) = text

(* The label to show, and the reading to offer beside it when it is not     *)
(* sure enough to be shown: {} stands for the printed text, and for none.   *)
Shown(label, result, best) ==
    CASE best = {} \/ result.unresolved # {} -> [shown |-> {}, offered |-> {}]
      [] best # {} /\ result.unresolved = {} /\ ~RequiresReview(result) /\ result.expanded ->
           [shown |-> best, offered |-> {}]
      [] OTHER -> [shown |-> {}, offered |-> {text \in best : ~AsPrinted(label, text)}]

ReadableAs(label, result) == Shown(label, result, Best(result))
Readable(label, retailer) == ReadableAs(label, ExpandLabel(label, retailer))
=============================================================================
