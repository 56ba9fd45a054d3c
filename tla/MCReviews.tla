------------------------------ MODULE MCReviews ------------------------------
(***************************************************************************)
(* The documents and photographs of a small instance of ReceiptReading:    *)
(* till receipts of two purchases, one of them in every layout of columns; *)
(* recaps of one to three articles, priced on the line of the count, below *)
(* a promotion, on the line below, or nowhere; summaries in one column, in *)
(* two, and torn.  A token of a label is a word, a word whose parts are    *)
(* joined by a slash or a point ("yao/van"), a word glued to a figure      *)
(* ("4tr"), a bare figure, or one of the sizes there is a pattern for.  A  *)
(* line says what the patterns see of it; amounts are in cents.            *)
(***************************************************************************)
EXTENDS Integers, Sequences

CONSTANT None

Word(text) == [is |-> "word", parts |-> <<text>>, by |-> "none", of |-> <<>>, wide |-> 4]
Joined(parts, by) == [is |-> "word", parts |-> parts, by |-> by, of |-> <<>>, wide |-> 8]
Glued(text) == [is |-> "glued", parts |-> <<text>>, by |-> "none", of |-> <<>>, wide |-> 4]
Figure == [is |-> "figure", parts |-> <<>>, by |-> "none", of |-> <<>>, wide |-> 2]
(* A size: how it is written, its value in the unit printed, the packs.     *)
Size(shape, value, unit, packs) ==
    [is |-> shape, parts |-> <<>>, by |-> "none", of |-> <<value, unit, packs>>, wide |-> 4]

(* A line with nothing on it that any pattern sees.                         *)
BlankLine ==
    [label |-> None,      \* what is left once the figures are taken away
     furniture |-> FALSE, \* a word of the till, "tva", "carte bancaire"
     amount |-> None,     \* the amount the line ends with
     bare |-> FALSE,      \* and there is nothing else
     columns |-> [count |-> None, measure |-> None, price |-> None, leading |-> None, trailing |-> None],
     head |-> None,       \* "Quantite : n"
     prices |-> None,     \* "5,99 Prix unitaire : 5,99", alone or after the head
     caption |-> FALSE,   \* ends with a colon, and no amount
     total |-> FALSE,     \* opens with a word for the total
     notTotal |-> FALSE,  \* and names a tax, a discount, a count of articles
     date |-> None, merchant |-> None, currency |-> None]

(* A page of a PDF; one that cannot be read gives nothing.                  *)
Page(lines) == [reads |-> TRUE, chars |-> Len(lines), lines |-> lines]
TornPage == [reads |-> FALSE, chars |-> 0, lines |-> <<>>]

(* A file as it is uploaded, with what its bytes are.  What the retailer    *)
(* laid out in it, the articles and the total, is known to no reader.       *)
File ==
    [type |-> "application/octet-stream", suffix |-> "none", bytes |-> 1, starts |-> "other",
     opens |-> TRUE, encrypted |-> FALSE, paged |-> TRUE, pages |-> <<>>,
     segments |-> <<>>, header |-> TRUE, sum |-> TRUE, width |-> 1, height |-> 1, ends |-> TRUE,
     articles |-> {}, total |-> None]

Pdf(pages, articles, total) ==
    [File EXCEPT !.suffix = "pdf", !.starts = "pdf", !.pages = pages, !.articles = articles, !.total = total]
Segment(marker, whole, width) == [marker |-> marker, whole |-> whole, width |-> width, height |-> 1]
Photo(format) ==
    [File EXCEPT !.type = "image/jpeg", !.starts = format,
                 !.segments = <<Segment("frame", TRUE, 1), Segment("scan", TRUE, 0)>>]

-----------------------------------------------------------------------------

Entry(form, expansions, confidence, kind, retailers) ==
    [form |-> form, expansions |-> expansions, confidence |-> confidence, kind |-> kind, retailers |-> retailers]

(* An abbreviation two chains use for two things and one that a single chain*)
(* uses, one of two words, one with two readings, one that is hardly sure,  *)
(* and a brand.                                                             *)
Abbreviations ==
    <<Entry(<<"cps">>, <<<<"chips">>>>, "high", "skeleton", {"carrefour"}),
      Entry(<<"cps">>, <<<<"capsules">>>>, "high", "skeleton", {"leclerc"}),
      Entry(<<"pdt">>, <<<<"pomme", "de", "terre">>>>, "high", "initialism", {}),
      Entry(<<"pdt", "fum">>, <<<<"pancetta">>>>, "medium", "truncation", {}),
      Entry(<<"choc">>, <<<<"chocolat">>, <<"choc">>>>, "medium", "truncation", {}),
      Entry(<<"fum">>, <<<<"fume">>>>, "low", "truncation", {}),
      Entry(<<"bte">>, <<<<"boite">>>>, "high", "packaging", {"leclerc"}),
      Entry(<<"bio">>, <<<<"village">>>>, "high", "brand", {})>>

Label(tokens) == [tokens |-> tokens, marker |-> FALSE]
Chips == Label(<<Word("cps"), Word("pdt"), Size("size", 150, "g", 0)>>)
Pancetta == Label(<<Word("pdt"), Word("fum"), Size("packThenSize", 33, "cl", 6)>>)
Trout == Label(<<Word("truite"), Word("fum"), Glued("tr"), Figure>>)
Smoked == Label(<<Word("saumon"), Word("fum"), Size("percentage", 15, "none", 0)>>)
Saltless == Label(<<Word("bio"), Joined(<<"s", "sel">>, "slash"), Joined(<<"choc", "lait">>, "point")>>)
Light == Label(<<Joined(<<"s", "sel">>, "slash"), Word("bte"), Size("times", 2, "st", 0)>>)
Butter == Label(<<Word("beurre")>>)
Branded == Label(<<Word("bio")>>)
Cut == [tokens |-> <<Word("bio"), Word("yaourt"), Word("van"), Size("sachets", 4, "st", 0)>>, marker |-> TRUE]

(* What was bought, and what of it each layout prints.                      *)
Article(label, quantity, unit, unitPrice, totalPrice) ==
    [label |-> label, quantity |-> quantity, unit |-> unit, unitPrice |-> unitPrice, totalPrice |-> totalPrice]

Bought(label) == Article(label, 2, "piece", 150, 300)
Weighed(label) == Article(label, 500, "g", 240, 120)
Other == Article(Butter, 1, "piece", 210, 210)
Third == Article(Light, 3, "piece", 100, 300)

Line(label, amount) == [BlankLine EXCEPT !.label = label, !.amount = amount]
Purchase(article, columns) ==
    [Line(article.label, article.totalPrice) EXCEPT !.columns = columns, !.currency = "EUR"]

Columns == BlankLine.columns
Layouts(label) ==
    {<<Bought(label), [Columns EXCEPT !.count = 2, !.price = 150]>>,
     <<Bought(label), [Columns EXCEPT !.price = 150]>>,
     <<Bought(label), [Columns EXCEPT !.leading = 2]>>, <<Bought(label), [Columns EXCEPT !.trailing = 2]>>,
     <<Bought(label), Columns>>, <<Article(label, 0, "piece", 150, 300), [Columns EXCEPT !.count = 0, !.price = 150]>>,
     <<Weighed(label), [Columns EXCEPT !.measure = <<500, "g">>, !.price = 240]>>,
     <<Weighed(label), [Columns EXCEPT !.measure = <<500, "g">>]>>,
     <<Article(label, 1, "piece", 9500, 9500), [Columns EXCEPT !.count = 1, !.price = 9500]>>}

Header == <<[Line(Label(<<Word("carrefour")>>), None) EXCEPT !.merchant = "carrefour"],
            [Line(Label(<<Word("ticket")>>), None) EXCEPT !.date = "saturday"]>>
Elsewhere == <<[Line(Label(<<Word("ticket")>>), None) EXCEPT !.date = "no such day"],
               [Line(Label(<<Word("rendu")>>), 500) EXCEPT !.furniture = TRUE, !.date = "saturday", !.currency = "CHF"]>>

Total(amount) == [Line(Label(<<Word("total")>>), amount) EXCEPT !.total = TRUE, !.furniture = TRUE]
Tax == [Total(80) EXCEPT !.notTotal = TRUE]
TillFooters == {<<>>, <<Total(510)>>, <<Tax, Total(510)>>, <<Total(510), Total(0)>>, <<Total(510), Tax>>}

TillPapers ==
    LET Till(header, l, footer) ==
            Pdf(<<Page(header \o <<Purchase(l[1], l[2]), Purchase(Other, [Columns EXCEPT !.leading = 1])>> \o footer)>>,
                {l[1], Other}, IF footer = <<>> THEN None ELSE 510)
    IN  {Till(Header, l, <<Total(510)>>) : l \in Layouts(Chips)}
        \cup {Till(Elsewhere, l, <<>>) : l \in Layouts(Smoked)}
        \cup {Till(Elsewhere, <<Bought(Smoked), Columns>>, footer) : footer \in TillFooters}

(* The article of a recap, priced on the line of the count, on the line     *)
(* below, after the two lines of a promotion, or with no price at all.      *)
Title(article) == Line(article.label, None)
Counted(article) == [Line(Label(<<Word("quantite")>>), None) EXCEPT !.head = article.quantity]
Prices(article) ==
    [Line(Label(<<Word("prix")>>), article.unitPrice)
        EXCEPT !.prices = <<article.totalPrice, article.unitPrice>>, !.currency = "EUR"]
Inline(article) ==
    <<Title(article), [Counted(article) EXCEPT !.prices = <<article.totalPrice, article.unitPrice>>,
                                               !.amount = article.unitPrice]>>
Promotion == <<Line(Label(<<Word("offre")>>), None),
               [Line(Label(<<Word("date")>>), None) EXCEPT !.furniture = TRUE]>>
Apart(article) == <<Title(article), Counted(article), Prices(article)>>
Promoted(article) == <<Title(article), Counted(article)>> \o Promotion \o <<Prices(article)>>
Unpriced(article) == <<Title(article), Counted(article)>>
Blocks(article) == {Inline(article), Promoted(article), Unpriced(article)}

Caption(total) == [Line(Label(<<Word("montant")>>), None) EXCEPT !.caption = TRUE, !.total = total]
Bare(amount) == [BlankLine EXCEPT !.amount = amount, !.bare = TRUE]
(* The total first, second, beside amounts that do not line up, then alone. *)
Summaries ==
    {<<Caption(TRUE), Caption(FALSE), Bare(510), Bare(181)>>,
     <<Caption(FALSE), Caption(TRUE), Bare(181), Bare(510)>>,
     <<Caption(FALSE), Caption(TRUE), Bare(181)>>,
     <<Caption(TRUE), Bare(510), Bare(181), Bare(60)>>, <<Total(510)>>}

Recaps ==
    LET Recap(label, first, second, summary) ==
            Pdf(<<Page(Header \o first), Page(second \o summary)>>, {Bought(label), Other}, 510)
    IN  UNION {{Recap(label, first, second, <<Total(510)>>) :
                   first \in Blocks(Bought(label)), second \in Blocks(Other)} : label \in {Chips, Trout, Saltless}}
        \cup {Recap(Chips, first, Inline(Other), summary) : first \in Blocks(Bought(Chips)), summary \in Summaries}
        \cup {Pdf(<<Page(Inline(Third)), Page(Promoted(Bought(Pancetta)) \o Inline(Other) \o <<Total(510)>>)>>,
                  {Other, Bought(Pancetta), Third}, 510),
              Pdf(<<Page(Header \o Apart(Bought(Chips)) \o Apart(Other) \o <<Total(510)>>)>>,
                  {Bought(Chips), Other}, 510),
              Pdf(<<Page(Header \o Inline(Bought(Cut)) \o <<Total(300)>>)>>, {Bought(Cut)}, 300)}

(* A recap with a page that cannot be read, the files no text is read from, *)
(* and photographs that are and are not what they are sent as.              *)
Recap(pages) == Pdf(pages, {Bought(Chips), Other, Third}, 510)
First == Page(Header \o Inline(Bought(Chips)))
Last == Page(Inline(Third) \o <<Total(510)>>)
(* An article whose prices are on the page that cannot be read, or nowhere, *)
(* with those of the next one within reach.                                 *)
Crowded(between) == Recap(<<Page(Header \o Unpriced(Bought(Chips)))>> \o between \o <<Page(Apart(Other))>>)
Scan == Pdf(<<Page(<<BlankLine, BlankLine>>)>>, {}, None)
Photographs ==
    LET Framed(marker, whole, width) ==
            [Photo("jpeg") EXCEPT !.segments[1] = Segment(marker, whole, width)]
    IN  {Photo(format) : format \in {"jpeg", "png", "gif", "webp", "heif", "pdf"}}
        \cup {Framed("frame", TRUE, 4), Framed("frame", FALSE, 1), Framed("other", TRUE, 1)}
        \cup {[Photo(format) EXCEPT !.ends = FALSE] : format \in {"jpeg", "png", "gif", "webp"}}
        \cup {[Photo("png") EXCEPT !.width = 0], [Photo("png") EXCEPT !.sum = FALSE],
              [Photo("jpeg") EXCEPT !.bytes = 11], [File EXCEPT !.type = "text/plain"],
              [File EXCEPT !.suffix = "heic", !.starts = "heif"], [Photo("jpeg") EXCEPT !.type = "application/pdf"]}
Scans ==
    Photographs \cup
    {Recap(<<First, TornPage, Last>>), Recap(<<First, Page(Inline(Other)), Last>>), Recap(<<TornPage, TornPage>>),
     Crowded(<<>>), Crowded(<<TornPage>>), Recap(<<First, TornPage, TornPage, Last>>), Scan, [Scan EXCEPT !.opens = FALSE], [Scan EXCEPT !.starts = "png"],
     [Recap(<<First>>) EXCEPT !.encrypted = TRUE], [Recap(<<First>>) EXCEPT !.paged = FALSE],
     [Recap(<<First>>) EXCEPT !.pages[1].chars = 21]}

Read(label, quantity, unit, unitPrice, totalPrice) ==
    [label |-> label, quantity |-> quantity, unit |-> unit, unitPrice |-> unitPrice, totalPrice |-> totalPrice]
Said(lines, merchant, total, notice) ==
    [lines |-> lines, truncated |-> FALSE, merchant |-> merchant, purchasedOn |-> "saturday", currency |-> "EUR",
     total |-> total, notice |-> notice]
(* A model may leave a name out, make up a unit, an amount or a quantity,   *)
(* read more lines than are kept, or none.                                  *)
MCAnswers ==
    {Said(<<Read(None, 1, "piece", 10, 10), Read(Cut, 1, "piece", 10, 10)>>, "leclerc", 20, None),
     Said(<<Read(Chips, -1, "piece", 10, 10), Read(Smoked, 2, "dozen", 8500, 10)>>, "leclerc", 20, "no total"),
     Said(<<Read(Saltless, 950, "g", None, None), Read(Branded, 1, None, 10, 10), Read(Butter, 1, "piece", 10, 10)>>,
          None, 8500, None),
     Said(<<>>, None, None, None)}

MCNamed == [p1 |-> <<"beurre">>, p2 |-> <<"beurre">>, p3 |-> <<"chips", "pomme", "de", "terre">>,
            p4 |-> <<"beurre">>]

MCUploads == TillPapers \cup Recaps \cup Scans

MCSlashPrefixes == <<Entry(<<"s">>, <<<<"sans">>>>, "high", "qualifier", {})>>
MCWidths == [carrefour |-> 12]

(* Documents by what they cost a process: one that can be read, one within  *)
(* which the process is lost, and a long one that needs too much memory.    *)
Costly(pages, cpu, peak, stuck) ==
    [starts |-> "pdf", opens |-> TRUE, encrypted |-> FALSE, paged |-> TRUE,
     pages |-> pages, cpu |-> cpu, peak |-> peak, stuck |-> stuck]
MCPdfs == {Costly(<<Page(<<>>)>>, 2, 1, FALSE), Costly(<<Page(<<>>)>>, 1, 1, TRUE),
           Costly(<<Page(<<>>), TornPage>>, 1, 9, FALSE)}
==============================================================================
