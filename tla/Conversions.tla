----------------------------- MODULE Conversions -----------------------------
(***************************************************************************)
(* What the code makes of the texts and prices that people type: addresses *)
(* of articles and publications, excerpts, the HTML of an e-mail, the CSV  *)
(* of the subscribers, and the rubles that the payment processors speak.   *)
(*                                                                         *)
(* A text is a sequence of characters.  A tag of HTML counts as one, and   *)
(* so does the name of an entity: "lt;" may be typed, too.  Of the letters *)
(* that are transliterated there is one of each length, and the one that   *)
(* the two maps write differently.                                         *)
(***************************************************************************)
EXTENDS Fees, SequencesExt

CONSTANT maxLength      \* of an excerpt

ASSUME MaxLengthAssumption == maxLength \in Nat \ {0}

-----------------------------------------------------------------------------
(* Addresses: slugify of articles and transliterateToSlug of publications. *)

MutMapOfSmallLetters ==
    [yo |-> <<"y", "o">>, shch |-> <<"s", "h", "c", "h">>, soft |-> <<>>, short_i |-> <<"j">>]

\* The keys: the letters of that name, small and capital; "shch" is one letter.
CYRILLIC_MAP ==
    [yo |-> <<"y", "o">>, shch |-> <<"s", "h", "c", "h">>, soft |-> <<>>, short_i |-> <<"j">>,
     YO |-> <<"y", "o">>, SHCH |-> <<"s", "h", "c", "h">>, SOFT |-> <<>>, SHORT_I |-> <<"j">>]

TRANSLIT_MAP ==
    [yo |-> <<"y", "o">>, shch |-> <<"s", "h", "c", "h">>, soft |-> <<>>, short_i |-> <<"y">>]

Small == [Y |-> "y", YO |-> "yo", SHCH |-> "shch", SOFT |-> "soft", SHORT_I |-> "short_i"]

Alphanumeric == {"c", "h", "j", "o", "s", "y"}

Transliterated(text, map) ==
    FlattenSeq([k \in DOMAIN text |-> IF text[k] \in DOMAIN map THEN map[text[k]] ELSE <<text[k]>>])

toLowerCase(text) ==
    [k \in DOMAIN text |-> IF text[k] \in DOMAIN Small THEN Small[text[k]] ELSE text[k]]

\* A run of characters outside S becomes one blank.
RunsReplaced(text, S, blank) ==
    LET add(s, c) == IF c \in S THEN Append(s, c)
                     ELSE IF s # <<>> /\ Last(s) = blank THEN s ELSE Append(s, blank)
    IN  FoldLeft(add, <<>>, text)

Trimmed(text, blank) ==
    LET kept == {k \in DOMAIN text : text[k] # blank}
    IN  IF kept = {} THEN <<>> ELSE SubSeq(text, Min(kept), Max(kept))

Collapsed(text) ==
    LET add(s, c) == IF c = "-" /\ s # <<>> /\ Last(s) = "-" THEN s ELSE Append(s, c)
    IN  FoldLeft(add, <<>>, text)

slugify(text) ==
    Collapsed(Trimmed(RunsReplaced(toLowerCase(Transliterated(text, CYRILLIC_MAP)),
                                   Alphanumeric, "-"), "-"))

transliterateToSlug(text) ==
    Trimmed(Collapsed(RunsReplaced(Transliterated(toLowerCase(text), TRANSLIT_MAP),
                                   Alphanumeric, "-")), "-")

\* An article always has an address; a publication without one is refused.
BaseSlug(title) == IF slugify(title) = <<>> THEN <<"article">> ELSE slugify(title)
Refused(name) == transliterateToSlug(name) = <<>>

-----------------------------------------------------------------------------
(* Excerpts. *)

Tag == "<p>"

Stripped(html) ==
    Trimmed(RunsReplaced(html, {html[k] : k \in DOMAIN html} \ {Tag, " "}, " "), " ")

\* Where a text that is too long is cut: before its last space, if there is one.
Boundary(text) ==
    LET spaces == {k \in 2 .. maxLength : text[k] = " "}
    IN  IF spaces = {} THEN maxLength ELSE Max(spaces) - 1

generateExcerpt(html) ==
    LET text == Stripped(html)
    IN  IF Len(text) <= maxLength THEN text ELSE Append(SubSeq(text, 1, Boundary(text)), "...")

-----------------------------------------------------------------------------
(* The e-mail of an article, in HTML. *)

MutEntitiesAmpersandLast == <<<<"<", "lt;">>, <<"\"", "quot;">>, <<"&", "amp;">>>>

\* In the order in which they are replaced.
Entities == <<<<"&", "amp;">>, <<"<", "lt;">>, <<"\"", "quot;">>>>

Replaced(text, c, by) == FlattenSeq([k \in DOMAIN text |-> IF text[k] = c THEN by ELSE <<text[k]>>])

escapeHtml(text) == FoldLeft(LAMBDA t, e : Replaced(t, e[1], <<"&", e[2]>>), text, Entities)

MutTeaserForPaidReaders(visibility, type) == visibility = "paid" /\ type = "paid"

IsTeaser(visibility, type) == visibility = "paid" /\ type # "paid"

Prompt == "Subscribe to read on"

buildTeaserBody(html) == Append(escapeHtml(generateExcerpt(html)), Prompt)

\* The parts of the e-mail that depend on the article and on who gets it.
articleEmailHtml(title, html, isTeaser) ==
    [title |-> escapeHtml(title), body |-> IF isTeaser THEN buildTeaserBody(html) ELSE html]

-----------------------------------------------------------------------------
(* The export of the subscribers, as CSV. *)

LineEnd == "\r\n"

Quoted(value) == {",", "\"", LineEnd} \cap {value[k] : k \in DOMAIN value} # {}

escapeCsvField(value) ==
    IF Quoted(value) THEN <<"\"">> \o Replaced(value, "\"", <<"\"", "\"">>) \o <<"\"">> ELSE value

\* Subscribers in the order in which they started.
csvContent(subscribers) ==
    LET row(s) == escapeCsvField(s.email) \o <<",">> \o escapeCsvField(s.type)
                    \o <<",">> \o s.subscribed_at
        add(csv, s) == csv \o <<LineEnd>> \o row(s)
    IN  FoldLeft(add, <<"email", ",", "type", ",", "subscribed_at">>, subscribers)

-----------------------------------------------------------------------------
(* Rubles.  The widget of CloudPayments is told a price with two digits    *)
(* after the point; the webhooks of CloudPayments and YooKassa report such *)
(* a number, that of SBP kopecks.  A double times 100 may be a little off, *)
(* here by a thousandth of a kopeck.                                       *)

Errors == {-1, 0, 1}

MutKopecksTruncated(processor, amount, error) ==
    IF processor = "sbp" THEN amount.kopecks
    ELSE (1000 * (100 * amount.rubles + amount.kopecks) + error) \div 1000

\* What a checkout tells the processor; YooKassa and SBP get a fresh reference.
Session(processor, amount, subscriber, reference) ==
    IF processor = "cloudpayments"
    THEN [amount |-> [rubles |-> amount \div 100, kopecks |-> amount % 100],
          accountId |-> subscriber]
    ELSE [reference |-> reference]

\* What the webhook of a processor says of a charge.
Reported(processor, amount) ==
    IF processor = "sbp" THEN [rubles |-> 0, kopecks |-> amount]
    ELSE [rubles |-> amount \div 100, kopecks |-> amount % 100]

amountKopecks(processor, amount, error) ==
    IF processor = "sbp" THEN amount.kopecks
    ELSE Round(1000 * (100 * amount.rubles + amount.kopecks) + error, 1000)
=============================================================================
