---------------------------- MODULE MCConversions ----------------------------
(* Walks through the texts up to a length, character by character: titles,  *)
(* HTML, and what stands in an e-mail or in a CSV.                          *)
EXTENDS Conversions

CONSTANT MaxText    \* of each kind of text, the longest

VARIABLE text

Titles == {"y", "Y", "yo", "YO", "shch", "SHCH", "soft", "short_i", "SHORT_I", "-", "!"}
Pages == {"x", " ", Tag}
Fields == {"x", "&", "<", "lt;", "\"", ",", LineEnd}

Kinds == [title |-> Titles, page |-> Pages, field |-> Fields]

TypeCharacter ==
    \E kind \in DOMAIN Kinds : \E c \in Kinds[kind] :
        /\ {text[k] : k \in DOMAIN text} \subseteq Kinds[kind]
        /\ Len(text) < MaxText[kind]
        /\ text' = Append(text, c)

\* Any text in some characters.
Types(characters) == \E c \in characters : text' = Append(text, c)

TextsSpec(characters) == text = <<>> /\ [][Types(characters)]_text

\* The empty text is of no interest.
Typed == text # <<>>

Characters == {text[k] : k \in DOMAIN text}

-----------------------------------------------------------------------------
(* Both ways of making a slug end in a normal form - no hyphen in front,   *)
(* behind or next to another, nothing but small letters, so that the form  *)
(* of a publication would take it - which is a fixed point of both; and    *)
(* they agree on the names without a short i, in small letters or capital. *)
SlugsNormal ==
    Typed =>
    LET slugs == {slugify(text), transliterateToSlug(text)}
        normal(s) == /\ \A k \in DOMAIN s : s[k] \in Alphanumeric \cup {"-"}
                     /\ \A k \in DOMAIN s : s[k] = "-" =>
                            k \notin {1, Len(s)} /\ s[k + 1] # "-"
    IN  /\ \A s \in slugs : normal(s) /\ slugify(s) = s /\ transliterateToSlug(s) = s
        /\ {"short_i", "SHORT_I"} \cap Characters = {} => Cardinality(slugs) = 1
        /\ BaseSlug(text) # <<>> /\ (Refused(text) <=> slugify(text) = <<>>)

\* How HTML is read: an entity stands for its character.
HtmlRead(html) ==
    LET read(s, c) ==
            LET meant == {k \in DOMAIN Entities : s.open /\ Entities[k][2] = c}
            IN  IF c = "&" THEN [s EXCEPT !.open = TRUE]
                ELSE [said |-> Append(s.said, IF meant = {} THEN c
                                              ELSE Entities[CHOOSE k \in meant : TRUE][1]),
                      open |-> FALSE]
    IN  FoldLeft(read, [said |-> <<>>, open |-> FALSE], html).said

\* How a CSV is read (RFC 4180): rows of fields.
CsvRead(csv) ==
    LET ended(s) == [s EXCEPT !.row = Append(@, s.field), !.field = <<>>, !.mode = "plain"]
        more(s, c) == [s EXCEPT !.field = Append(@, c)]
        read(s, c) ==
            CASE s.mode = "quoted" -> IF c = "\"" THEN [s EXCEPT !.mode = "closed"] ELSE more(s, c)
              [] s.mode # "quoted" /\ c = "\"" ->
                    IF s.mode = "closed" THEN [more(s, c) EXCEPT !.mode = "quoted"]
                    ELSE IF s.field = <<>> THEN [s EXCEPT !.mode = "quoted"] ELSE more(s, c)
              [] s.mode # "quoted" /\ c = "," -> ended(s)
              [] s.mode # "quoted" /\ c = LineEnd ->
                    [ended(s) EXCEPT !.rows = Append(s.rows, ended(s).row), !.row = <<>>]
              [] OTHER -> more(s, c)
        end == FoldLeft(read, [rows |-> <<>>, row |-> <<>>, field |-> <<>>, mode |-> "plain"], csv)
    IN  Append(end.rows, Append(end.row, end.field))

(* What readers of an e-mail see in its title, and a spreadsheet in the    *)
(* export, is what people typed, whatever special characters are in it,    *)
(* even if they typed an entity or a quoted comma.                         *)
TypedIsRead ==
    Typed =>
    LET subscriber(e) == [email |-> e, type |-> <<"free">>, subscribed_at |-> <<"then">>]
        row(e) == <<e, <<"free">>, <<"then">>>>
    IN  /\ HtmlRead(escapeHtml(text)) = text
        /\ {"<", "\""} \cap {escapeHtml(text)[k] : k \in DOMAIN escapeHtml(text)} = {}
        /\ CsvRead(csvContent(<<subscriber(text), subscriber(<<"x">>)>>)) =
               <<<<<<"email">>, <<"type">>, <<"subscribed_at">>>>, row(text), row(<<"x">>)>>

\* What an excerpt may be of a text: all of it, or a beginning that ends
\* between two words, unless the first word alone is too long.
Excerpts(all) ==
    IF Len(all) <= maxLength THEN {all}
    ELSE {Append(SubSeq(all, 1, k), "...") :
             k \in {n \in 1 .. maxLength :
                      \/ all[n + 1] = " "
                      \/ n = maxLength /\ " " \notin {all[i] : i \in 1 .. maxLength}}}

(* Whoever does not pay is mailed no more of a paid article than a short   *)
(* excerpt, cut between two words, without pictures and links; everybody   *)
(* else gets all of it.                                                    *)
TeasersStayShort ==
    Typed =>
    \A visibility, type \in {"free", "paid"} :
        LET body == articleEmailHtml(<<"x">>, text, IsTeaser(visibility, type)).body
        IN  IF visibility = "paid" /\ type = "free"
            THEN /\ Last(body) = Prompt /\ Tag \notin {body[k] : k \in DOMAIN body}
                 /\ HtmlRead(Front(body)) \in Excerpts(Stripped(text))
            ELSE body = text
=============================================================================
