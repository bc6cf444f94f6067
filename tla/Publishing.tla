----------------------------- MODULE Publishing -----------------------------
(***************************************************************************)
(* From the editor to the public page: PublicationsService and             *)
(* ArticlesService on the server, the author's editor in front of it, and  *)
(* the page of an article, which the web server keeps for a minute.        *)
(*                                                                         *)
(* Requests look at a row in one statement and write in a later one.       *)
(* Whoever is not the owner is refused before anything changes, so all     *)
(* requests here are the owner's.  An article's slug is a base, the same   *)
(* for all titles here, and a number: 0 stands for none.  HTML is known by *)
(* the text it was rendered from.  What a save sends is any text: nothing  *)
(* here depends on what the editor held before.                            *)
(***************************************************************************)
EXTENDS Naturals, FiniteSets

CONSTANTS
    Publications, Slugs,
    Articles, Texts,
    Payloads,        \* what the editor sends, some of Payload
    Patches,         \* what else may be sent to change an article, some of Patch
    Tabs,            \* editors open in browsers
    Requests,        \* requests in flight at a time
    VisitedSlug,     \* the page that is watched: the first article of this slug
    MaxChanges,      \* bound: requests that change anything
    Faulty,          \* whether answers get lost and writes throw
    None, Api        \* no row, and a client that is not an editor

Payload == [text: Texts, visibility: {"free", "paid"}, status: {"draft", "published", "scheduled"}]

ASSUME BoundAssumption == MaxChanges \in Nat
\* UpdateArticleDto as the service gets it: None is a field not given.
Patch == [text: Texts \cup {None}, visibility: {"free", "paid", None},
          status: {"draft", "published", "scheduled", None}]

ASSUME PayloadAssumption == Payloads \subseteq Payload /\ Patches \subseteq Patch
ASSUME NoneAssumption == None \notin Articles /\ Api \notin Tabs
ASSUME ModeAssumption == Faulty \in BOOLEAN

VARIABLES
    publications,    \* table publications: its slug
    articles,        \* table articles
    used,            \* ids that were given away
    tab,             \* the editors
    page,            \* what the web server keeps of the watched page
    req,             \* how far each request is
    changes,
    released,        \* auxiliary: what the table has ever offered to readers
    overlapped,      \* auxiliary: articles two updates of which overlapped
    mine             \* auxiliary: articles an editor's saves have created

tables == <<publications, articles, used>>
history == <<released, overlapped, mine>>
vars == <<tables, tab, page, req, changes, history>>

Idle == [at |-> "idle"]
Clean == [article |-> None, saving |-> FALSE, publishing |-> FALSE]

Article == [publication: Publications, number: Nat, markdown: Texts, html: Texts,
            visibility: {"free", "paid"}, status: {"draft", "published", "scheduled"}]
Shown == [article: Articles, html: Texts, full: BOOLEAN]
Editor == [article: Articles \cup {None}, saving: BOOLEAN, publishing: BOOLEAN]
Client == Tabs \cup {Api}
Button == {"save", "publish"}

Request == {Idle}
    \cup [at: {"claim"}, publication: Publications, slug: Slugs]
    \cup [at: {"probe", "insert"}, publication: Publications, number: Nat,
          payload: Payload, client: Client, button: Button]
    \cup [at: {"update"}, article: Articles, payload: Patch, changed: BOOLEAN,
          client: Client, button: Button]
    \cup [at: {"answer"}, article: Articles \cup {None}, client: Client, button: Button]
    \cup [at: {"publish", "schedule", "delete"}, article: Articles]
    \cup [at: {"view"}, publication: Publications]

TypeOK ==
    /\ publications \in [Publications -> Slugs \cup {None}]
    /\ articles \in [Articles -> Article \cup {None}]
    /\ used \subseteq Articles
    /\ tab \in [Tabs -> Editor]
    /\ page \in Shown \cup {None}
    /\ req \in [Requests -> Request]
    /\ changes \in 0 .. MaxChanges
    /\ released \subseteq Shown /\ overlapped \subseteq Articles
    /\ mine \in [Tabs -> SUBSET Articles]

Init ==
    /\ publications = [p \in Publications |-> None]
    /\ articles = [a \in Articles |-> None]
    /\ used = {}
    /\ tab = [k \in Tabs |-> Clean]
    /\ page = None
    /\ req = [r \in Requests |-> Idle]
    /\ changes = 0
    /\ released = {} /\ overlapped = {}
    /\ mine = [k \in Tabs |-> {}]

-----------------------------------------------------------------------------
Exists(a) == articles[a] # None
SlugTaken(s) == \E p \in Publications : publications[p] = s
NumberTaken(p, n) ==
    \E a \in Articles : Exists(a) /\ articles[a].publication = p /\ articles[a].number = n

-----------------------------------------------------------------------------
(* Slips a maintainer could make below, to see that the properties notice. *)

MutRerenderedNever(a, text) == FALSE
MutInFullAlways(row) == TRUE
MutBusyNever(k) == FALSE

-----------------------------------------------------------------------------
(* What the code decides.                                                  *)

\* contentChanged of update.
Rerendered(a, text) == text # None /\ text # articles[a].markdown

\* What findBySlug answers, and whether with the content or the excerpt only.
Readable(row) == row.status = "published"
InFull(row) == row.visibility # "paid"
Offered(a) == [article |-> a, html |-> articles[a].html, full |-> InFull(articles[a])]

Begin(r) == req[r] = Idle /\ changes < MaxChanges /\ changes' = changes + 1

GoOn(r, next) == req' = [req EXCEPT ![r] = next]

Answer(r, a) ==
    GoOn(r, [at |-> "answer", article |-> a, client |-> req[r].client, button |-> req[r].button])

\* What readers may have been offered of a row is remembered for the properties.
SetArticle(a, row) ==
    /\ articles' = [articles EXCEPT ![a] = row]
    /\ released' = IF row # None /\ row.status = "published"
                   THEN released \cup {[article |-> a, html |-> row.html,
                                        full |-> row.visibility = "free"]}
                   ELSE released

-----------------------------------------------------------------------------
(* PublicationsService: a slug is looked up and then claimed.              *)

createPublication(r, p, s) ==
    /\ Begin(r)
    /\ publications[p] = None
    /\ \A q \in Requests : req[q].at = "claim" => req[q].publication # p
    /\ ~ SlugTaken(s)
    /\ GoOn(r, [at |-> "claim", publication |-> p, slug |-> s])
    /\ UNCHANGED <<tables, tab, page, history>>

updatePublication(r, p, s) ==
    /\ Begin(r)
    /\ publications[p] # None
    /\ ~ SlugTaken(s)
    /\ GoOn(r, [at |-> "claim", publication |-> p, slug |-> s])
    /\ UNCHANGED <<tables, tab, page, history>>

ClaimSlug(r) ==
    /\ req[r].at = "claim" /\ ~ SlugTaken(req[r].slug)
    /\ publications' = [publications EXCEPT ![req[r].publication] = req[r].slug]
    /\ GoOn(r, Idle)
    /\ UNCHANGED <<articles, used, tab, page, changes, history>>

ClaimFails(r) ==
    /\ req[r].at = "claim" /\ (SlugTaken(req[r].slug) \/ Faulty)
    /\ GoOn(r, Idle)
    /\ UNCHANGED <<tables, tab, page, changes, history>>

-----------------------------------------------------------------------------
(* ArticlesService: create.                                                *)

Create(r, p, payload, k, button) ==
    /\ publications[p] # None
    /\ GoOn(r, [at |-> "probe", publication |-> p, number |-> 0, payload |-> payload,
                client |-> k, button |-> button])

uniqueSlug(r) ==
    /\ req[r].at = "probe"
    /\ GoOn(r, IF NumberTaken(req[r].publication, req[r].number)
               THEN [req[r] EXCEPT !.number = @ + 1]
               ELSE [req[r] EXCEPT !.at = "insert"])
    /\ UNCHANGED <<tables, tab, page, changes, history>>

Inserted(r) ==
    [publication |-> req[r].publication, number |-> req[r].number,
     markdown |-> req[r].payload.text, html |-> req[r].payload.text,
     visibility |-> req[r].payload.visibility, status |-> req[r].payload.status]

InsertArticle(r, a) ==
    /\ req[r].at = "insert" /\ a \notin used
    /\ ~ NumberTaken(req[r].publication, req[r].number)
    /\ SetArticle(a, Inserted(r))
    /\ used' = used \cup {a}
    /\ mine' = IF req[r].client \in Tabs /\ req[r].button = "save"
               THEN [mine EXCEPT ![req[r].client] = @ \cup {a}] ELSE mine
    /\ Answer(r, a)
    /\ UNCHANGED <<publications, tab, page, changes, overlapped>>

InsertFails(r) ==
    /\ req[r].at = "insert"
    /\ NumberTaken(req[r].publication, req[r].number) \/ Faulty
    /\ Answer(r, None)
    /\ UNCHANGED <<tables, tab, page, changes, history>>

-----------------------------------------------------------------------------
(* ArticlesService: update, publish, schedule, delete.  The row is read to *)
(* check its owner, and may be gone when it is written.                    *)

Update(r, a, payload, k) ==
    /\ GoOn(r, IF Exists(a)
               THEN [at |-> "update", article |-> a, payload |-> payload,
                     changed |-> Rerendered(a, payload.text),
                     client |-> k, button |-> "save"]
               ELSE [at |-> "answer", article |-> None, client |-> k, button |-> "save"])
    /\ overlapped' =
          IF \E q \in Requests : req[q].at = "update" /\ req[q].article = a
          THEN overlapped \cup {a} ELSE overlapped

\* A field not given is left as it is.  Only the content decides whether HTML
\* and excerpt are rendered anew.
Given(field, old) == IF field = None THEN old ELSE field

Updated(r) ==
    LET row == articles[req[r].article]
        payload == req[r].payload
    IN  [row EXCEPT !.markdown = Given(payload.text, @),
                    !.html = IF req[r].changed THEN Given(payload.text, @) ELSE @,
                    !.visibility = Given(payload.visibility, @),
                    !.status = Given(payload.status, @)]

WriteUpdate(r) ==
    /\ req[r].at = "update" /\ Exists(req[r].article)
    /\ SetArticle(req[r].article, Updated(r))
    /\ Answer(r, req[r].article)
    /\ UNCHANGED <<publications, used, tab, page, changes, overlapped, mine>>

UpdateFails(r) ==
    /\ req[r].at = "update" /\ (~ Exists(req[r].article) \/ Faulty)
    /\ Answer(r, None)
    /\ UNCHANGED <<tables, tab, page, changes, history>>

Change(r, a, what) ==
    /\ Begin(r)
    /\ Exists(a)
    /\ GoOn(r, [at |-> what, article |-> a])
    /\ UNCHANGED <<tables, tab, page, history>>

publish(r, a) == Change(r, a, "publish")
schedule(r, a) == Change(r, a, "schedule")
delete(r, a) == Change(r, a, "delete")

Changed(r) ==
    CASE req[r].at = "publish" -> [articles[req[r].article] EXCEPT !.status = "published"]
      [] req[r].at = "schedule" -> [articles[req[r].article] EXCEPT !.status = "scheduled"]
      [] req[r].at = "delete" -> None

WriteChange(r) ==
    /\ req[r].at \in {"publish", "schedule", "delete"}
    /\ Exists(req[r].article)
    /\ SetArticle(req[r].article, Changed(r))
    /\ GoOn(r, Idle)
    /\ UNCHANGED <<publications, used, tab, page, changes, overlapped, mine>>

ChangeFails(r) ==
    /\ req[r].at \in {"publish", "schedule", "delete"}
    /\ ~ Exists(req[r].article) \/ Faulty
    /\ GoOn(r, Idle)
    /\ UNCHANGED <<tables, tab, page, changes, history>>

-----------------------------------------------------------------------------
(* The editor, and other clients of the same routes.                       *)

\* These buttons are disabled while their request is under way.
SaveBusy(k) == tab[k].saving
PublishBusy(k) == tab[k].publishing

handleSaveDraft(r, k, p, payload) ==
    /\ Begin(r) /\ ~ SaveBusy(k)
    /\ payload.status = "draft"
    /\ tab' = [tab EXCEPT ![k].saving = TRUE]
    /\ IF tab[k].article = None
       THEN Create(r, p, payload, k, "save") /\ UNCHANGED overlapped
       ELSE Update(r, tab[k].article, payload, k)
    /\ UNCHANGED <<tables, page, released, mine>>

\* Publishing always creates an article, whatever was saved before.  The
\* button that schedules is not disabled meanwhile.
handlePublish(r, k, p, payload) ==
    /\ Begin(r)
    /\ \/ payload.status = "scheduled"
       \/ payload.status = "published" /\ ~ PublishBusy(k)
    /\ tab' = [tab EXCEPT ![k].publishing = TRUE]
    /\ Create(r, p, payload, k, "publish")
    /\ UNCHANGED <<tables, page, history>>

\* The editor is opened for an article there is.
OpenEditor(k, a) ==
    /\ tab[k] = Clean /\ Exists(a)
    /\ tab' = [tab EXCEPT ![k].article = a]
    /\ UNCHANGED <<tables, page, req, changes, history>>

PatchArticle(r, a, patch) ==
    /\ Begin(r)
    /\ Exists(a)
    /\ Update(r, a, patch, Api)
    /\ UNCHANGED <<tables, tab, page, released, mine>>

\* Nobody waits for the requests of a page that was left.
Forgotten(k, r) ==
    [q \in Requests |->
        IF q = r THEN Idle
        ELSE IF req[q].at \in {"probe", "insert", "update", "answer"} /\ req[q].client = k
             THEN [req[q] EXCEPT !.client = Api] ELSE req[q]]

SaveAnswered(r) ==
    LET k == req[r].client
    IN  /\ req[r].at = "answer" /\ k \in Tabs /\ req[r].button = "save"
        /\ tab' = [tab EXCEPT ![k].saving = FALSE,
                              ![k].article = IF req[r].article = None THEN @ ELSE req[r].article]
        /\ GoOn(r, Idle)
        /\ UNCHANGED <<tables, page, changes, history>>

PublishAnswered(r) ==
    LET k == req[r].client
    IN  /\ req[r].at = "answer" /\ k \in Tabs /\ req[r].button = "publish"
        /\ IF req[r].article = None
           THEN /\ tab' = [tab EXCEPT ![k].publishing = FALSE]
                /\ GoOn(r, Idle)
                /\ UNCHANGED mine
           ELSE /\ tab' = [tab EXCEPT ![k] = Clean]
                /\ req' = Forgotten(k, r)
                /\ mine' = [mine EXCEPT ![k] = {}]
        /\ UNCHANGED <<tables, page, changes, released, overlapped>>

ApiAnswered(r) ==
    /\ req[r].at = "answer" /\ req[r].client = Api
    /\ GoOn(r, Idle)
    /\ UNCHANGED <<tables, tab, page, changes, history>>

\* The editor reports an error, the server goes on.
LoseAnswer(r) ==
    /\ Faulty
    /\ req[r].at \in {"probe", "insert", "update", "answer"} /\ req[r].client \in Tabs
    /\ LET k == req[r].client
       IN  /\ tab' = [tab EXCEPT ![k].saving = @ /\ req[r].button # "save",
                                 ![k].publishing = @ /\ req[r].button # "publish"]
           /\ mine' = [mine EXCEPT ![k] = {}]
    /\ GoOn(r, [req[r] EXCEPT !.client = Api])
    /\ UNCHANGED <<tables, page, changes, released, overlapped>>

-----------------------------------------------------------------------------
(* Readers.  findBySlug looks up the publication, then the article.        *)

findBySlug(r) ==
    /\ req[r] = Idle
    /\ \E p \in Publications :
          /\ publications[p] = VisitedSlug
          /\ GoOn(r, [at |-> "view", publication |-> p])
    /\ UNCHANGED <<tables, tab, page, changes, history>>

ShowArticle(r) ==
    /\ req[r].at = "view"
    /\ \E a \in Articles :
          /\ Exists(a) /\ Readable(articles[a])
          /\ articles[a].publication = req[r].publication /\ articles[a].number = 0
          /\ page' = Offered(a)
    /\ GoOn(r, Idle)
    /\ UNCHANGED <<tables, tab, changes, history>>

\* An answer that is not OK is not kept.
NotFound(r) ==
    /\ req[r].at = "view"
    /\ \A a \in Articles :
          ~ (/\ Exists(a) /\ Readable(articles[a])
             /\ articles[a].publication = req[r].publication /\ articles[a].number = 0)
    /\ GoOn(r, Idle)
    /\ UNCHANGED <<tables, tab, page, changes, history>>

-----------------------------------------------------------------------------
OnPublication(r) ==
    \/ \E p \in Publications, s \in Slugs : createPublication(r, p, s) \/ updatePublication(r, p, s)
    \/ ClaimSlug(r) \/ ClaimFails(r)

OnArticle(r) ==
    \/ uniqueSlug(r) \/ InsertFails(r)
    \/ \E a \in Articles :
          InsertArticle(r, a) \/ publish(r, a) \/ schedule(r, a) \/ delete(r, a)
    \/ \E a \in Articles, patch \in Patches : PatchArticle(r, a, patch)
    \/ WriteUpdate(r) \/ UpdateFails(r) \/ WriteChange(r) \/ ChangeFails(r)

InEditor(r) ==
    \/ \E k \in Tabs, p \in Publications, payload \in Payloads :
          handleSaveDraft(r, k, p, payload) \/ handlePublish(r, k, p, payload)
    \/ SaveAnswered(r) \/ PublishAnswered(r) \/ ApiAnswered(r) \/ LoseAnswer(r)

ByReader(r) == findBySlug(r) \/ ShowArticle(r) \/ NotFound(r)

Next ==
    \/ \E r \in Requests : OnPublication(r) \/ OnArticle(r) \/ InEditor(r) \/ ByReader(r)
    \/ \E k \in Tabs, a \in Articles : OpenEditor(k, a)

Spec == Init /\ [][Next]_vars

-----------------------------------------------------------------------------
(* The page never shows what the author had not released to everybody in   *)
(* this form: no draft, no scheduled article, and in full only what was    *)
(* published for free, however the row changed around the look-up.         *)
ShownWasReleased == page # None => page \in released

(* The editor makes one draft of what it saves, as long as answers arrive: *)
(* a second click while the first save is under way, or a save while a     *)
(* publication is under way, does not create another.                      *)
OneDraftPerEditor == \A k \in Tabs : Cardinality(mine[k]) <= 1

(* HTML and excerpt are those of the Markdown, unless two updates of the   *)
(* article overlapped.                                                     *)
RenderedUnlessOverlapped ==
    \A a \in Articles :
        Exists(a) /\ a \notin overlapped => articles[a].html = articles[a].markdown

-----------------------------------------------------------------------------
(* articles.service.ts on update: "Re-renders markdown and regenerates     *)
(* excerpt when content_markdown changes."                                 *)
HtmlIsRendered ==
    \A a \in Articles : Exists(a) => articles[a].html = articles[a].markdown
=============================================================================
