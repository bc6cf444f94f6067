-------------------------- MODULE PublishingProofs --------------------------
(***************************************************************************)
(* Proofs about Publishing, for any number of publications, articles,      *)
(* editors and requests.                                                   *)
(***************************************************************************)
EXTENDS Publishing, FiniteSetTheorems, TLAPS

(* What a request holds between two awaits, read off its type.             *)
LEMMA RequestFields ==
    ASSUME TypeOK, NEW r \in Requests
    PROVE  /\ req[r] \in Request
           /\ req[r].at = "claim" => req[r].publication \in Publications /\ req[r].slug \in Slugs
           /\ req[r].at \in {"probe", "insert"} =>
                 req[r] \in [at: {"probe", "insert"}, publication: Publications, number: Nat,
                             payload: Payload, client: Client, button: Button]
           /\ req[r].at = "update" =>
                 req[r] \in [at: {"update"}, article: Articles, payload: Patch,
                             changed: BOOLEAN, client: Client, button: Button]
           /\ req[r].at = "answer" =>
                 req[r] \in [at: {"answer"}, article: Articles \cup {None},
                             client: Client, button: Button]
           /\ req[r].at \in {"publish", "schedule", "delete"} => req[r].article \in Articles
           /\ req[r].at = "view" => req[r].publication \in Publications
<1>1. req[r] \in Request  BY DEF TypeOK
<1>. QED  BY <1>1 DEF Request, Idle

(* Only the request that goes on changes.                                  *)
LEMMA GoOnEffect ==
    ASSUME TypeOK, NEW r \in Requests, NEW next, GoOn(r, next)
    PROVE  /\ req'[r] = next
           /\ \A q \in Requests : q # r => UNCHANGED req[q]
           /\ next \in Request => req' \in [Requests -> Request]
  BY DEF TypeOK, GoOn

LEMMA AnswerType ==
    ASSUME TypeOK, NEW r \in Requests, NEW a \in Articles \cup {None},
           req[r].at \in {"probe", "insert", "update"}
    PROVE  [at |-> "answer", article |-> a, client |-> req[r].client, button |-> req[r].button]
              \in Request
<1>1. req[r].client \in Client /\ req[r].button \in Button  BY RequestFields
<1>. QED  BY <1>1 DEF Request

(* Writing a row keeps the type of the table and of what was released.     *)
LEMMA RowWritten ==
    ASSUME TypeOK, NEW a \in Articles, NEW row \in Article \cup {None}, SetArticle(a, row)
    PROVE  /\ articles' \in [Articles -> Article \cup {None}]
           /\ articles'[a] = row /\ \A b \in Articles : b # a => UNCHANGED articles[b]
           /\ released \subseteq released' /\ released' \subseteq Shown
<1>1. articles' \in [Articles -> Article \cup {None}]
      /\ articles'[a] = row /\ \A b \in Articles : b # a => UNCHANGED articles[b]
  BY DEF TypeOK, SetArticle
<1>2. row # None => [article |-> a, html |-> row.html, full |-> row.visibility = "free"] \in Shown
  BY DEF Article, Shown
<1>. QED  BY <1>1, <1>2 DEF TypeOK, SetArticle

LEMMA BeginType ==
    ASSUME TypeOK, NEW r \in Requests, Begin(r)
    PROVE  changes' \in 0 .. MaxChanges
  BY BoundAssumption DEF TypeOK, Begin

-----------------------------------------------------------------------------
(* Type correctness, by the part of the system that moves.                 *)
LEMMA PublicationTypes ==
    ASSUME TypeOK, NEW r \in Requests, OnPublication(r)
    PROVE  TypeOK'
<1>1. ASSUME NEW p \in Publications, NEW s \in Slugs,
             createPublication(r, p, s) \/ updatePublication(r, p, s)
      PROVE  TypeOK'
  <2>1. [at |-> "claim", publication |-> p, slug |-> s] \in Request  BY DEF Request
  <2>2. changes' \in 0 .. MaxChanges  BY <1>1, BeginType DEF createPublication, updatePublication
  <2>. QED
    BY <1>1, <2>1, <2>2, GoOnEffect DEF createPublication, updatePublication, TypeOK, tables, history
<1>2. CASE ClaimSlug(r)
  <2>1. req[r].publication \in Publications /\ req[r].slug \in Slugs
    BY <1>2, RequestFields DEF ClaimSlug
  <2>2. Idle \in Request  BY DEF Request
  <2>. QED  BY <1>2, <2>1, <2>2, GoOnEffect DEF ClaimSlug, TypeOK, history
<1>3. CASE ClaimFails(r)
  <2>1. Idle \in Request  BY DEF Request
  <2>. QED  BY <1>3, <2>1, GoOnEffect DEF ClaimFails, TypeOK, tables, history
<1>. QED  BY <1>1, <1>2, <1>3 DEF OnPublication

LEMMA InsertedType ==
    ASSUME TypeOK, NEW r \in Requests, req[r].at = "insert"
    PROVE  Inserted(r) \in Article
<1>1. req[r].publication \in Publications /\ req[r].number \in Nat /\ req[r].payload \in Payload
  BY RequestFields
<1>. QED  BY <1>1 DEF Inserted, Article, Payload

LEMMA UpdatedType ==
    ASSUME TypeOK, NEW r \in Requests, req[r].at = "update", Exists(req[r].article)
    PROVE  Updated(r) \in Article
<1>1. req[r].payload \in Patch /\ req[r].article \in Articles  BY RequestFields
<1>2. articles[req[r].article] \in Article  BY <1>1 DEF TypeOK, Exists
<1>. QED  BY <1>1, <1>2 DEF Updated, Given, Article, Patch

LEMMA ChangedType ==
    ASSUME TypeOK, NEW r \in Requests,
           req[r].at \in {"publish", "schedule", "delete"}, Exists(req[r].article)
    PROVE  Changed(r) \in Article \cup {None}
<1>1. articles[req[r].article] \in Article  BY RequestFields DEF TypeOK, Exists
<1>2. CASE req[r].at = "publish"  BY <1>1, <1>2 DEF Changed, Article
<1>3. CASE req[r].at = "schedule"  BY <1>1, <1>3 DEF Changed, Article
<1>4. CASE req[r].at = "delete"  BY <1>4 DEF Changed
<1>. QED  BY <1>2, <1>3, <1>4

LEMMA UpdateTypes ==
    ASSUME TypeOK, NEW r \in Requests, NEW a \in Articles, NEW payload \in Patch,
           NEW k \in Client, Update(r, a, payload, k)
    PROVE  req' \in [Requests -> Request] /\ overlapped' \subseteq Articles
<1>1. ASSUME NEW changed \in BOOLEAN
      PROVE  [at |-> "update", article |-> a, payload |-> payload, changed |-> changed,
              client |-> k, button |-> "save"] \in Request
  BY DEF Request, Button
<1>2. [at |-> "answer", article |-> None, client |-> k, button |-> "save"] \in Request
  BY DEF Request, Button
<1>3. Rerendered(a, payload.text) \in BOOLEAN  BY DEF Rerendered
<1>4. req' \in [Requests -> Request]
  <2>1. CASE Exists(a)  BY <1>1, <1>3, <2>1, GoOnEffect DEF Update
  <2>2. CASE ~ Exists(a)  BY <1>2, <2>2, GoOnEffect DEF Update
  <2>. QED  BY <2>1, <2>2
<1>. QED  BY <1>4 DEF Update, TypeOK

LEMMA CreateTypes ==
    ASSUME TypeOK, NEW r \in Requests, NEW p \in Publications, NEW payload \in Payload,
           NEW k \in Client, NEW button \in Button, Create(r, p, payload, k, button)
    PROVE  req' \in [Requests -> Request]
<1>1. [at |-> "probe", publication |-> p, number |-> 0, payload |-> payload,
       client |-> k, button |-> button] \in Request
  BY DEF Request
<1>. QED  BY <1>1, GoOnEffect DEF Create

LEMMA ArticleTypes ==
    ASSUME TypeOK, NEW r \in Requests, OnArticle(r)
    PROVE  TypeOK'
<1>1. CASE uniqueSlug(r)
  <2>1. [req[r] EXCEPT !.number = @ + 1] \in Request /\ [req[r] EXCEPT !.at = "insert"] \in Request
    BY <1>1, RequestFields DEF uniqueSlug, Request
  <2>2. req' \in [Requests -> Request]  BY <1>1, <2>1, GoOnEffect DEF uniqueSlug
  <2>. QED  BY <1>1, <2>2 DEF uniqueSlug, TypeOK, tables, history
<1>2. CASE InsertFails(r)
  <2>1. req' \in [Requests -> Request]
    BY <1>2, AnswerType, GoOnEffect DEF InsertFails, Answer
  <2>. QED  BY <1>2, <2>1 DEF InsertFails, TypeOK, tables, history
<1>3. ASSUME NEW a \in Articles, InsertArticle(r, a)
      PROVE  TypeOK'
  <2>1. req' \in [Requests -> Request]
    BY <1>3, AnswerType, GoOnEffect DEF InsertArticle, Answer
  <2>2. articles' \in [Articles -> Article \cup {None}] /\ released' \subseteq Shown
    BY <1>3, InsertedType, RowWritten DEF InsertArticle
  <2>3. used' \subseteq Articles /\ mine' \in [Tabs -> SUBSET Articles]
    BY <1>3 DEF InsertArticle, TypeOK
  <2>. QED  BY <1>3, <2>1, <2>2, <2>3 DEF InsertArticle, TypeOK
<1>4. ASSUME NEW a \in Articles, publish(r, a) \/ schedule(r, a) \/ delete(r, a)
      PROVE  TypeOK'
  <2>1. PICK what \in {"publish", "schedule", "delete"} : Change(r, a, what)
    BY <1>4 DEF publish, schedule, delete
  <2>2. [at |-> what, article |-> a] \in Request  BY DEF Request
  <2>3. req' \in [Requests -> Request] /\ changes' \in 0 .. MaxChanges
    BY <2>1, <2>2, GoOnEffect, BeginType DEF Change
  <2>. QED  BY <2>1, <2>3 DEF Change, TypeOK, tables, history
<1>5. ASSUME NEW a \in Articles, NEW patch \in Patches, PatchArticle(r, a, patch)
      PROVE  TypeOK'
  <2>1. patch \in Patch /\ Api \in Client  BY PayloadAssumption DEF Client
  <2>2. req' \in [Requests -> Request] /\ overlapped' \subseteq Articles
        /\ changes' \in 0 .. MaxChanges
    BY <1>5, <2>1, UpdateTypes, BeginType DEF PatchArticle
  <2>. QED  BY <1>5, <2>2 DEF PatchArticle, TypeOK, tables
<1>6. CASE WriteUpdate(r)
  <2>1. req[r].article \in Articles  BY <1>6, RequestFields DEF WriteUpdate
  <2>2. req' \in [Requests -> Request]
    BY <1>6, <2>1, AnswerType, GoOnEffect DEF WriteUpdate, Answer
  <2>3. articles' \in [Articles -> Article \cup {None}] /\ released' \subseteq Shown
    BY <1>6, <2>1, UpdatedType, RowWritten DEF WriteUpdate
  <2>. QED  BY <1>6, <2>2, <2>3 DEF WriteUpdate, TypeOK
<1>7. CASE UpdateFails(r)
  <2>1. req' \in [Requests -> Request]
    BY <1>7, AnswerType, GoOnEffect DEF UpdateFails, Answer
  <2>. QED  BY <1>7, <2>1 DEF UpdateFails, TypeOK, tables, history
<1>8. CASE WriteChange(r)
  <2>1. req[r].article \in Articles  BY <1>8, RequestFields DEF WriteChange
  <2>2. Idle \in Request  BY DEF Request
  <2>3. req' \in [Requests -> Request]  BY <1>8, <2>2, GoOnEffect DEF WriteChange
  <2>4. articles' \in [Articles -> Article \cup {None}] /\ released' \subseteq Shown
    BY <1>8, <2>1, ChangedType, RowWritten DEF WriteChange
  <2>. QED  BY <1>8, <2>3, <2>4 DEF WriteChange, TypeOK
<1>9. CASE ChangeFails(r)
  <2>1. Idle \in Request  BY DEF Request
  <2>. QED  BY <1>9, <2>1, GoOnEffect DEF ChangeFails, TypeOK, tables, history
<1>. QED  BY <1>1, <1>2, <1>3, <1>4, <1>5, <1>6, <1>7, <1>8, <1>9 DEF OnArticle

(* Forgetting a page's requests keeps them typed.                          *)
LEMMA ForgottenType ==
    ASSUME TypeOK, NEW r \in Requests, NEW k \in Tabs
    PROVE  Forgotten(k, r) \in [Requests -> Request]
<1>1. ASSUME NEW q \in Requests, req[q].at \in {"probe", "insert", "update", "answer"}
      PROVE  [req[q] EXCEPT !.client = Api] \in Request
  BY <1>1, RequestFields DEF Request, Client
<1>2. \A q \in Requests : req[q] \in Request  BY DEF TypeOK
<1>3. Idle \in Request  BY DEF Request
<1>. QED  BY <1>1, <1>2, <1>3 DEF Forgotten

LEMMA EditorTypes ==
    ASSUME TypeOK, NEW r \in Requests, InEditor(r)
    PROVE  TypeOK'
<1>a. Idle \in Request  BY DEF Request
<1>1. ASSUME NEW k \in Tabs, NEW p \in Publications, NEW payload \in Payloads,
             handleSaveDraft(r, k, p, payload)
      PROVE  TypeOK'
  <2>1. /\ payload \in Payload /\ payload \in Patch
        /\ k \in Client /\ "save" \in Button
    BY PayloadAssumption DEF Payload, Patch, Client, Button
  <2>2. req' \in [Requests -> Request] /\ overlapped' \subseteq Articles
    <3>1. CASE tab[k].article = None
      <4>1. Create(r, p, payload, k, "save") /\ UNCHANGED overlapped  BY <1>1, <3>1 DEF handleSaveDraft
      <4>. QED  BY <2>1, <4>1, CreateTypes DEF TypeOK
    <3>2. CASE tab[k].article # None
      <4>1. Update(r, tab[k].article, payload, k)  BY <1>1, <3>2 DEF handleSaveDraft
      <4>2. tab[k].article \in Articles  BY <3>2 DEF TypeOK, Editor
      <4>. QED  BY <2>1, <4>1, <4>2, UpdateTypes
    <3>. QED  BY <3>1, <3>2
  <2>3. tab' \in [Tabs -> Editor] /\ changes' \in 0 .. MaxChanges
    BY <1>1, BeginType DEF handleSaveDraft, TypeOK, Editor
  <2>. QED  BY <1>1, <2>2, <2>3 DEF handleSaveDraft, TypeOK, tables
<1>2. ASSUME NEW k \in Tabs, NEW p \in Publications, NEW payload \in Payloads,
             handlePublish(r, k, p, payload)
      PROVE  TypeOK'
  <2>1. payload \in Payload /\ k \in Client /\ "publish" \in Button
    BY PayloadAssumption DEF Client, Button
  <2>2. req' \in [Requests -> Request]  BY <1>2, <2>1, CreateTypes DEF handlePublish
  <2>3. tab' \in [Tabs -> Editor] /\ changes' \in 0 .. MaxChanges
    BY <1>2, BeginType DEF handlePublish, TypeOK, Editor
  <2>. QED  BY <1>2, <2>2, <2>3 DEF handlePublish, TypeOK, tables, history
<1>3. CASE SaveAnswered(r)
  <2>1. req[r].article \in Articles \cup {None}  BY <1>3, RequestFields DEF SaveAnswered
  <2>2. tab' \in [Tabs -> Editor]
    <3>. DEFINE k == req[r].client
                a == IF req[r].article = None THEN tab[k].article ELSE req[r].article
    <3>1. tab[k] \in Editor  BY <1>3 DEF SaveAnswered, TypeOK
    <3>2. [tab[k] EXCEPT !.saving = FALSE, !.article = a] \in Editor  BY <2>1, <3>1 DEF Editor
    <3>3. tab' = [tab EXCEPT ![k] = [tab[k] EXCEPT !.saving = FALSE, !.article = a]]
      BY <1>3, <3>1 DEF SaveAnswered, TypeOK, Editor
    <3>. QED  BY <3>2, <3>3 DEF TypeOK
  <2>3. req' \in [Requests -> Request]  BY <1>3, <1>a, GoOnEffect DEF SaveAnswered
  <2>. QED  BY <1>3, <2>2, <2>3 DEF SaveAnswered, TypeOK, tables, history
<1>4. CASE PublishAnswered(r)
  <2>1. Clean \in Editor  BY DEF Clean, Editor
  <2>2. tab' \in [Tabs -> Editor] /\ mine' \in [Tabs -> SUBSET Articles]
    <3>. DEFINE k == req[r].client
    <3>1. k \in Tabs /\ tab[k] \in Editor  BY <1>4 DEF PublishAnswered, TypeOK
    <3>2. CASE req[r].article = None
      <4>1. tab' = [tab EXCEPT ![k].publishing = FALSE] /\ UNCHANGED mine
        BY <1>4, <3>2 DEF PublishAnswered
      <4>2. [tab[k] EXCEPT !.publishing = FALSE] \in Editor  BY <3>1 DEF Editor
      <4>. QED  BY <3>1, <4>1, <4>2 DEF TypeOK
    <3>3. CASE req[r].article # None
      <4>1. tab' = [tab EXCEPT ![k] = Clean] /\ mine' = [mine EXCEPT ![k] = {}]
        BY <1>4, <3>3 DEF PublishAnswered
      <4>. QED  BY <2>1, <3>1, <4>1 DEF TypeOK
    <3>. QED  BY <3>2, <3>3
  <2>3. req' \in [Requests -> Request]
    BY <1>4, <1>a, GoOnEffect, ForgottenType DEF PublishAnswered
  <2>. QED  BY <1>4, <2>2, <2>3 DEF PublishAnswered, TypeOK, tables
<1>5. CASE ApiAnswered(r)
  BY <1>5, <1>a, GoOnEffect DEF ApiAnswered, TypeOK, tables, history
<1>6. CASE LoseAnswer(r)
  <2>1. [req[r] EXCEPT !.client = Api] \in Request
    BY <1>6, RequestFields DEF LoseAnswer, Request, Client
  <2>2. req' \in [Requests -> Request]  BY <1>6, <2>1, GoOnEffect DEF LoseAnswer
  <2>3. tab' \in [Tabs -> Editor] /\ mine' \in [Tabs -> SUBSET Articles]
    <3>. DEFINE k == req[r].client
                e == [tab[k] EXCEPT !.saving = @ /\ req[r].button # "save",
                                    !.publishing = @ /\ req[r].button # "publish"]
    <3>1. k \in Tabs /\ tab[k] \in Editor  BY <1>6 DEF LoseAnswer, TypeOK
    <3>2. e \in Editor  BY <3>1 DEF Editor
    <3>3. tab' = [tab EXCEPT ![k] = e] /\ mine' = [mine EXCEPT ![k] = {}]
      <4>1. tab' = [tab EXCEPT ![k].saving = @ /\ req[r].button # "save",
                               ![k].publishing = @ /\ req[r].button # "publish"]
        BY <1>6 DEF LoseAnswer
      <4>2. mine' = [mine EXCEPT ![k] = {}]  BY <1>6 DEF LoseAnswer
      <4>. QED  BY <3>1, <4>1, <4>2 DEF TypeOK, Editor
    <3>. QED  BY <3>1, <3>2, <3>3 DEF TypeOK
  <2>. QED  BY <1>6, <2>2, <2>3 DEF LoseAnswer, TypeOK, tables
<1>. QED  BY <1>1, <1>2, <1>3, <1>4, <1>5, <1>6 DEF InEditor

LEMMA ReaderTypes ==
    ASSUME TypeOK, NEW r \in Requests, ByReader(r)
    PROVE  TypeOK'
<1>a. Idle \in Request  BY DEF Request
<1>1. CASE findBySlug(r)
  <2>1. ASSUME NEW p \in Publications
        PROVE  [at |-> "view", publication |-> p] \in Request
    BY DEF Request
  <2>2. req' \in [Requests -> Request]  BY <1>1, <2>1, GoOnEffect DEF findBySlug
  <2>. QED  BY <1>1, <2>2 DEF findBySlug, TypeOK, tables, history
<1>2. CASE ShowArticle(r)
  <2>1. page' \in Shown
    <3>1. PICK a \in Articles : Exists(a) /\ page' = Offered(a)  BY <1>2 DEF ShowArticle
    <3>2. articles[a] \in Article  BY <3>1 DEF TypeOK, Exists
    <3>3. InFull(articles[a]) \in BOOLEAN  BY DEF InFull
    <3>. QED  BY <3>1, <3>2, <3>3 DEF Offered, Article, Shown
  <2>. QED  BY <1>2, <1>a, <2>1, GoOnEffect DEF ShowArticle, TypeOK, tables, history
<1>3. CASE NotFound(r)
  BY <1>3, <1>a, GoOnEffect DEF NotFound, TypeOK, tables, history
<1>. QED  BY <1>1, <1>2, <1>3 DEF ByReader

LEMMA InitTypes == Init => TypeOK
<1>1. Clean \in Editor /\ Idle \in Request /\ 0 \in 0 .. MaxChanges
  BY BoundAssumption DEF Clean, Editor, Request
<1>. QED  BY <1>1 DEF Init, TypeOK

LEMMA StepTypes == TypeOK /\ [Next]_vars => TypeOK'
<1>1. ASSUME TypeOK, NEW k \in Tabs, NEW a \in Articles, OpenEditor(k, a)
      PROVE  TypeOK'
  BY <1>1 DEF OpenEditor, TypeOK, Editor, tables, history
<1>2. ASSUME TypeOK, UNCHANGED vars
      PROVE  TypeOK'
  BY <1>2 DEF TypeOK, vars, tables, history
<1>. QED  BY <1>1, <1>2, PublicationTypes, ArticleTypes, EditorTypes, ReaderTypes DEF Next

(* Every row, request and editor is one the program can have.              *)
THEOREM TypeCorrect == Spec => []TypeOK
  BY InitTypes, StepTypes, PTL DEF Spec

-----------------------------------------------------------------------------
(* The page shows what was released.  Whatever the table offers to readers *)
(* at this moment is among what was released, and that never shrinks.      *)
OffersReleased ==
    \A a \in Articles : Exists(a) /\ Readable(articles[a]) => Offered(a) \in released

\* The steps that write a row of articles, and the row they write.
Writes(a, row) == a \in Articles /\ row \in Article \cup {None} /\ SetArticle(a, row)

LEMMA TableStep ==
    ASSUME TypeOK, [Next]_vars
    PROVE  UNCHANGED <<articles, released>> \/ \E a, row : Writes(a, row)
<1>1. ASSUME NEW r \in Requests, OnArticle(r)
      PROVE  UNCHANGED <<articles, released>> \/ \E a, row : Writes(a, row)
  <2>1. ASSUME NEW a \in Articles, InsertArticle(r, a)
        PROVE  Writes(a, Inserted(r))
    BY <2>1, InsertedType DEF InsertArticle, Writes
  <2>2. CASE WriteUpdate(r)
    <3>1. Writes(req[r].article, Updated(r))
      BY <2>2, UpdatedType, RequestFields DEF WriteUpdate, Writes
    <3>. QED  BY <3>1
  <2>3. CASE WriteChange(r)
    <3>1. Writes(req[r].article, Changed(r))
      BY <2>3, ChangedType, RequestFields DEF WriteChange, Writes
    <3>. QED  BY <3>1
  <2>4. ASSUME ~ WriteUpdate(r), ~ WriteChange(r), \A a \in Articles : ~ InsertArticle(r, a)
        PROVE  UNCHANGED <<articles, released>>
    BY <1>1, <2>4 DEF OnArticle, uniqueSlug, InsertFails, publish, schedule, delete, Change,
          PatchArticle, UpdateFails, ChangeFails, tables, history
  <2>. QED  BY <2>1, <2>2, <2>3, <2>4
<1>2. ASSUME NEW r \in Requests, OnPublication(r) \/ ByReader(r)
      PROVE  UNCHANGED <<articles, released>>
  BY <1>2 DEF OnPublication, createPublication, updatePublication, ClaimSlug, ClaimFails,
        ByReader, findBySlug, ShowArticle, NotFound, tables, history
<1>3. ASSUME NEW r \in Requests, InEditor(r)
      PROVE  UNCHANGED <<articles, released>>
  BY <1>3 DEF InEditor, handleSaveDraft, handlePublish, SaveAnswered, PublishAnswered,
        ApiAnswered, LoseAnswer, tables, history
<1>4. CASE (\E k \in Tabs, a \in Articles : OpenEditor(k, a)) \/ UNCHANGED vars
  BY <1>4 DEF OpenEditor, vars, tables, history
<1>. QED  BY <1>1, <1>2, <1>3, <1>4 DEF Next

LEMMA OffersStep ==
    ASSUME TypeOK, OffersReleased, [Next]_vars
    PROVE  OffersReleased' /\ released \subseteq released'
<1>1. CASE UNCHANGED <<articles, released>>
  BY <1>1 DEF OffersReleased, Exists, Offered
<1>2. ASSUME NEW a, NEW row, Writes(a, row)
      PROVE  OffersReleased' /\ released \subseteq released'
  <2>1. /\ articles'[a] = row /\ \A b \in Articles : b # a => UNCHANGED articles[b]
        /\ released \subseteq released'
    BY <1>2, RowWritten DEF Writes
  <2>2. ASSUME NEW b \in Articles, b # a, (Exists(b) /\ Readable(articles[b]))'
        PROVE  Offered(b)' \in released'
    BY <2>1, <2>2 DEF OffersReleased, Exists, Offered
  <2>3. ASSUME (Exists(a) /\ Readable(articles[a]))'
        PROVE  Offered(a)' \in released'
    <3>1. row \in Article /\ row.status = "published"
      BY <1>2, <2>1, <2>3 DEF Writes, Exists, Readable
    <3>2. [article |-> a, html |-> row.html, full |-> row.visibility = "free"] \in released'
      <4>1. row # None  BY <2>1, <2>3 DEF Exists
      <4>. QED  BY <1>2, <3>1, <4>1 DEF Writes, SetArticle
    <3>3. InFull(row) = (row.visibility = "free")  BY <3>1 DEF InFull, Article
    <3>4. Offered(a)' = [article |-> a, html |-> row.html, full |-> InFull(row)]
      BY <2>1 DEF Offered, InFull
    <3>. QED  BY <3>2, <3>3, <3>4
  <2>. QED  BY <2>1, <2>2, <2>3 DEF OffersReleased
<1>. QED  BY <1>1, <1>2, TableStep

LEMMA ShownStep ==
    ASSUME TypeOK, OffersReleased, ShownWasReleased, [Next]_vars
    PROVE  ShownWasReleased'
<1>1. released \subseteq released'  BY OffersStep
<1>2. ASSUME NEW r \in Requests, ShowArticle(r)
      PROVE  ShownWasReleased'
  BY <1>1, <1>2 DEF ShowArticle, OffersReleased, ShownWasReleased
<1>3. ASSUME \A r \in Requests : ~ ShowArticle(r)
      PROVE  UNCHANGED page
  <2>1. ASSUME NEW r \in Requests, OnPublication(r) \/ ByReader(r)
        PROVE  UNCHANGED page
    BY <1>3, <2>1 DEF OnPublication, createPublication, updatePublication, ClaimSlug, ClaimFails,
          ByReader, findBySlug, NotFound
  <2>2. ASSUME NEW r \in Requests, OnArticle(r)
        PROVE  UNCHANGED page
    BY <2>2 DEF OnArticle, uniqueSlug, InsertArticle, InsertFails, publish, schedule, delete, Change,
          PatchArticle, WriteUpdate, UpdateFails, WriteChange, ChangeFails
  <2>3. ASSUME NEW r \in Requests, InEditor(r)
        PROVE  UNCHANGED page
    BY <2>3 DEF InEditor, handleSaveDraft, handlePublish, SaveAnswered, PublishAnswered,
          ApiAnswered, LoseAnswer
  <2>4. CASE (\E k \in Tabs, a \in Articles : OpenEditor(k, a)) \/ UNCHANGED vars
    BY <2>4 DEF OpenEditor, vars
  <2>. QED  BY <2>1, <2>2, <2>3, <2>4 DEF Next
<1>. QED  BY <1>1, <1>2, <1>3 DEF ShownWasReleased

(* No reader is ever shown what the author had not released in this form.  *)
THEOREM OnlyReleasedShown == Spec => []ShownWasReleased
<1>1. Init => OffersReleased /\ ShownWasReleased
  BY DEF Init, OffersReleased, ShownWasReleased, Exists
<1>2. TypeOK /\ OffersReleased /\ ShownWasReleased /\ [Next]_vars
         => OffersReleased' /\ ShownWasReleased'
  BY OffersStep, ShownStep
<1>. QED  BY <1>1, <1>2, TypeCorrect, PTL DEF Spec

-----------------------------------------------------------------------------
(* HTML is that of the Markdown unless updates overlapped.  An update that *)
(* is alone with its article decided rightly whether the text changed, and *)
(* an article that is not there any more never comes back.                 *)
Updating(r, a) == req[r].at = "update" /\ req[r].article = a

IdsSpent ==
    \A a \in Articles :
        Exists(a) \/ (\E r \in Requests : Updating(r, a)) => a \in used

UpdatesAlone ==
    \A a \in Articles \ overlapped : \A q, r \in Requests :
        Updating(q, a) /\ Updating(r, a) => q = r

UpdatesFresh ==
    \A a \in Articles \ overlapped : \A r \in Requests :
        Updating(r, a) /\ Exists(a) => req[r].changed = Rerendered(a, req[r].payload.text)

RInv == TypeOK /\ IdsSpent /\ UpdatesAlone /\ UpdatesFresh /\ RenderedUnlessOverlapped

\* The steps that begin no update.
NoNewUpdate ==
    \A q \in Requests :
        req'[q].at = "update" =>
            /\ req[q].at = "update"
            /\ UNCHANGED <<req[q].article, req[q].payload, req[q].changed>>

LEMMA NoUpdateBegun ==
    ASSUME TypeOK, NEW r \in Requests, NEW next, GoOn(r, next), next.at # "update"
    PROVE  NoNewUpdate
  BY GoOnEffect DEF NoNewUpdate

LEMMA UpdateBegun ==
    ASSUME TypeOK, NEW r \in Requests, NEW a \in Articles, NEW payload, NEW k, req[r] = Idle,
           Update(r, a, payload, k), UNCHANGED articles
    PROVE  /\ overlapped \subseteq overlapped'
           /\ NoNewUpdate \/ (Exists(a) /\ Updating(r, a)')
<1>1. CASE Exists(a)
  <2>1. req'[r] = [at |-> "update", article |-> a, payload |-> payload,
                   changed |-> Rerendered(a, payload.text), client |-> k, button |-> "save"]
    BY <1>1, GoOnEffect DEF Update
  <2>. QED  BY <1>1, <2>1 DEF Update, Updating
<1>2. CASE ~ Exists(a)
  BY <1>2, NoUpdateBegun DEF Update
<1>. QED  BY <1>1, <1>2

\* What an update that begins does to all this.
LEMMA UpdateKeeps ==
    ASSUME RInv, NEW r \in Requests, NEW a \in Articles, NEW payload, NEW k, req[r] = Idle,
           Update(r, a, payload, k), UNCHANGED <<articles, used>>, ~ NoNewUpdate
    PROVE  (IdsSpent /\ UpdatesAlone /\ UpdatesFresh /\ RenderedUnlessOverlapped)'
<1>. USE DEF RInv
<1>1. overlapped \subseteq overlapped' /\ Exists(a)  BY UpdateBegun
<1>2. req'[r] = [at |-> "update", article |-> a, payload |-> payload,
                 changed |-> Rerendered(a, payload.text), client |-> k, button |-> "save"]
  BY <1>1, GoOnEffect DEF Update
<1>3. \A q \in Requests : q # r => UNCHANGED req[q]
  BY <1>1, GoOnEffect DEF Update
<1>4. IdsSpent'  BY <1>1, <1>2, <1>3 DEF IdsSpent, Updating, Exists
<1>5. UpdatesAlone'
  <2>1. ASSUME a \notin overlapped', NEW q \in Requests, Updating(q, a)
        PROVE  FALSE
    BY <1>1, <2>1 DEF Update, Updating
  <2>2. ASSUME NEW b \in Articles \ overlapped', NEW p \in Requests, NEW q \in Requests,
               Updating(p, b)', Updating(q, b)'
        PROVE  p = q
    <3>1. CASE b = a
      BY <1>3, <2>1, <2>2, <3>1 DEF Updating
    <3>2. CASE b # a
      BY <1>1, <1>2, <1>3, <2>2, <3>2 DEF Updating, UpdatesAlone
    <3>. QED  BY <3>1, <3>2
  <2>. QED  BY <2>2 DEF UpdatesAlone
<1>6. UpdatesFresh'
  <2>1. ASSUME NEW b \in Articles \ overlapped', NEW q \in Requests, (Updating(q, b) /\ Exists(b))'
        PROVE  (req[q].changed = Rerendered(b, req[q].payload.text))'
    <3>1. CASE q = r
      BY <1>2, <2>1, <3>1 DEF Updating, Rerendered
    <3>2. CASE q # r
      BY <1>1, <1>3, <2>1, <3>2 DEF Updating, Rerendered, UpdatesFresh, Exists
    <3>. QED  BY <3>1, <3>2
  <2>. QED  BY <2>1 DEF UpdatesFresh
<1>7. RenderedUnlessOverlapped'
  BY <1>1 DEF RenderedUnlessOverlapped, Exists
<1>. QED  BY <1>4, <1>5, <1>6, <1>7

LEMMA QuietKeeps ==
    ASSUME RInv, NoNewUpdate, UNCHANGED articles,
           used \subseteq used', overlapped \subseteq overlapped'
    PROVE  (IdsSpent /\ UpdatesAlone /\ UpdatesFresh /\ RenderedUnlessOverlapped)'
<1>. USE DEF RInv, NoNewUpdate
<1>1. ASSUME NEW q \in Requests, NEW a, Updating(q, a)'
      PROVE  Updating(q, a) /\ UNCHANGED <<req[q].payload, req[q].changed>>
  BY <1>1 DEF Updating
<1>2. IdsSpent'  BY <1>1 DEF IdsSpent, Exists
<1>3. UpdatesAlone'  BY <1>1 DEF UpdatesAlone
<1>4. UpdatesFresh'
  <2>1. ASSUME NEW b \in Articles \ overlapped', NEW q \in Requests, (Updating(q, b) /\ Exists(b))'
        PROVE  (req[q].changed = Rerendered(b, req[q].payload.text))'
    BY <1>1, <2>1 DEF UpdatesFresh, Rerendered, Exists
  <2>. QED  BY <2>1 DEF UpdatesFresh
<1>5. RenderedUnlessOverlapped'  BY DEF RenderedUnlessOverlapped, Exists
<1>. QED  BY <1>2, <1>3, <1>4, <1>5

\* A row of article a whose HTML fits, while no update of a is left that is alone,
\* unless the text stays what it was.
RowFits(a, row) ==
    \/ row = None
    \/ /\ a \in used'
       /\ a \notin overlapped =>
            /\ row.html = row.markdown
            /\ \/ \A q \in Requests : ~ Updating(q, a)'
               \/ Exists(a) /\ row.markdown = articles[a].markdown

LEMMA WriteKeeps ==
    ASSUME RInv, NoNewUpdate, UNCHANGED overlapped, used \subseteq used',
           NEW a \in Articles, NEW row \in Article \cup {None}, SetArticle(a, row),
           RowFits(a, row)
    PROVE  (IdsSpent /\ UpdatesAlone /\ UpdatesFresh /\ RenderedUnlessOverlapped)'
<1>. USE DEF RInv, NoNewUpdate, RowFits
<1>1. ASSUME NEW q \in Requests, NEW b, Updating(q, b)'
      PROVE  Updating(q, b) /\ UNCHANGED <<req[q].payload, req[q].changed>>
  BY <1>1 DEF Updating
<1>2. articles'[a] = row /\ \A b \in Articles : b # a => UNCHANGED articles[b]
  BY RowWritten
<1>3. IdsSpent'  BY <1>1, <1>2 DEF IdsSpent, Exists
<1>4. UpdatesAlone'  BY <1>1 DEF UpdatesAlone
<1>5. UpdatesFresh'
  <2>1. ASSUME NEW b \in Articles \ overlapped, NEW q \in Requests, (Updating(q, b) /\ Exists(b))'
        PROVE  (req[q].changed = Rerendered(b, req[q].payload.text))'
    <3>1. CASE b = a
      <4>1. Exists(a) /\ row.markdown = articles[a].markdown
        BY <1>2, <2>1, <3>1 DEF Exists
      <4>. QED  BY <1>1, <1>2, <2>1, <3>1, <4>1 DEF UpdatesFresh, Rerendered
    <3>2. CASE b # a
      BY <1>1, <1>2, <2>1, <3>2 DEF UpdatesFresh, Rerendered, Exists
    <3>. QED  BY <3>1, <3>2
  <2>. QED  BY <2>1 DEF UpdatesFresh
<1>6. RenderedUnlessOverlapped'
  BY <1>2 DEF RenderedUnlessOverlapped, Exists
<1>. QED  BY <1>3, <1>4, <1>5, <1>6

LEMMA InsertKeeps ==
    ASSUME RInv, NEW r \in Requests, NEW a \in Articles, InsertArticle(r, a)
    PROVE  (IdsSpent /\ UpdatesAlone /\ UpdatesFresh /\ RenderedUnlessOverlapped)'
<1>. USE DEF RInv
<1>1. NoNewUpdate  BY NoUpdateBegun DEF InsertArticle, Answer
<1>2. \A q \in Requests : ~ Updating(q, a)'
  <2>1. \A q \in Requests : ~ Updating(q, a)  BY DEF InsertArticle, IdsSpent
  <2>. QED  BY <1>1, <2>1 DEF NoNewUpdate, Updating
<1>3. Inserted(r) \in Article /\ Inserted(r).html = Inserted(r).markdown
  BY InsertedType DEF InsertArticle, Inserted
<1>4. RowFits(a, Inserted(r))  BY <1>2, <1>3 DEF InsertArticle, RowFits
<1>. QED  BY <1>1, <1>3, <1>4, WriteKeeps DEF InsertArticle

LEMMA WriteUpdateKeeps ==
    ASSUME RInv, NEW r \in Requests, WriteUpdate(r)
    PROVE  (IdsSpent /\ UpdatesAlone /\ UpdatesFresh /\ RenderedUnlessOverlapped)'
<1>. USE DEF RInv
<1>0. PICK a \in Articles : a = req[r].article  BY RequestFields DEF WriteUpdate
<1>1. Updating(r, a) /\ Exists(a)  BY <1>0 DEF WriteUpdate, Updating
<1>2. NoNewUpdate /\ req'[r].at = "answer"
  BY NoUpdateBegun, GoOnEffect DEF WriteUpdate, Answer
<1>3. Updated(r) \in Article  BY <1>1, UpdatedType DEF Updating
<1>4. a \notin overlapped => Updated(r).html = Updated(r).markdown
  <2>1. articles[a] \in Article
    BY <1>1 DEF TypeOK, Exists
  <2>2. /\ Updated(r).markdown = Given(req[r].payload.text, articles[a].markdown)
        /\ Updated(r).html = IF req[r].changed THEN Given(req[r].payload.text, articles[a].html)
                            ELSE articles[a].html
    BY <1>0, <2>1 DEF Updated, Article
  <2>3. a \notin overlapped => /\ articles[a].html = articles[a].markdown
                               /\ req[r].changed = Rerendered(a, req[r].payload.text)
    BY <1>1 DEF RenderedUnlessOverlapped, UpdatesFresh
  <2>. QED
    <3>. SUFFICES ASSUME a \notin overlapped PROVE Updated(r).html = Updated(r).markdown
      OBVIOUS
    <3>1. CASE req[r].changed
      <4>1. req[r].payload.text # None  BY <2>3, <3>1 DEF Rerendered
      <4>. QED  BY <2>2, <3>1, <4>1 DEF Given
    <3>2. CASE ~ req[r].changed
      <4>1. req[r].payload.text = None \/ req[r].payload.text = articles[a].markdown
        BY <2>3, <3>2 DEF Rerendered
      <4>. QED  BY <2>2, <2>3, <3>2, <4>1 DEF Given
    <3>. QED  BY <3>1, <3>2
<1>5. a \notin overlapped => \A q \in Requests : ~ Updating(q, a)'
  <2>1. ASSUME a \notin overlapped, NEW q \in Requests, Updating(q, a)'
        PROVE  FALSE
    <3>1. Updating(q, a)  BY <1>2, <2>1 DEF NoNewUpdate, Updating
    <3>2. q = r  BY <1>1, <2>1, <3>1 DEF UpdatesAlone
    <3>. QED  BY <1>2, <2>1, <3>2 DEF Updating
  <2>. QED  BY <2>1
<1>6. a \in used  BY <1>1 DEF IdsSpent
<1>. QED
  <2>1. /\ SetArticle(a, Updated(r)) /\ UNCHANGED overlapped /\ used \subseteq used'
        /\ a \in used'
    BY <1>0, <1>6 DEF WriteUpdate
  <2>2. RowFits(a, Updated(r))  BY <1>1, <1>4, <1>5, <2>1 DEF RowFits
  <2>. HIDE DEF RInv
  <2>. QED  BY <1>1, <1>2, <1>3, <2>1, <2>2, WriteKeeps

LEMMA WriteChangeKeeps ==
    ASSUME RInv, NEW r \in Requests, WriteChange(r)
    PROVE  (IdsSpent /\ UpdatesAlone /\ UpdatesFresh /\ RenderedUnlessOverlapped)'
<1>. USE DEF RInv
<1>0. PICK a \in Articles : a = req[r].article  BY RequestFields DEF WriteChange
<1>1. Exists(a)  BY <1>0 DEF WriteChange
<1>2. NoNewUpdate  BY NoUpdateBegun DEF WriteChange, Idle
<1>3. Changed(r) \in Article \cup {None}  BY ChangedType DEF WriteChange
<1>4. Changed(r) = None \/ /\ Changed(r).html = articles[a].html
                           /\ Changed(r).markdown = articles[a].markdown
  <2>1. articles[a] \in Article  BY <1>1 DEF TypeOK, Exists
  <2>. QED  BY <1>0, <2>1 DEF Changed, WriteChange, Article
<1>5. a \notin overlapped => articles[a].html = articles[a].markdown
  BY <1>1 DEF RenderedUnlessOverlapped
<1>6. a \in used  BY <1>1 DEF IdsSpent
<1>. QED
  <2>1. /\ SetArticle(a, Changed(r)) /\ UNCHANGED overlapped /\ used \subseteq used'
        /\ a \in used'
    BY <1>0, <1>6 DEF WriteChange
  <2>2. RowFits(a, Changed(r))  BY <1>1, <1>4, <1>5, <2>1 DEF RowFits
  <2>. HIDE DEF RInv
  <2>. QED  BY <1>1, <1>2, <1>3, <2>1, <2>2, WriteKeeps

LEMMA RenderStep ==
    ASSUME RInv, [Next]_vars
    PROVE  (IdsSpent /\ UpdatesAlone /\ UpdatesFresh /\ RenderedUnlessOverlapped)'
<1>. DEFINE Kept == (IdsSpent /\ UpdatesAlone /\ UpdatesFresh /\ RenderedUnlessOverlapped)'
<1>t. TypeOK  BY DEF RInv
<1>1. ASSUME NEW r \in Requests, NEW next, GoOn(r, next), next.at # "update",
             UNCHANGED <<articles, used, overlapped>>
      PROVE  Kept
  BY <1>1, <1>t, NoUpdateBegun, QuietKeeps
<1>2. ASSUME NEW r \in Requests, OnPublication(r)
      PROVE  Kept
  <2>1. ASSUME NEW p \in Publications, NEW s \in Slugs,
               createPublication(r, p, s) \/ updatePublication(r, p, s)
        PROVE  Kept
    BY <1>1, <2>1 DEF createPublication, updatePublication, tables, history
  <2>2. CASE ClaimSlug(r) \/ ClaimFails(r)
    BY <1>1, <2>2 DEF ClaimSlug, ClaimFails, Idle, tables, history
  <2>. QED  BY <1>2, <2>1, <2>2 DEF OnPublication
<1>3. ASSUME NEW r \in Requests, ByReader(r)
      PROVE  Kept
  <2>1. CASE findBySlug(r)  BY <1>1, <2>1 DEF findBySlug, tables, history
  <2>2. CASE ShowArticle(r) \/ NotFound(r)
    BY <1>1, <2>2 DEF ShowArticle, NotFound, Idle, tables, history
  <2>. QED  BY <1>3, <2>1, <2>2 DEF ByReader
<1>4. ASSUME NEW r \in Requests, NEW a \in Articles, NEW payload, NEW k, req[r] = Idle,
             Update(r, a, payload, k), UNCHANGED <<articles, used>>
      PROVE  Kept
  <2>1. CASE NoNewUpdate
    <3>1. overlapped \subseteq overlapped'  BY <1>4 DEF Update
    <3>. QED  BY <1>4, <2>1, <3>1, QuietKeeps
  <2>2. CASE ~ NoNewUpdate  BY <1>4, <2>2, UpdateKeeps
  <2>. QED  BY <2>1, <2>2
<1>5. ASSUME NEW r \in Requests, OnArticle(r)
      PROVE  Kept
  <2>1. CASE uniqueSlug(r)
    <3>1. /\ [req[r] EXCEPT !.number = @ + 1].at # "update"
          /\ [req[r] EXCEPT !.at = "insert"].at # "update"
      BY <2>1, <1>t, RequestFields DEF uniqueSlug
    <3>2. PICK next : GoOn(r, next) /\ next.at # "update"  BY <2>1, <3>1 DEF uniqueSlug
    <3>. QED  BY <1>1, <2>1, <3>2 DEF uniqueSlug, tables, history
  <2>2. CASE InsertFails(r) \/ UpdateFails(r) \/ ChangeFails(r)
    <3>1. PICK next : GoOn(r, next) /\ next.at # "update"
      BY <2>2 DEF InsertFails, UpdateFails, ChangeFails, Answer, Idle
    <3>. QED  BY <1>1, <2>2, <3>1 DEF InsertFails, UpdateFails, ChangeFails, tables, history
  <2>3. ASSUME NEW a \in Articles, publish(r, a) \/ schedule(r, a) \/ delete(r, a)
        PROVE  Kept
    <3>1. PICK what \in {"publish", "schedule", "delete"} : Change(r, a, what)
      BY <2>3 DEF publish, schedule, delete
    <3>. QED  BY <1>1, <3>1 DEF Change, tables, history
  <2>4. ASSUME NEW a \in Articles, NEW patch \in Patches, PatchArticle(r, a, patch)
        PROVE  Kept
    BY <1>4, <2>4 DEF PatchArticle, Begin, tables
  <2>. QED
    BY <1>5, <2>1, <2>2, <2>3, <2>4, InsertKeeps, WriteUpdateKeeps, WriteChangeKeeps DEF OnArticle
<1>6. ASSUME NEW r \in Requests, InEditor(r)
      PROVE  Kept
  <2>1. ASSUME NEW k \in Tabs, NEW p \in Publications, NEW payload \in Payloads,
               handleSaveDraft(r, k, p, payload)
        PROVE  Kept
    <3>1. CASE tab[k].article = None
      BY <1>1, <2>1, <3>1 DEF handleSaveDraft, Create, tables
    <3>2. CASE tab[k].article # None
      <4>1. tab[k].article \in Articles  BY <1>t, <3>2 DEF TypeOK, Editor
      <4>. QED  BY <1>4, <2>1, <3>2, <4>1 DEF handleSaveDraft, Begin, tables
    <3>. QED  BY <3>1, <3>2
  <2>2. ASSUME NEW k \in Tabs, NEW p \in Publications, NEW payload \in Payloads,
               handlePublish(r, k, p, payload)
        PROVE  Kept
    BY <1>1, <2>2 DEF handlePublish, Create, tables, history
  <2>3. CASE SaveAnswered(r) \/ ApiAnswered(r)
    BY <1>1, <2>3 DEF SaveAnswered, ApiAnswered, Idle, tables, history
  <2>4. CASE PublishAnswered(r)
    <3>1. NoNewUpdate
      <4>1. CASE req[r].article = None
        BY <1>t, <2>4, <4>1, NoUpdateBegun DEF PublishAnswered, Idle
      <4>2. CASE req[r].article # None
        <5>1. req' = Forgotten(req[r].client, r)  BY <2>4, <4>2 DEF PublishAnswered
        <5>2. ASSUME NEW q \in Requests, req[q].at \in {"probe", "insert", "update", "answer"}
              PROVE  [req[q] EXCEPT !.client = Api].at = req[q].at
          BY <5>2, <1>t, RequestFields
        <5>3. ASSUME NEW q \in Requests, req[q].at = "update"
              PROVE  LET next == [req[q] EXCEPT !.client = Api]
                     IN  /\ next.article = req[q].article /\ next.payload = req[q].payload
                         /\ next.changed = req[q].changed
          BY <5>3, <1>t, RequestFields
        <5>. QED  BY <5>1, <5>2, <5>3 DEF Forgotten, NoNewUpdate, Idle
      <4>. QED  BY <4>1, <4>2
    <3>. QED  BY <2>4, <3>1, QuietKeeps DEF PublishAnswered, tables
  <2>5. CASE LoseAnswer(r)
    <3>1. NoNewUpdate
      <4>1. req'[r] = [req[r] EXCEPT !.client = Api] /\ \A q \in Requests : q # r => UNCHANGED req[q]
        BY <2>5, <1>t, GoOnEffect DEF LoseAnswer
      <4>2. [req[r] EXCEPT !.client = Api].at = req[r].at
        BY <2>5, <1>t, RequestFields DEF LoseAnswer
      <4>3. req[r].at = "update" =>
              LET next == [req[r] EXCEPT !.client = Api]
              IN  /\ next.article = req[r].article /\ next.payload = req[r].payload
                  /\ next.changed = req[r].changed
        BY <1>t, RequestFields
      <4>. QED  BY <4>1, <4>2, <4>3 DEF NoNewUpdate
    <3>. QED  BY <2>5, <3>1, QuietKeeps DEF LoseAnswer, tables
  <2>. QED  BY <1>6, <2>1, <2>2, <2>3, <2>4, <2>5 DEF InEditor
<1>7. CASE (\E k \in Tabs, a \in Articles : OpenEditor(k, a)) \/ UNCHANGED vars
  <2>1. UNCHANGED <<req, articles, used, overlapped>>
    BY <1>7 DEF OpenEditor, vars, tables, history
  <2>. QED  BY <2>1, QuietKeeps DEF NoNewUpdate
<1>. QED  BY <1>2, <1>3, <1>5, <1>6, <1>7 DEF Next

(* Unless two updates of an article overlapped, readers are shown what its *)
(* author wrote last.                                                      *)
THEOREM HtmlFollowsMarkdown == Spec => []RenderedUnlessOverlapped
<1>1. Init => RInv
  <2>. SUFFICES ASSUME Init PROVE RInv
    OBVIOUS
  <2>1. TypeOK /\ \A a \in Articles : ~ Exists(a)  BY InitTypes DEF Init, Exists
  <2>2. \A r \in Requests : req[r].at = "idle"  BY DEF Init, Idle
  <2>. QED
    BY <2>1, <2>2 DEF RInv, IdsSpent, UpdatesAlone, UpdatesFresh, RenderedUnlessOverlapped, Updating
<1>2. RInv /\ [Next]_vars => RInv'
  BY RenderStep, StepTypes DEF RInv
<1>. QED  BY <1>1, <1>2, PTL DEF Spec, RInv

-----------------------------------------------------------------------------
(* One draft per editor.  The save button is disabled while a save is      *)
(* under way, so each editor has at most one; while that save is creating, *)
(* the editor has made no draft, and once it has, the editor knows the     *)
(* article or is being told about it.                                      *)
OfClient == {"probe", "insert", "update", "answer"}

SaveOf(r, k) == req[r].at \in OfClient /\ req[r].client = k /\ req[r].button = "save"
Creating(r) == req[r].at \in {"probe", "insert"}
Made(r) == req[r].at = "answer" /\ req[r].article # None

DraftOf(k) ==
    /\ \A q, r \in Requests : SaveOf(q, k) /\ SaveOf(r, k) => q = r
    /\ \A r \in Requests : SaveOf(r, k) => tab[k].saving
    /\ \A r \in Requests : SaveOf(r, k) /\ Creating(r) => mine[k] = {}
    /\ mine[k] # {} => tab[k].article # None \/ \E r \in Requests : SaveOf(r, k) /\ Made(r)
    /\ \A a, b \in mine[k] : a = b

OInv == TypeOK /\ \A k \in Tabs : DraftOf(k)

\* A request that becomes no save, and hides no draft that was made.
Stays(q, k) ==
    /\ SaveOf(q, k)' => SaveOf(q, k)
    /\ (SaveOf(q, k) /\ Creating(q))' => Creating(q)
    /\ SaveOf(q, k) /\ Made(q) => (SaveOf(q, k) /\ Made(q))'

LEMMA RestStays ==
    ASSUME NEW q, NEW k, UNCHANGED req[q]
    PROVE  Stays(q, k)
  BY DEF Stays, SaveOf, Creating, Made

LEMMA StaysKeeps ==
    ASSUME OInv, NEW k \in Tabs, \A q \in Requests : Stays(q, k),
           UNCHANGED mine[k], UNCHANGED tab[k].saving,
           tab[k].article # None => tab'[k].article # None
    PROVE  DraftOf(k)'
  BY DEF OInv, DraftOf, Stays

\* A request of no editor goes on.
LEMMA StrangerStays ==
    ASSUME OInv, NEW r \in Requests, NEW next, GoOn(r, next), next.at \notin OfClient,
           req[r].at # "answer", NEW k \in Tabs, NEW q \in Requests
    PROVE  Stays(q, k)
<1>1. CASE q = r
  BY <1>1, GoOnEffect DEF OInv, Stays, SaveOf, Made
<1>2. CASE q # r
  BY <1>2, GoOnEffect, RestStays DEF OInv
<1>. QED  BY <1>1, <1>2

\* The server answers a request, which had not been answered.
LEMMA AnswerStays ==
    ASSUME OInv, NEW r \in Requests, NEW a, Answer(r, a), req[r].at \in {"insert", "update"},
           NEW k \in Tabs, NEW q \in Requests
    PROVE  Stays(q, k)
<1>1. CASE q = r
  <2>1. req'[r] = [at |-> "answer", article |-> a, client |-> req[r].client,
                   button |-> req[r].button]
    BY GoOnEffect DEF OInv, Answer
  <2>. QED  BY <1>1, <2>1 DEF Stays, SaveOf, Creating, Made, OfClient
<1>2. CASE q # r
  BY <1>2, GoOnEffect, RestStays DEF OInv, Answer
<1>. QED  BY <1>1, <1>2

\* A request is begun for k, or by nobody's editor.
LEMMA BegunStays ==
    ASSUME OInv, NEW r \in Requests, NEW next, GoOn(r, next), req[r] = Idle,
           NEW k \in Tabs, next.client # k \/ next.button # "save", NEW q \in Requests
    PROVE  Stays(q, k)
<1>1. CASE q = r
  BY <1>1, GoOnEffect DEF OInv, Stays, SaveOf, Idle, OfClient
<1>2. CASE q # r
  BY <1>2, GoOnEffect, RestStays DEF OInv
<1>. QED  BY <1>1, <1>2

\* Update begins a save of client k.
LEMMA UpdateBegins ==
    ASSUME TypeOK, NEW r \in Requests, NEW a, NEW payload, NEW k, Update(r, a, payload, k)
    PROVE  /\ req'[r].client = k /\ req'[r].button = "save" /\ req'[r].at \in {"update", "answer"}
           /\ \E next : GoOn(r, next) /\ next.client = k
           /\ \A q \in Requests : q # r => UNCHANGED req[q]
<1>1. CASE Exists(a)
  <2>. DEFINE next == [at |-> "update", article |-> a, payload |-> payload,
                       changed |-> Rerendered(a, payload.text), client |-> k, button |-> "save"]
  <2>1. GoOn(r, next)  BY <1>1 DEF Update
  <2>2. next.client = k /\ next.button = "save" /\ next.at = "update"  OBVIOUS
  <2>. HIDE DEF next
  <2>. QED  BY <2>1, <2>2, GoOnEffect
<1>2. CASE ~ Exists(a)
  <2>. DEFINE next == [at |-> "answer", article |-> None, client |-> k, button |-> "save"]
  <2>1. GoOn(r, next)  BY <1>2 DEF Update
  <2>2. next.client = k /\ next.button = "save" /\ next.at = "answer"  OBVIOUS
  <2>. HIDE DEF next
  <2>. QED  BY <2>1, <2>2, GoOnEffect
<1>. QED  BY <1>1, <1>2

LEMMA DraftOnServer ==
    ASSUME OInv, NEW r \in Requests, OnPublication(r) \/ OnArticle(r) \/ ByReader(r), NEW k \in Tabs
    PROVE  DraftOf(k)'
<1>. USE DEF OInv
<1>0. ASSUME \A q \in Requests : Stays(q, k), UNCHANGED <<tab, mine>>
      PROVE  DraftOf(k)'
  BY <1>0, StaysKeeps
<1>s. ASSUME NEW next, GoOn(r, next), next.at \notin OfClient, req[r].at # "answer",
             UNCHANGED <<tab, mine>>
      PROVE  DraftOf(k)'
  BY <1>0, <1>s, StrangerStays
<1>a. ASSUME NEW a, Answer(r, a), req[r].at \in {"insert", "update"}, UNCHANGED <<tab, mine>>
      PROVE  DraftOf(k)'
  BY <1>0, <1>a, AnswerStays
<1>1. CASE OnPublication(r)
  <2>1. ASSUME NEW p \in Publications, NEW s \in Slugs,
               createPublication(r, p, s) \/ updatePublication(r, p, s)
        PROVE  DraftOf(k)'
    BY <1>s, <2>1 DEF createPublication, updatePublication, Begin, Idle, OfClient, history
  <2>2. CASE ClaimSlug(r) \/ ClaimFails(r)
    BY <1>s, <2>2 DEF ClaimSlug, ClaimFails, Idle, OfClient, history
  <2>. QED  BY <1>1, <2>1, <2>2 DEF OnPublication
<1>2. CASE ByReader(r)
  <2>1. CASE findBySlug(r)
    <3>1. PICK p \in Publications : GoOn(r, [at |-> "view", publication |-> p])
      BY <2>1 DEF findBySlug
    <3>. QED  BY <1>s, <2>1, <3>1 DEF findBySlug, Idle, OfClient, history
  <2>2. CASE ShowArticle(r) \/ NotFound(r)
    BY <1>s, <2>2 DEF ShowArticle, NotFound, Idle, OfClient, history
  <2>. QED  BY <1>2, <2>1, <2>2 DEF ByReader
<1>3. CASE OnArticle(r)
  <2>1. CASE uniqueSlug(r)
    <3>1. /\ req[r] \in [at: {"probe", "insert"}, publication: Publications, number: Nat,
                         payload: Payload, client: Client, button: Button]
          /\ req[r].at = "probe"
      BY <2>1, RequestFields DEF uniqueSlug
    <3>2. /\ req'[r].client = req[r].client /\ req'[r].button = req[r].button
          /\ req'[r].at \in {"probe", "insert"}
          /\ \A q \in Requests : q # r => UNCHANGED req[q]
      BY <2>1, <3>1, GoOnEffect DEF uniqueSlug
    <3>3. ASSUME NEW q \in Requests
          PROVE  Stays(q, k)
      BY <3>1, <3>2, RestStays DEF Stays, SaveOf, Creating, Made, OfClient
    <3>. QED  BY <1>0, <2>1, <3>3 DEF uniqueSlug, history
  <2>2. CASE InsertFails(r) \/ UpdateFails(r)
    BY <1>a, <2>2 DEF InsertFails, UpdateFails, history
  <2>3. CASE WriteUpdate(r)
    BY <1>a, <2>3 DEF WriteUpdate
  <2>4. CASE WriteChange(r) \/ ChangeFails(r)
    BY <1>s, <2>4 DEF WriteChange, ChangeFails, Idle, OfClient, history
  <2>5. ASSUME NEW a \in Articles, publish(r, a) \/ schedule(r, a) \/ delete(r, a)
        PROVE  DraftOf(k)'
    <3>1. PICK what \in {"publish", "schedule", "delete"} : Change(r, a, what)
      BY <2>5 DEF publish, schedule, delete
    <3>. QED  BY <1>s, <3>1 DEF Change, Begin, Idle, OfClient, history
  <2>6. ASSUME NEW a \in Articles, NEW patch \in Patches, PatchArticle(r, a, patch)
        PROVE  DraftOf(k)'
    <3>1. PICK next : GoOn(r, next) /\ next.client = Api
      BY <2>6, UpdateBegins DEF PatchArticle
    <3>2. ASSUME NEW q \in Requests
          PROVE  Stays(q, k)
      BY <2>6, <3>1, BegunStays, NoneAssumption DEF PatchArticle, Begin
    <3>. QED  BY <1>0, <2>6, <3>2 DEF PatchArticle
  <2>7. ASSUME NEW a \in Articles, InsertArticle(r, a)
        PROVE  DraftOf(k)'
    <3>1. UNCHANGED tab /\ Answer(r, a) /\ req[r].at = "insert"  BY <2>7 DEF InsertArticle
    <3>2. CASE SaveOf(r, k)
      <4>1. mine' = [mine EXCEPT ![k] = @ \cup {a}] /\ mine[k] = {}
        BY <2>7, <3>1, <3>2 DEF InsertArticle, SaveOf, DraftOf, Creating
      <4>2. mine'[k] = {a}  BY <4>1 DEF TypeOK
      <4>3. SaveOf(r, k)' /\ Made(r)' /\ ~ Creating(r)'
        <5>1. req'[r] = [at |-> "answer", article |-> a, client |-> req[r].client,
                         button |-> req[r].button]
          BY <3>1, GoOnEffect DEF Answer
        <5>. QED  BY <3>2, <5>1, NoneAssumption DEF SaveOf, Made, Creating, OfClient
      <4>4. \A q \in Requests : SaveOf(q, k)' => q = r
        <5>1. \A q \in Requests : SaveOf(q, k)' => SaveOf(q, k)
          BY <3>1, AnswerStays DEF Stays
        <5>. QED  BY <3>2, <5>1 DEF DraftOf
      <4>5. tab[k].saving  BY <3>2 DEF DraftOf
      <4>. QED  BY <3>1, <4>2, <4>3, <4>4, <4>5 DEF DraftOf
    <3>3. CASE ~ SaveOf(r, k)
      <4>1. UNCHANGED mine[k]  BY <2>7, <3>1, <3>3 DEF InsertArticle, SaveOf, OfClient, TypeOK
      <4>2. \A q \in Requests : Stays(q, k)  BY <3>1, AnswerStays
      <4>. QED  BY <3>1, <4>1, <4>2, StaysKeeps
    <3>. QED  BY <3>2, <3>3
  <2>. QED  BY <1>3, <2>1, <2>2, <2>3, <2>4, <2>5, <2>6, <2>7 DEF OnArticle
<1>. QED  BY <1>1, <1>2, <1>3

\* Whose editor is not saving has no save under way.
LEMMA NoSave ==
    ASSUME OInv, NEW k \in Tabs, ~ tab[k].saving, NEW q \in Requests
    PROVE  ~ SaveOf(q, k)
  BY DEF OInv, DraftOf

LEMMA DraftInEditor ==
    ASSUME OInv, NEW r \in Requests, InEditor(r), NEW k \in Tabs
    PROVE  DraftOf(k)'
<1>. USE DEF OInv
<1>1. ASSUME NEW t \in Tabs, NEW p \in Publications, NEW payload \in Payloads,
             handleSaveDraft(r, t, p, payload)
      PROVE  DraftOf(k)'
  <2>1. /\ req[r] = Idle /\ ~ tab[t].saving /\ UNCHANGED mine
        /\ tab' = [tab EXCEPT ![t].saving = TRUE]
    BY <1>1 DEF handleSaveDraft, Begin, SaveBusy
  <2>2. tab'[t].saving /\ tab'[t].article = tab[t].article
        /\ \A u \in Tabs : u # t => UNCHANGED tab[u]
    BY <2>1 DEF TypeOK, Editor
  <2>3. /\ req'[r].client = t /\ req'[r].button = "save"
        /\ \E next : GoOn(r, next) /\ next.client = t
        /\ \A q \in Requests : q # r => UNCHANGED req[q]
        /\ req'[r].at \in {"probe", "insert"} => tab[t].article = None
    <3>1. CASE tab[t].article = None
      <4>. DEFINE next == [at |-> "probe", publication |-> p, number |-> 0, payload |-> payload,
                           client |-> t, button |-> "save"]
      <4>1. GoOn(r, next)  BY <1>1, <3>1 DEF handleSaveDraft, Create
      <4>2. next.client = t /\ next.button = "save"  OBVIOUS
      <4>. HIDE DEF next
      <4>. QED  BY <3>1, <4>1, <4>2, GoOnEffect
    <3>2. CASE tab[t].article # None
      <4>1. Update(r, tab[t].article, payload, t)  BY <1>1, <3>2 DEF handleSaveDraft
      <4>. QED  BY <4>1, UpdateBegins
    <3>. QED  BY <3>1, <3>2
  <2>4. CASE k = t
    <3>1. \A q \in Requests : SaveOf(q, k)' => q = r
      BY <2>1, <2>3, <2>4, NoSave DEF SaveOf
    <3>2. mine[k] # {} => tab[k].article # None
      BY <2>1, <2>4, NoSave DEF DraftOf
    <3>. QED  BY <2>1, <2>2, <2>3, <2>4, <3>1, <3>2 DEF DraftOf, Creating
  <2>5. CASE k # t
    <3>1. \A q \in Requests : Stays(q, k)  BY <2>1, <2>3, <2>5, BegunStays
    <3>. QED  BY <2>1, <2>2, <2>5, <3>1, StaysKeeps
  <2>. QED  BY <2>4, <2>5
<1>2. ASSUME NEW t \in Tabs, NEW p \in Publications, NEW payload \in Payloads,
             handlePublish(r, t, p, payload)
      PROVE  DraftOf(k)'
  <2>. DEFINE next == [at |-> "probe", publication |-> p, number |-> 0, payload |-> payload,
                       client |-> t, button |-> "publish"]
  <2>1. GoOn(r, next) /\ req[r] = Idle /\ UNCHANGED mine
    BY <1>2 DEF handlePublish, Create, Begin, history
  <2>2. next.button # "save"  OBVIOUS
  <2>. HIDE DEF next
  <2>3. \A q \in Requests : Stays(q, k)  BY <2>1, <2>2, BegunStays
  <2>4. UNCHANGED <<tab[k].saving, tab[k].article>>  BY <1>2 DEF handlePublish, TypeOK, Editor
  <2>. QED  BY <2>1, <2>3, <2>4, StaysKeeps
<1>3. CASE SaveAnswered(r)
  <2>1. PICK t \in Tabs : t = req[r].client  BY <1>3 DEF SaveAnswered
  <2>2. /\ SaveOf(r, t) /\ UNCHANGED mine /\ req[r].at = "answer"
        /\ req'[r] = Idle /\ \A q \in Requests : q # r => UNCHANGED req[q]
    BY <1>3, <2>1, GoOnEffect DEF SaveAnswered, SaveOf, OfClient, history
  <2>3. /\ tab'[t].article = IF req[r].article = None THEN tab[t].article ELSE req[r].article
        /\ \A u \in Tabs : u # t => UNCHANGED tab[u]
    BY <1>3, <2>1 DEF SaveAnswered, TypeOK, Editor
  <2>4. CASE k = t
    <3>1. \A q \in Requests : ~ SaveOf(q, k)'
      <4>1. \A q \in Requests : q # r => ~ SaveOf(q, k)  BY <2>2, <2>4 DEF DraftOf
      <4>. QED  BY <2>2, <4>1 DEF SaveOf, Idle, OfClient
    <3>2. mine[k] # {} => tab[k].article # None \/ Made(r)
      BY <2>2, <2>4 DEF DraftOf
    <3>3. mine[k] # {} => tab'[k].article # None
      BY <2>3, <2>4, <3>2 DEF Made
    <3>. QED  BY <2>2, <2>4, <3>1, <3>3 DEF DraftOf
  <2>5. CASE k # t
    <3>1. ASSUME NEW q \in Requests
          PROVE  Stays(q, k)
      <4>1. CASE q = r  BY <2>1, <2>2, <2>5, <4>1 DEF Stays, SaveOf, Idle, OfClient
      <4>2. CASE q # r  BY <2>2, <4>2, RestStays
      <4>. QED  BY <4>1, <4>2
    <3>. QED  BY <2>2, <2>3, <2>5, <3>1, StaysKeeps
  <2>. QED  BY <2>4, <2>5
<1>4. CASE PublishAnswered(r)
  <2>1. PICK t \in Tabs : t = req[r].client  BY <1>4 DEF PublishAnswered
  <2>2. req[r].at = "answer" /\ req[r].button = "publish"  BY <1>4 DEF PublishAnswered
  <2>3. CASE req[r].article = None
    <3>1. UNCHANGED mine /\ GoOn(r, Idle) /\ tab' = [tab EXCEPT ![t].publishing = FALSE]
      BY <1>4, <2>1, <2>3 DEF PublishAnswered
    <3>2. UNCHANGED <<tab[k].saving, tab[k].article>>  BY <3>1 DEF TypeOK, Editor
    <3>3. req'[r] = Idle /\ \A q \in Requests : q # r => UNCHANGED req[q]  BY <3>1, GoOnEffect
    <3>4. ASSUME NEW q \in Requests
          PROVE  Stays(q, k)
      <4>1. CASE q = r  BY <2>2, <3>3, <4>1 DEF Stays, SaveOf, Idle, OfClient
      <4>2. CASE q # r  BY <3>3, <4>2, RestStays
      <4>. QED  BY <4>1, <4>2
    <3>. QED  BY <3>1, <3>2, <3>4, StaysKeeps
  <2>4. CASE req[r].article # None
    <3>1. /\ tab' = [tab EXCEPT ![t] = Clean] /\ mine' = [mine EXCEPT ![t] = {}]
          /\ req' = Forgotten(t, r)
      BY <1>4, <2>1, <2>4 DEF PublishAnswered
    <3>2. ASSUME NEW q \in Requests
          PROVE  \/ req'[q] = Idle /\ q = r
                 \/ UNCHANGED req[q] /\ ~ (req[q].at \in OfClient /\ req[q].client = t)
                 \/ /\ req[q].client = t /\ req'[q].client = Api /\ req'[q].at = req[q].at
                    /\ req[q].at \in OfClient
      <4>1. req'[q] = IF q = r THEN Idle
                      ELSE IF req[q].at \in OfClient /\ req[q].client = t
                           THEN [req[q] EXCEPT !.client = Api] ELSE req[q]
        BY <3>1 DEF Forgotten, OfClient
      <4>2. req[q].at \in OfClient => /\ [req[q] EXCEPT !.client = Api].client = Api
                                      /\ [req[q] EXCEPT !.client = Api].at = req[q].at
        BY RequestFields DEF OfClient
      <4>. QED  BY <4>1, <4>2
    <3>3. CASE k = t
      <4>1. mine'[k] = {}  BY <3>1, <3>3 DEF TypeOK
      <4>2. \A q \in Requests : ~ SaveOf(q, k)'
        BY <3>2, <3>3, NoneAssumption DEF SaveOf, Idle, OfClient
      <4>. QED  BY <4>1, <4>2 DEF DraftOf
    <3>4. CASE k # t
      <4>1. UNCHANGED <<mine[k], tab[k]>>  BY <3>1, <3>4 DEF TypeOK
      <4>2. ASSUME NEW q \in Requests
            PROVE  Stays(q, k)
        <5>1. CASE UNCHANGED req[q]  BY <5>1, RestStays
        <5>2. CASE q = r /\ req'[q] = Idle
          BY <2>2, <5>2 DEF Stays, SaveOf, Idle, OfClient
        <5>3. CASE req[q].client = t /\ req'[q].client = Api
          BY <3>4, <5>3, NoneAssumption DEF Stays, SaveOf
        <5>. QED  BY <3>2, <5>1, <5>2, <5>3
      <4>. QED  BY <4>1, <4>2, StaysKeeps
    <3>. QED  BY <3>3, <3>4
  <2>. QED  BY <2>3, <2>4
<1>5. CASE ApiAnswered(r)
  <2>1. /\ UNCHANGED <<tab, mine>> /\ req[r].client = Api
        /\ req'[r] = Idle /\ \A q \in Requests : q # r => UNCHANGED req[q]
    BY <1>5, GoOnEffect DEF ApiAnswered, history
  <2>2. ASSUME NEW q \in Requests
        PROVE  Stays(q, k)
    <3>1. CASE q = r  BY <2>1, <3>1, NoneAssumption DEF Stays, SaveOf, Idle, OfClient
    <3>2. CASE q # r  BY <2>1, <3>2, RestStays
    <3>. QED  BY <3>1, <3>2
  <2>. QED  BY <2>1, <2>2, StaysKeeps
<1>6. CASE LoseAnswer(r)
  <2>1. PICK t \in Tabs : t = req[r].client  BY <1>6 DEF LoseAnswer
  <2>2. /\ req[r].at \in OfClient
        /\ mine' = [mine EXCEPT ![t] = {}]
        /\ tab' = [tab EXCEPT ![t].saving = @ /\ req[r].button # "save",
                              ![t].publishing = @ /\ req[r].button # "publish"]
        /\ req'[r] = [req[r] EXCEPT !.client = Api]
        /\ \A q \in Requests : q # r => UNCHANGED req[q]
    BY <1>6, <2>1, GoOnEffect DEF LoseAnswer, OfClient
  <2>3. req'[r].client = Api  BY <2>2, RequestFields DEF OfClient
  <2>4. CASE k = t
    <3>1. mine'[k] = {}  BY <2>2, <2>4 DEF TypeOK
    <3>2. \A q \in Requests : SaveOf(q, k)' => SaveOf(q, k) /\ q # r
      BY <2>2, <2>3, <2>4, NoneAssumption DEF SaveOf
    <3>3. ASSUME NEW q \in Requests, SaveOf(q, k)'
          PROVE  tab'[k].saving
      <4>1. tab[k].saving /\ ~ SaveOf(r, k)  BY <3>2, <3>3 DEF DraftOf
      <4>2. req[r].button # "save"  BY <2>1, <2>2, <2>4, <4>1 DEF SaveOf
      <4>. QED  BY <2>2, <2>4, <4>1, <4>2 DEF TypeOK, Editor
    <3>4. \A p, q \in Requests : SaveOf(p, k)' /\ SaveOf(q, k)' => p = q  BY <3>2 DEF DraftOf
    <3>. QED  BY <3>1, <3>3, <3>4 DEF DraftOf
  <2>5. CASE k # t
    <3>1. UNCHANGED <<mine[k], tab[k]>>  BY <2>2, <2>5 DEF TypeOK
    <3>2. ASSUME NEW q \in Requests
          PROVE  Stays(q, k)
      <4>1. CASE q = r  BY <2>1, <2>3, <2>5, <4>1, NoneAssumption DEF Stays, SaveOf
      <4>2. CASE q # r  BY <2>2, <4>2, RestStays
      <4>. QED  BY <4>1, <4>2
    <3>. QED  BY <3>1, <3>2, StaysKeeps
  <2>. QED  BY <2>4, <2>5
<1>. QED  BY <1>1, <1>2, <1>3, <1>4, <1>5, <1>6 DEF InEditor

LEMMA DraftStep ==
    ASSUME OInv, [Next]_vars, NEW k \in Tabs
    PROVE  DraftOf(k)'
<1>1. ASSUME NEW t \in Tabs, NEW a \in Articles, OpenEditor(t, a)
      PROVE  DraftOf(k)'
  <2>1. /\ UNCHANGED <<req, mine>> /\ UNCHANGED tab[k].saving
        /\ tab[k].article # None => tab'[k].article # None
    BY <1>1, NoneAssumption DEF OpenEditor, OInv, TypeOK, Editor, history
  <2>2. \A q \in Requests : Stays(q, k)  BY <2>1, RestStays
  <2>. QED  BY <2>1, <2>2, StaysKeeps
<1>2. CASE UNCHANGED vars
  <2>1. UNCHANGED <<req, tab, mine>>  BY <1>2 DEF vars, history
  <2>2. \A q \in Requests : Stays(q, k)  BY <2>1, RestStays
  <2>. QED  BY <2>1, <2>2, StaysKeeps
<1>. QED  BY <1>1, <1>2, DraftOnServer, DraftInEditor DEF Next

(* However often the author clicks, an editor whose answers arrive makes   *)
(* at most one draft.                                                      *)
THEOREM OneDraft == Spec => []OneDraftPerEditor
<1>1. Init => OInv
  <2>. SUFFICES ASSUME Init PROVE OInv
    OBVIOUS
  <2>1. \A r \in Requests : req[r].at = "idle"  BY DEF Init, Idle
  <2>2. \A k \in Tabs : mine[k] = {}  BY DEF Init
  <2>. QED  BY <2>1, <2>2, InitTypes DEF OInv, DraftOf, SaveOf, OfClient
<1>2. OInv /\ [Next]_vars => OInv'
  BY DraftStep, StepTypes DEF OInv
<1>3. OInv => OneDraftPerEditor
  <2>. SUFFICES ASSUME OInv, NEW k \in Tabs PROVE Cardinality(mine[k]) <= 1
    BY DEF OneDraftPerEditor
  <2>1. CASE mine[k] = {}
    <3>1. Cardinality(mine[k]) = 0  BY <2>1, FS_EmptySet
    <3>. QED  BY <3>1
  <2>2. CASE mine[k] # {}
    <3>1. PICK a \in mine[k] : TRUE  BY <2>2
    <3>2. \A b \in mine[k] : b = a  BY <3>1 DEF OInv, DraftOf
    <3>3. mine[k] = {a}  BY <3>1, <3>2
    <3>4. Cardinality({a}) = 1  BY FS_Singleton
    <3>. QED  BY <3>3, <3>4
  <2>. QED  BY <2>1, <2>2
<1>. QED  BY <1>1, <1>2, <1>3, PTL DEF Spec
=============================================================================
