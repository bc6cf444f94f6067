------------------------------ MODULE Listings ------------------------------
(***************************************************************************)
(* The list of a publication's articles, page by page, while articles come *)
(* and go: findByPublicationSlug of ArticlesService, and who asks for it.  *)
(*                                                                         *)
(* Every page is two statements that run side by side, the articles and    *)
(* their number, each on the table as it is at that moment.  Readers and   *)
(* authors alike get what is published: the route is public, so the server *)
(* never learns who is asking.                                             *)
(***************************************************************************)
EXTENDS SequencesExt, FiniteSetsExt

CONSTANTS
    Articles,
    Limits,          \* items to a page that clients of the API ask for
    MaxLimit,        \* items to a page, at most
    MaxChanges       \* bound: changes of the table

ASSUME LimitsAssumption == Limits \subseteq Nat \ {0} /\ MaxLimit \in Nat \ {0}
ASSUME ArticlesAssumption == IsFiniteSet(Articles)

VARIABLES
    rows,        \* table articles, of one publication
    clock,       \* changes of the table
    walk         \* how far one reader of the list is

lists == <<rows, clock, walk>>

Absent == [status |-> "none", published_at |-> 0]
Draft == [status |-> "draft", published_at |-> 0]

ListsInit ==
    /\ rows \in {[a \in Articles |-> Absent], [a \in Articles |-> Draft]}
    /\ clock = 0
    /\ walk = [at |-> "idle"]

-----------------------------------------------------------------------------
(* Slips a maintainer could make below, to see that the properties notice. *)

MutTotalPagesFloor(total, limit) == total \div limit

-----------------------------------------------------------------------------
(* findByPublicationSlug.                                                  *)

Listed == {a \in Articles : rows[a].status = "published"}

\* Newest first; the database puts undated rows first, and ties in any order.
NotAfter(a, b) ==
    \/ rows[a].published_at = 0
    \/ rows[b].published_at # 0 /\ rows[a].published_at >= rows[b].published_at

Orders(S) == {s \in SetToSeqs(S) : \A i, j \in DOMAIN s : i < j => NotAfter(s[i], s[j])}

\* No two listed articles whose order the database may change at will.
Dated == \A a, b \in Listed : a # b => rows[a].published_at # rows[b].published_at

safeLimit(limit) == Min({limit, MaxLimit})

Skip(page, limit) == (page - 1) * limit

TotalPages(total, limit) == (total + limit - 1) \div limit

\* The page of an order that a reader is at.
PageOf(order) ==
    SubSeq(order, Skip(walk.page, walk.limit) + 1,
           Min({Len(order), Skip(walk.page, walk.limit) + walk.limit}))

OpenList(limit, all) ==
    /\ walk.at = "idle"
    /\ walk' = [at |-> "ask", page |-> 1, limit |-> safeLimit(limit), all |-> all,
                items |-> <<>>, total |-> 0, missing |-> {"items", "total"}, seen |-> <<>>,
                stayed |-> Listed, dated |-> Dated, removed |-> FALSE, torn |-> FALSE]
    /\ UNCHANGED <<rows, clock>>

\* The page of a publication asks for as many as it can get, the author's own
\* list for twice as many; a client of the API may go through all pages.
getArticles == OpenList(MaxLimit, FALSE)
loadArticles == OpenList(2 * MaxLimit, FALSE)
list(limit) == OpenList(limit, TRUE)

FindItems ==
    /\ walk.at = "ask" /\ "items" \in walk.missing
    /\ \E order \in Orders(Listed) :
          walk' = [walk EXCEPT !.items = PageOf(order), !.missing = @ \ {"items"}]
    /\ UNCHANGED <<rows, clock>>

CountTotal ==
    /\ walk.at = "ask" /\ "total" \in walk.missing
    /\ walk' = [walk EXCEPT !.total = Cardinality(Listed), !.missing = @ \ {"total"}]
    /\ UNCHANGED <<rows, clock>>

Page ==
    /\ walk.at = "ask" /\ walk.missing = {}
    /\ walk' = [walk EXCEPT
          !.seen = @ \o walk.items,
          !.page = @ + 1,
          !.missing = {"items", "total"},
          !.at = IF walk.all /\ walk.page < TotalPages(walk.total, walk.limit)
                 THEN "ask" ELSE "done"]
    /\ UNCHANGED <<rows, clock>>

-----------------------------------------------------------------------------
(* The table changes.  What the reader could not have known is remembered  *)
(* for the properties.                                                     *)

\* Bound: what happens after the reader is done is of no interest here.
SetRow(a, row) ==
    /\ clock < MaxChanges /\ walk.at # "done"
    /\ clock' = clock + 1
    /\ rows' = [rows EXCEPT ![a] = row]
    /\ walk' = IF walk.at = "idle" THEN walk
               ELSE [walk EXCEPT
                        !.stayed = @ \ {a},
                        !.dated = @ /\ Dated',
                        !.removed = @ \/ (rows[a].status = "published" /\ row.status # "published"),
                        !.torn = @ \/ Cardinality(walk.missing) = 1]

\* By the editor, which gives no date.
Create(a, status) ==
    /\ rows[a] = Absent
    /\ SetRow(a, [status |-> status, published_at |-> 0])

Update(a, status) ==
    /\ rows[a] # Absent
    /\ SetRow(a, [rows[a] EXCEPT !.status = status])

publish(a) ==
    /\ rows[a] # Absent
    /\ SetRow(a, [status |-> "published", published_at |-> clock + 1])

delete(a) ==
    /\ rows[a] # Absent
    /\ SetRow(a, Absent)

ListsNext ==
    \/ getArticles \/ loadArticles \/ \E limit \in Limits : list(limit)
    \/ FindItems \/ CountTotal \/ Page
    \/ \E a \in Articles :
          \/ \E status \in {"draft", "published"} : Create(a, status) \/ Update(a, status)
          \/ publish(a) \/ delete(a)

ListsSpec == ListsInit /\ [][ListsNext]_lists

-----------------------------------------------------------------------------
(* Whoever goes through all pages of dated articles sees every article that *)
(* stayed in its place, whatever else is published meanwhile: new articles  *)
(* push others to later pages.  Only what is withdrawn or deleted, or a     *)
(* change between the two statements of a page, can hide one.  If nothing   *)
(* changes meanwhile, nobody sees an article twice, and who asks for one    *)
(* page only, like the pages of the site, sees the newest ones.             *)
WalkMissesNothing ==
    walk.at = "done" /\ walk.dated /\ ~ walk.removed /\ ~ walk.torn =>
        /\ walk.all => walk.stayed \subseteq {walk.seen[k] : k \in DOMAIN walk.seen}
        /\ walk.stayed = Listed =>
              /\ \E order \in Orders(Listed) : IsPrefix(walk.seen, order)
              /\ walk.seen = <<>> => Listed = {}
=============================================================================
