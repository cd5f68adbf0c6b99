--------------------------- MODULE PageSerial_proofs ---------------------------
(***************************************************************************)
(* What holds of the pages when one request runs at a time: proofs of      *)
(* HistoryIsOrdered, PageCacheIsCurrent, ListCacheIsCurrent,               *)
(* IndexNamesEachPageOnce, DeletedPagesAreGone and LinksResolve.           *)
(*                                                                         *)
(* The properties speak of the moments between two requests.  Their        *)
(* invariants say besides how far the only request has come: what it has   *)
(* read is still so, and what is not as it should be is what the request   *)
(* is about to put right.                                                  *)
(***************************************************************************)
EXTENDS PageHistory_proofs

There(p) == \E pg \in pages : pg.id = p

(* What a request asks of a label. *)
In(t, labels) == rq[t].pc \in labels

-----------------------------------------------------------------------------
(* The tables. *)

(* Keys are unique and handed out in order. *)
KeysInOrder ==
    /\ \A c \in contents : /\ c.id < nextRow
                           /\ c.editedOn <= clock
                           /\ c.pageId < nextPage
    /\ \A c, d \in contents : c.id = d.id => c = d
    /\ \A pg \in pages : pg.id < nextPage
    /\ \A pg, q \in pages : pg.id = q.id => pg = q

VersionsInOrder ==
    \A c, d \in contents :
       (c.pageId = d.pageId /\ c.id # d.id) =>
          /\ c.version # d.version
          /\ c.version < d.version <=> c.editedOn < d.editedOn

(* No request is cut short. *)
Undisturbed == Never({"recycle"}) /\ ~DatabaseMayFail

PagesHaveLatest ==
    \A pg \in pages : GetLatestPageContent(pg.id) # {} \/ AtWorkOn(pg.id)

(* The request that explains that a page has no content. *)
WorkLabels == {"add:content", "del:contents", "del:row"}

(* Here a request counts on its page being there. *)
PageIsThere ==
    {"add:content", "upd:save", "upd:cache", "upd:home", "upd:lists", "upd:max",
     "upd:time", "upd:insert", "rev:max", "rev:time", "rev:insert"}

DeletePageLabels ==
    {"del:latest", "del:unindex", "del:children", "del:contents", "del:row",
     "del:lists", "del:pages"}

(* What the request of thread t knows of the calls that clients make, and  *)
(* of the tables.                                                          *)
CallsKnown(t) ==
    /\ In(t, {"rev:max", "rev:time", "rev:insert", "rev:cache"}) => "revert" \in Ops
    /\ In(t, DeletePageLabels) => "delete" \in Ops
    /\ In(t, {"clr:contents", "clr:lists", "clr:pages"}) => "clear" \in Ops

TablesKnown(t) ==
    /\ CallsKnown(t)
    /\ In(t, PageIsThere) => There(rq[t].id)
    /\ In(t, {"add:content"}) => \A c \in contents : c.pageId # rq[t].id
    /\ In(t, {"upd:save"}) => rq[t].page.id = rq[t].id
    /\ In(t, {"upd:rewrite"}) => \A c \in rq[t].rows : \E d \in contents : SameVersion(c, d)
    /\ In(t, {"del:contents"}) => \A c \in rq[t].rows : c \in contents /\ c.pageId = rq[t].id
    /\ In(t, {"clr:contents"}) => pages = {}
    /\ (~CoarseClock /\ In(t, InsertLabels)) =>
          /\ rq[t].ver > 1
          /\ \A c \in contents : c.pageId = rq[t].id => c.version < rq[t].ver
    /\ In(t, {"add:content", "upd:insert", "rev:insert"}) =>
          /\ rq[t].on = clock
          /\ ~CoarseClock => \A c \in contents : c.editedOn < clock

TablesInv ==
    /\ TypeOK
    /\ KeysInOrder
    /\ ~CoarseClock => VersionsInOrder
    /\ Undisturbed => PagesHaveLatest
    /\ \A t \in Threads : TablesKnown(t)

-----------------------------------------------------------------------------
(* The page cache. *)

PageEntryHolds(e) ==
    IF e.version = LATEST_VERSION_NUMBER
    THEN e.view.page.id = e.id /\ IsCurrent(e.view)
    ELSE \E c \in GetPageContentByPageIdAndVersionNumber(e.id, e.version) :
            e.view.text = c.text

(* Where the request is about to empty the page cache, *)
PageCacheIsToGo ==
    {"upd:rewrite", "upd:clearpages", "del:contents", "del:row", "del:lists", "del:pages",
     "clr:contents", "clr:lists", "clr:pages"}

(* to take its page out of it, *)
PageIsToGo == {"upd:cache", "rev:cache"}

(* and where it has done so and the page has yet to change.  *)
PageHasGone == {"upd:home", "upd:lists", "upd:max", "upd:time", "upd:insert"}

PageCacheKnown(t) ==
    /\ In(t, PageHasGone) => CachedPage(rq[t].id, LATEST_VERSION_NUMBER) = {}
    /\ In(t, {"get:content"}) => rq[t].page \in GetPageById(rq[t].id)
    /\ In(t, {"get:cache"}) => rq[t].view.page.id = rq[t].id /\ IsCurrent(rq[t].view)
    /\ In(t, {"cmp:previous", "cmp:cache"}) => rq[t].ver # LATEST_VERSION_NUMBER
    /\ In(t, {"cmp:cache"}) =>
          \E c \in GetPageContentByPageIdAndVersionNumber(rq[t].id, rq[t].ver) :
             rq[t].view.text = c.text

PageEntryIsToGo(t, e) ==
    \/ In(t, PageCacheIsToGo)
    \/ /\ In(t, PageIsToGo)
       /\ e.id = rq[t].id
       /\ e.version = LATEST_VERSION_NUMBER

PageCacheInv ==
    /\ \A e \in pageCache : PageEntryHolds(e) \/ \E t \in Threads : PageEntryIsToGo(t, e)
    /\ \A t \in Threads : PageCacheKnown(t)

-----------------------------------------------------------------------------
(* The lists. *)

ListEntryHolds(e) ==
    /\ {view.page : view \in e.views} = ListedPages(e.key)
    /\ (WithContent(e.key) /\ Never({"revert"})) => \A view \in e.views : IsCurrent(view)

ListsAreToGo ==
    {"add:content", "add:lists", "upd:page", "upd:save", "upd:cache", "upd:home",
     "upd:lists", "del:contents", "del:row", "del:lists", "clr:contents", "clr:lists"}

ListsHaveGone ==
    {"upd:max", "upd:time", "upd:insert", "upd:links", "upd:rewrite", "upd:clearpages",
     "upd:clearlists", "upd:latest", "upd:unindex", "upd:index"}

(* The steps of UpdatePage and of the loop of RenameTag. *)
UpdateLabels ==
    {"tag:unindex", "upd:page", "upd:save", "upd:cache", "upd:home", "upd:lists"}
      \cup ListsHaveGone

ListsKnown(t) ==
    /\ In(t, ListsHaveGone) => listCache = {}
    /\ In(t, {"tag:unindex"}) => There(rq[t].id)
    /\ In(t, {"upd:page"}) => There(rq[t].id) \/ \A e \in listCache : ListEntryHolds(e)
    /\ In(t, UpdateLabels \cup {"tag:next"}) =>
          /\ \A view \in rq[t].views : There(view.page.id)
          /\ \A pg \in rq[t].todo : There(pg.id)
    /\ In(t, {"list:pages"}) => rq[t].views = {} /\ rq[t].todo = {}
    /\ In(t, {"list:contents"}) =>
          /\ WithContent(rq[t].key)
          /\ {view.page : view \in rq[t].views} \cup rq[t].todo = ListedPages(rq[t].key)
          /\ \A view \in rq[t].views : IsCurrent(view)
    /\ In(t, {"list:cache"}) =>
          /\ {view.page : view \in rq[t].views} = ListedPages(rq[t].key)
          /\ WithContent(rq[t].key) => \A view \in rq[t].views : IsCurrent(view)

ListsInv ==
    /\ \A e \in listCache : ListEntryHolds(e) \/ \E t \in Threads : In(t, ListsAreToGo)
    /\ \A t \in Threads : ListsKnown(t)

-----------------------------------------------------------------------------
(* The search index. *)

DocumentsHold(p) ==
    /\ {documents[p][i].page : i \in DOMAIN documents[p]} = GetPageById(p)
    /\ Len(documents[p]) <= 1
    /\ Never({"revert"}) =>
          \A i \in DOMAIN documents[p] : \E c \in GetLatestPageContent(p) :
             documents[p][i].text.body = c.text.body

NewLabels == {"add:content", "add:lists", "add:pages", "add:index"}

GoneLabels == {"del:children", "del:contents", "del:row"}

IndexIsToCome == (UpdateLabels \ {"tag:unindex"}) \cup NewLabels \cup GoneLabels

PageIsSaved ==
    {"upd:cache", "upd:home", "upd:lists", "upd:max", "upd:time", "upd:insert",
     "upd:links", "upd:rewrite", "upd:clearpages", "upd:clearlists", "upd:latest"}

(* view shows the page p and its latest wording. *)
IsToIndex(view, p) ==
    /\ view.page.id = p
    /\ GetPageById(p) = {view.page}
    /\ \E c \in GetLatestPageContent(p) : c.text.body = view.text.body

IndexKnown(t) ==
    /\ indexLock => In(t, {"idx:contents", "idx:close"})
    /\ In(t, NewLabels \cup GoneLabels \cup {"upd:index"}) => documents[rq[t].id] = <<>>
    /\ In(t, {"add:content"}) => /\ rq[t].model.page.id = rq[t].id
                                 /\ GetPageById(rq[t].id) = {rq[t].model.page}
    /\ In(t, NewLabels \ {"add:content"}) => IsToIndex(rq[t].model, rq[t].id)
    /\ In(t, {"upd:page"}) => There(rq[t].id) \/ DocumentsHold(rq[t].id)
    /\ In(t, PageIsSaved) => /\ rq[t].page.id = rq[t].id
                             /\ GetPageById(rq[t].id) = {rq[t].page}
    /\ In(t, {"upd:unindex", "upd:index"}) => IsToIndex(rq[t].view, rq[t].id)
    /\ In(t, {"idx:contents"}) => {view.page : view \in rq[t].views} \cup rq[t].todo = pages
    /\ In(t, {"idx:close"}) => {view.page : view \in rq[t].views} = pages
    /\ In(t, {"idx:contents", "idx:close"}) => \A view \in rq[t].views : IsCurrent(view)

IndexWorks == ~SearchMayFail /\ Never({"clear", "recycle"})

IndexInv ==
    IndexWorks =>
      /\ \A p \in PageIds :
            DocumentsHold(p) \/ \E t \in Threads : In(t, IndexIsToCome) /\ rq[t].id = p
      /\ \A t \in Threads : IndexKnown(t)

-----------------------------------------------------------------------------
(* Pages that are gone. *)

HomeIsToGo == {"del:lists", "del:pages", "clr:contents", "clr:lists", "clr:pages"}

HomeKnown(t) ==
    /\ In(t, {"home:content", "home:cache"}) => There(rq[t].id) /\ rq[t].page.id = rq[t].id
    /\ In(t, {"home:cache"}) => rq[t].view.page.id = rq[t].id

GoneInv ==
    /\ \A view \in homeCache : There(view.page.id) \/ \E t \in Threads : In(t, HomeIsToGo)
    /\ Never({"recycle"}) =>
         \A c \in contents : There(c.pageId) \/ \E t \in Threads : In(t, {"clr:contents"})
    /\ \A t \in Threads : HomeKnown(t)

-----------------------------------------------------------------------------
(* Links. *)

PageTitles == {pg.title : pg \in pages}

TitleHolds(page) == \A pg \in pages : pg.id = page.id => pg.title = page.title

ViewLinksHold(view) == TitleHolds(view.page) /\ view.text.links \subseteq PageTitles

TitleIsToChange == {"tag:unindex", "upd:page", "upd:save"}

LinksAreToChange ==
    {"upd:cache", "upd:home", "upd:lists", "upd:max", "upd:time", "upd:insert",
     "upd:links", "upd:rewrite"}

LinksKnown(t) ==
    /\ In(t, {"add:content"}) => rq[t].model.text.links = {}
    /\ In(t, {"rev:max", "rev:time", "rev:insert"}) => rq[t].view.text.links \subseteq PageTitles
    /\ In(t, {"list:contents", "list:cache", "tag:next"} \cup UpdateLabels) =>
          /\ \A view \in rq[t].views : ViewLinksHold(view)
          /\ \A pg \in rq[t].todo : TitleHolds(pg)
    /\ In(t, UpdateLabels) =>
          rq[t].model.page.title = rq[t].prev \/ (rq[t].views = {} /\ rq[t].todo = {})
    /\ In(t, TitleIsToChange) =>
          /\ \A pg \in pages : pg.id = rq[t].id => pg.title = rq[t].prev
          /\ rq[t].model.text.links \subseteq PageTitles
    /\ In(t, {"upd:save"}) => rq[t].page.title = rq[t].model.page.title
    /\ In(t, LinksAreToChange) =>
          /\ rq[t].model.page.title \in PageTitles
          /\ rq[t].model.text.links \subseteq PageTitles \cup {rq[t].prev}
          /\ \A c \in contents : c.text.links \subseteq PageTitles \cup {rq[t].prev}
    /\ In(t, {"upd:rewrite"}) =>
          /\ \A c \in rq[t].rows : c.text.links \subseteq PageTitles \cup {rq[t].prev}
          /\ \A c \in contents : rq[t].prev \in c.text.links =>
                rq[t].prev \in PageTitles \/ \E d \in rq[t].rows : d.id = c.id

NoNewLinks ==
    /\ Never({"delete", "clear", "recycle"})
    /\ NewLinks \subseteq {{}}
    /\ \A i \in DOMAIN Seed : Seed[i].text.links \subseteq SeedTitles

LinksInv ==
    NoNewLinks =>
      /\ \A c \in contents : c.text.links \subseteq PageTitles
                             \/ \E t \in Threads : In(t, LinksAreToChange)
      /\ \A e \in listCache : \A view \in e.views :
            ViewLinksHold(view) \/ \E t \in Threads : In(t, {"upd:cache", "upd:home", "upd:lists"})
      /\ \A t \in Threads : LinksKnown(t)


-----------------------------------------------------------------------------
(* How the requests move. *)

(* The request goes on with all but its label, and the time it has taken. *)
Stays(t) ==
    /\ rq'[t].op = rq[t].op /\ rq'[t].id = rq[t].id
    /\ rq'[t].model = rq[t].model /\ rq'[t].prev = rq[t].prev
    /\ rq'[t].key = rq[t].key /\ rq'[t].newTag = rq[t].newTag
    /\ rq'[t].page = rq[t].page /\ rq'[t].view = rq[t].view
    /\ rq'[t].ver = rq[t].ver /\ rq'[t].rows = rq[t].rows
    /\ rq'[t].todo = rq[t].todo /\ rq'[t].views = rq[t].views

LEMMA Moved ==
    ASSUME TypeOK, NEW t \in Threads
    PROVE  /\ rq[t] \in Request
           /\ \A r : Become(t, r) => rq'[t] = r
           /\ \A r : Begin(t, r) => rq'[t] = r /\ rq[t].pc \in {"idle", "threw"} /\ r.op \in Ops
           /\ \A label : Goto(t, label) => rq'[t].pc = label /\ Stays(t)
           /\ Return(t) => rq'[t].pc = "idle"
           /\ Throw(t) => rq'[t].pc = "threw"
<1>1. rq \in [Threads -> Request]
  BY DEF TypeOK
<1>2. \A r : Become(t, r) => rq'[t] = r
  BY <1>1 DEF Become
<1>3. ASSUME NEW label, Goto(t, label) PROVE rq'[t].pc = label /\ Stays(t)
  BY <1>1, <1>3 DEF Goto, Stays, Request
<1>4. Return(t) => rq'[t].pc = "idle"
  BY <1>1 DEF Return, Idle
<1>5. Throw(t) => rq'[t].pc = "threw"
  BY <1>1 DEF Throw, Idle
<1> QED
  BY <1>1, <1>2, <1>3, <1>4, <1>5 DEF Begin

LEMMA GetByIdPageMoves ==
    ASSUME TypeOK, NEW t \in Threads, GetByIdPage(t)
    PROVE  \/ rq'[t].pc = "idle"
           \/ \E pg \in GetPageById(rq[t].id) :
                /\ rq'[t].pc = "get:content"
                /\ rq'[t].id = rq[t].id
                /\ rq'[t].page = pg
<1>m. /\ rq[t] \in Request
      /\ \A r : Become(t, r) => rq'[t] = r
      /\ \A label : Goto(t, label) => rq'[t].pc = label /\ Stays(t)
      /\ Return(t) => rq'[t].pc = "idle"
      /\ Throw(t) => rq'[t].pc = "threw"
  BY Moved
<1>1. ASSUME NEW pg \in GetPageById(rq[t].id),
             Become(t, [rq[t] EXCEPT !.pc = "get:content", !.page = pg])
      PROVE  /\ rq'[t].pc = "get:content"
             /\ rq'[t].id = rq[t].id
             /\ rq'[t].page = pg
  <2>1. rq'[t] = [rq[t] EXCEPT !.pc = "get:content", !.page = pg]
    BY <1>1, <1>m
  <2> QED
    BY <2>1, <1>m DEF Request
<1> QED
  BY <1>1, <1>m DEF GetByIdPage, At

LEMMA GetByIdContentMoves ==
    ASSUME TypeOK, NEW t \in Threads, GetByIdContent(t)
    PROVE  \/ rq'[t].pc = "threw"
           \/ \E c \in GetLatestPageContent(rq[t].id) :
                /\ rq'[t].pc = "get:cache"
                /\ rq'[t].id = rq[t].id
                /\ rq'[t].view = ViewOf(rq[t].page, c)
<1>m. /\ rq[t] \in Request
      /\ \A r : Become(t, r) => rq'[t] = r
      /\ \A label : Goto(t, label) => rq'[t].pc = label /\ Stays(t)
      /\ Return(t) => rq'[t].pc = "idle"
      /\ Throw(t) => rq'[t].pc = "threw"
  BY Moved
<1>1. ASSUME NEW c \in GetLatestPageContent(rq[t].id),
             Become(t, [rq[t] EXCEPT !.pc = "get:cache", !.view = ViewOf(rq[t].page, c)])
      PROVE  /\ rq'[t].pc = "get:cache"
             /\ rq'[t].id = rq[t].id
             /\ rq'[t].view = ViewOf(rq[t].page, c)
  <2>1. rq'[t] = [rq[t] EXCEPT !.pc = "get:cache", !.view = ViewOf(rq[t].page, c)]
    BY <1>1, <1>m
  <2> QED
    BY <2>1, <1>m DEF Request
<1> QED
  BY <1>1, <1>m DEF GetByIdContent, At

LEMMA HomePageAnyMoves ==
    ASSUME TypeOK, NEW t \in Threads, HomePageAny(t)
    PROVE  \/ rq'[t].pc = "idle"
           \/ \E pg \in FindPagesContainingTag(HomepageTag) :
                /\ rq'[t].pc = "home:content"
                /\ rq'[t].id = pg.id
                /\ rq'[t].page = pg
<1>m. /\ rq[t] \in Request
      /\ \A r : Become(t, r) => rq'[t] = r
      /\ \A label : Goto(t, label) => rq'[t].pc = label /\ Stays(t)
      /\ Return(t) => rq'[t].pc = "idle"
      /\ Throw(t) => rq'[t].pc = "threw"
  BY Moved
<1>1. ASSUME NEW pg \in FindPagesContainingTag(HomepageTag),
             Become(t, [rq[t] EXCEPT !.pc = "home:content", !.id = pg.id, !.page = pg])
      PROVE  /\ rq'[t].pc = "home:content"
             /\ rq'[t].id = pg.id
             /\ rq'[t].page = pg
  <2>1. rq'[t] = [rq[t] EXCEPT !.pc = "home:content", !.id = pg.id, !.page = pg]
    BY <1>1, <1>m
  <2> QED
    BY <2>1, <1>m DEF Request
<1> QED
  BY <1>1, <1>m DEF HomePageAny, At

LEMMA HomePageContentMoves ==
    ASSUME TypeOK, NEW t \in Threads, HomePageContent(t)
    PROVE  \/ rq'[t].pc = "threw"
           \/ \E c \in GetLatestPageContent(rq[t].id) :
                /\ rq'[t].pc = "home:cache"
                /\ rq'[t].id = rq[t].id
                /\ rq'[t].page = rq[t].page
                /\ rq'[t].view = ViewOf(rq[t].page, c)
<1>m. /\ rq[t] \in Request
      /\ \A r : Become(t, r) => rq'[t] = r
      /\ \A label : Goto(t, label) => rq'[t].pc = label /\ Stays(t)
      /\ Return(t) => rq'[t].pc = "idle"
      /\ Throw(t) => rq'[t].pc = "threw"
  BY Moved
<1>1. ASSUME NEW c \in GetLatestPageContent(rq[t].id),
             Become(t, [rq[t] EXCEPT !.pc = "home:cache", !.view = ViewOf(rq[t].page, c)])
      PROVE  /\ rq'[t].pc = "home:cache"
             /\ rq'[t].id = rq[t].id
             /\ rq'[t].page = rq[t].page
             /\ rq'[t].view = ViewOf(rq[t].page, c)
  <2>1. rq'[t] = [rq[t] EXCEPT !.pc = "home:cache", !.view = ViewOf(rq[t].page, c)]
    BY <1>1, <1>m
  <2> QED
    BY <2>1, <1>m DEF Request
<1> QED
  BY <1>1, <1>m DEF HomePageContent, At

LEMMA ListPagesMoves ==
    ASSUME TypeOK, NEW t \in Threads, ListPages(t)
    PROVE  /\ rq'[t].key = rq[t].key
           /\ \/ /\ WithContent(rq[t].key)
                 /\ rq'[t].pc = "list:contents"
                 /\ rq'[t].todo = ListedPages(rq[t].key)
                 /\ rq'[t].views = rq[t].views
              \/ /\ ~WithContent(rq[t].key)
                 /\ rq'[t].pc = "list:cache"
                 /\ rq'[t].views = {PageOnly(pg) : pg \in pages}
                 /\ rq'[t].todo = rq[t].todo
<1>m. /\ rq[t] \in Request
      /\ \A r : Become(t, r) => rq'[t] = r
  BY Moved
<1>1. CASE WithContent(rq[t].key)
  <2>1. rq'[t] = [rq[t] EXCEPT !.pc = "list:contents", !.todo = ListedPages(rq[t].key)]
    BY <1>m, <1>1 DEF ListPages
  <2> QED
    BY <1>m, <1>1, <2>1 DEF Request
<1>2. CASE ~WithContent(rq[t].key)
  <2>1. rq'[t] = [rq[t] EXCEPT !.pc = "list:cache", !.views = {PageOnly(pg) : pg \in pages}]
    BY <1>m, <1>2 DEF ListPages
  <2> QED
    BY <1>m, <1>2, <2>1 DEF Request
<1> QED
  BY <1>1, <1>2

LEMMA ListContentMoves ==
    ASSUME TypeOK, NEW t \in Threads, ListContent(t)
    PROVE  \/ rq'[t].pc = "threw"
           \/ rq[t].todo = {} /\ rq'[t].pc = "list:cache" /\ Stays(t)
           \/ \E pg \in rq[t].todo : \E c \in GetLatestPageContent(pg.id) :
                /\ rq'[t].pc = rq[t].pc
                /\ rq'[t].key = rq[t].key
                /\ rq'[t].todo = rq[t].todo \ {pg}
                /\ rq'[t].views = rq[t].views \cup {ViewOf(pg, c)}
<1>m. /\ rq[t] \in Request
      /\ \A r : Become(t, r) => rq'[t] = r
      /\ \A label : Goto(t, label) => rq'[t].pc = label /\ Stays(t)
      /\ Return(t) => rq'[t].pc = "idle"
      /\ Throw(t) => rq'[t].pc = "threw"
  BY Moved
<1>1. ASSUME NEW pg \in rq[t].todo, NEW c \in GetLatestPageContent(pg.id),
             Become(t, [rq[t] EXCEPT !.todo = @ \ {pg}, !.views = @ \cup {ViewOf(pg, c)}])
      PROVE  /\ rq'[t].pc = rq[t].pc
             /\ rq'[t].key = rq[t].key
             /\ rq'[t].todo = rq[t].todo \ {pg}
             /\ rq'[t].views = rq[t].views \cup {ViewOf(pg, c)}
  <2>1. rq'[t] = [rq[t] EXCEPT !.todo = @ \ {pg}, !.views = @ \cup {ViewOf(pg, c)}]
    BY <1>1, <1>m
  <2> QED
    BY <2>1, <1>m DEF Request
<1> QED
  BY <1>1, <1>m DEF ListContent, At

LEMMA ListCacheAddMoves ==
    ASSUME TypeOK, NEW t \in Threads, ListCacheAdd(t)
    PROVE  \/ rq'[t].pc = "idle"
           \/ /\ rq'[t].pc = "tag:next"
              /\ rq'[t].views = {}
              /\ rq'[t].todo = {v.page : v \in rq[t].views}
<1>m. /\ rq[t] \in Request
      /\ \A r : Become(t, r) => rq'[t] = r
      /\ Return(t) => rq'[t].pc = "idle"
  BY Moved
<1>1. CASE rq[t].op = "renametag"
  <2>1. rq'[t] = [rq[t] EXCEPT !.pc = "tag:next", !.views = {},
                               !.todo = {v.page : v \in rq[t].views}]
    BY <1>m, <1>1 DEF ListCacheAdd
  <2> QED
    BY <1>m, <2>1 DEF Request
<1>2. CASE rq[t].op # "renametag"
  BY <1>m, <1>2 DEF ListCacheAdd
<1> QED
  BY <1>1, <1>2

LEMMA ComparePreviousMoves ==
    ASSUME TypeOK, NEW t \in Threads, ComparePrevious(t)
    PROVE  \/ rq'[t].pc = "idle"
           \/ \E c \in GetPageContentByPageIdAndVersionNumber(rq[t].id, rq[t].ver) :
                /\ rq'[t].pc = "cmp:cache"
                /\ rq'[t].id = rq[t].id
                /\ rq'[t].ver = rq[t].ver
                /\ rq'[t].view = ViewOf(rq[t].page, c)
<1>m. /\ rq[t] \in Request
      /\ \A r : Become(t, r) => rq'[t] = r
      /\ \A label : Goto(t, label) => rq'[t].pc = label /\ Stays(t)
      /\ Return(t) => rq'[t].pc = "idle"
      /\ Throw(t) => rq'[t].pc = "threw"
  BY Moved
<1>1. ASSUME NEW c \in GetPageContentByPageIdAndVersionNumber(rq[t].id, rq[t].ver),
             Become(t, [rq[t] EXCEPT !.pc = "cmp:cache", !.view = ViewOf(rq[t].page, c)])
      PROVE  /\ rq'[t].pc = "cmp:cache"
             /\ rq'[t].id = rq[t].id
             /\ rq'[t].ver = rq[t].ver
             /\ rq'[t].view = ViewOf(rq[t].page, c)
  <2>1. rq'[t] = [rq[t] EXCEPT !.pc = "cmp:cache", !.view = ViewOf(rq[t].page, c)]
    BY <1>1, <1>m
  <2> QED
    BY <2>1, <1>m DEF Request
<1> QED
  BY <1>1, <1>m DEF ComparePrevious, At

LEMMA RevertMaxVersionMoves ==
    ASSUME TypeOK, NEW t \in Threads, RevertMaxVersion(t)
    PROVE  \/ rq'[t].pc = "threw"
           \/ \E c \in GetLatestPageContent(rq[t].id) :
                /\ rq'[t].pc = "rev:time"
                /\ rq'[t].id = rq[t].id
                /\ rq'[t].view = rq[t].view
                /\ rq'[t].ver = c.version + 1
<1>m. /\ rq[t] \in Request
      /\ \A r : Become(t, r) => rq'[t] = r
      /\ \A label : Goto(t, label) => rq'[t].pc = label /\ Stays(t)
      /\ Return(t) => rq'[t].pc = "idle"
      /\ Throw(t) => rq'[t].pc = "threw"
  BY Moved
<1>1. ASSUME NEW c \in GetLatestPageContent(rq[t].id),
             Become(t, [rq[t] EXCEPT !.pc = "rev:time", !.ver = c.version + 1])
      PROVE  /\ rq'[t].pc = "rev:time"
             /\ rq'[t].id = rq[t].id
             /\ rq'[t].view = rq[t].view
             /\ rq'[t].ver = c.version + 1
  <2>1. rq'[t] = [rq[t] EXCEPT !.pc = "rev:time", !.ver = c.version + 1]
    BY <1>1, <1>m
  <2> QED
    BY <2>1, <1>m DEF Request
<1> QED
  BY <1>1, <1>m DEF RevertMaxVersion, At

LEMMA UpdatePageMaxVersionMoves ==
    ASSUME TypeOK, NEW t \in Threads, UpdatePageMaxVersion(t)
    PROVE  \/ rq'[t].pc = "threw" /\ GetLatestPageContent(rq[t].id) = {}
           \/ \E c \in GetLatestPageContent(rq[t].id) :
                /\ rq'[t].pc = "upd:time"
                /\ rq'[t].id = rq[t].id
                /\ rq'[t].model = rq[t].model
                /\ rq'[t].prev = rq[t].prev
                /\ rq'[t].page = rq[t].page
                /\ rq'[t].todo = rq[t].todo
                /\ rq'[t].views = rq[t].views
                /\ rq'[t].ver = c.version + 1
<1>m. /\ rq[t] \in Request
      /\ \A r : Become(t, r) => rq'[t] = r
      /\ \A label : Goto(t, label) => rq'[t].pc = label /\ Stays(t)
      /\ Return(t) => rq'[t].pc = "idle"
      /\ Throw(t) => rq'[t].pc = "threw"
  BY Moved
<1>1. ASSUME NEW c \in GetLatestPageContent(rq[t].id),
             Become(t, [rq[t] EXCEPT !.pc = "upd:time", !.ver = c.version + 1])
      PROVE  /\ rq'[t].pc = "upd:time"
             /\ rq'[t].id = rq[t].id
             /\ rq'[t].model = rq[t].model
             /\ rq'[t].prev = rq[t].prev
             /\ rq'[t].page = rq[t].page
             /\ rq'[t].todo = rq[t].todo
             /\ rq'[t].views = rq[t].views
             /\ rq'[t].ver = c.version + 1
  <2>1. rq'[t] = [rq[t] EXCEPT !.pc = "upd:time", !.ver = c.version + 1]
    BY <1>1, <1>m
  <2> QED
    BY <2>1, <1>m DEF Request
<1> QED
  BY <1>1, <1>m DEF UpdatePageMaxVersion, At

LEMMA TakeTimeMoves ==
    ASSUME TypeOK, NEW t \in Threads, NEW label, NEW on,
           Become(t, [rq[t] EXCEPT !.pc = label, !.on = on])
    PROVE  rq'[t].pc = label /\ Stays(t) /\ rq'[t].on = on
<1>m. /\ rq[t] \in Request
      /\ \A r : Become(t, r) => rq'[t] = r
  BY Moved
<1>1. rq'[t] = [rq[t] EXCEPT !.pc = label, !.on = on]
  BY <1>m
<1> QED
  BY <1>1, <1>m DEF Request, Stays

LEMMA RevertTakeTimeMoves ==
    ASSUME TypeOK, NEW t \in Threads, RevertTakeTime(t)
    PROVE  /\ rq[t].pc = "rev:time" /\ rq'[t].pc = "rev:insert" /\ Stays(t)
           /\ rq'[t].on = clock' /\ clock' \in UtcNow /\ UNCHANGED rows
           /\ UNCHANGED <<caches, index>>
<1>1. PICK on \in UtcNow : /\ TakeTime(on)
                          /\ Become(t, [rq[t] EXCEPT !.pc = "rev:insert", !.on = on])
  BY DEF RevertTakeTime
<1>2. rq'[t].pc = "rev:insert" /\ Stays(t) /\ rq'[t].on = on
  BY <1>1, TakeTimeMoves
<1> QED
  BY <1>1, <1>2 DEF RevertTakeTime, TakeTime, At

LEMMA UpdatePageTakeTimeMoves ==
    ASSUME TypeOK, NEW t \in Threads, UpdatePageTakeTime(t)
    PROVE  /\ rq[t].pc = "upd:time" /\ rq'[t].pc = "upd:insert" /\ Stays(t)
           /\ rq'[t].on = clock' /\ clock' \in UtcNow /\ UNCHANGED rows
           /\ UNCHANGED <<caches, index>>
<1>1. PICK on \in UtcNow : /\ TakeTime(on)
                          /\ Become(t, [rq[t] EXCEPT !.pc = "upd:insert", !.on = on])
  BY DEF UpdatePageTakeTime
<1>2. rq'[t].pc = "upd:insert" /\ Stays(t) /\ rq'[t].on = on
  BY <1>1, TakeTimeMoves
<1> QED
  BY <1>1, <1>2 DEF UpdatePageTakeTime, TakeTime, At

LEMMA UpdatePageLoadMoves ==
    ASSUME TypeOK, NEW t \in Threads, UpdatePageLoad(t)
    PROVE  \/ rq'[t].pc = "threw" /\ GetPageById(rq[t].id) = {}
           \/ \E pg \in GetPageById(rq[t].id) :
                /\ rq'[t].pc = "upd:save"
                /\ rq'[t].id = rq[t].id
                /\ rq'[t].model = rq[t].model
                /\ rq'[t].prev = rq[t].prev
                /\ rq'[t].todo = rq[t].todo
                /\ rq'[t].views = rq[t].views
                /\ rq'[t].page.id = pg.id
                /\ rq'[t].page.title = rq[t].model.page.title
                /\ rq'[t].page.tags = rq[t].model.page.tags
<1>m. /\ rq[t] \in Request
      /\ \A r : Become(t, r) => rq'[t] = r
      /\ \A label : Goto(t, label) => rq'[t].pc = label /\ Stays(t)
      /\ Return(t) => rq'[t].pc = "idle"
      /\ Throw(t) => rq'[t].pc = "threw"
  BY Moved
<1>1. ASSUME NEW pg \in GetPageById(rq[t].id),
             Become(t, [rq[t] EXCEPT !.pc = "upd:save", !.page = [rq[t].model.page EXCEPT
                          !.id = pg.id, !.createdBy = pg.createdBy,
                          !.locked = IF rq[t].admin THEN @ ELSE pg.locked]])
      PROVE  /\ rq'[t].pc = "upd:save"
             /\ rq'[t].id = rq[t].id
             /\ rq'[t].model = rq[t].model
             /\ rq'[t].prev = rq[t].prev
             /\ rq'[t].todo = rq[t].todo
             /\ rq'[t].views = rq[t].views
             /\ rq'[t].page.id = pg.id
             /\ rq'[t].page.title = rq[t].model.page.title
             /\ rq'[t].page.tags = rq[t].model.page.tags
  <2>1. rq'[t] = [rq[t] EXCEPT !.pc = "upd:save", !.page = [rq[t].model.page EXCEPT
                          !.id = pg.id, !.createdBy = pg.createdBy,
                          !.locked = IF rq[t].admin THEN @ ELSE pg.locked]]
    BY <1>1, <1>m
  <2>2. PICK page : page = [rq[t].model.page EXCEPT
                              !.id = pg.id, !.createdBy = pg.createdBy,
                              !.locked = IF rq[t].admin THEN @ ELSE pg.locked]
    OBVIOUS
  <2>3. page.id = pg.id /\ page.title = rq[t].model.page.title /\ page.tags = rq[t].model.page.tags
    <3>1. rq[t].model.page \in Page
      BY <1>m DEF Request, View
    <3> QED
      BY <2>2, <3>1 DEF Page
  <2>4. rq'[t] = [rq[t] EXCEPT !.pc = "upd:save", !.page = page]
    BY <2>1, <2>2
  <2> QED
    BY <2>3, <2>4, <1>m DEF Request
<1> QED
  BY <1>1, <1>m DEF UpdatePageLoad, At

LEMMA UpdatePageRereadMoves ==
    ASSUME TypeOK, NEW t \in Threads, UpdatePageReread(t)
    PROVE  \/ rq'[t].pc = "threw" /\ GetLatestPageContent(rq[t].id) = {}
           \/ \E c \in GetLatestPageContent(rq[t].id) :
                /\ rq'[t].pc = "upd:unindex"
                /\ rq'[t].id = rq[t].id
                /\ rq'[t].model = rq[t].model
                /\ rq'[t].prev = rq[t].prev
                /\ rq'[t].page = rq[t].page
                /\ rq'[t].todo = rq[t].todo
                /\ rq'[t].views = rq[t].views
                /\ rq'[t].view = ViewOf(rq[t].page, c)
<1>m. /\ rq[t] \in Request
      /\ \A r : Become(t, r) => rq'[t] = r
      /\ \A label : Goto(t, label) => rq'[t].pc = label /\ Stays(t)
      /\ Return(t) => rq'[t].pc = "idle"
      /\ Throw(t) => rq'[t].pc = "threw"
  BY Moved
<1>1. ASSUME NEW c \in GetLatestPageContent(rq[t].id),
             Become(t, [rq[t] EXCEPT !.pc = "upd:unindex", !.view = ViewOf(rq[t].page, c)])
      PROVE  /\ rq'[t].pc = "upd:unindex"
             /\ rq'[t].id = rq[t].id
             /\ rq'[t].model = rq[t].model
             /\ rq'[t].prev = rq[t].prev
             /\ rq'[t].page = rq[t].page
             /\ rq'[t].todo = rq[t].todo
             /\ rq'[t].views = rq[t].views
             /\ rq'[t].view = ViewOf(rq[t].page, c)
  <2>1. rq'[t] = [rq[t] EXCEPT !.pc = "upd:unindex", !.view = ViewOf(rq[t].page, c)]
    BY <1>1, <1>m
  <2> QED
    BY <2>1, <1>m DEF Request
<1> QED
  BY <1>1, <1>m DEF UpdatePageReread, At

LEMMA UpdateLinksReadMoves ==
    ASSUME TypeOK, NEW t \in Threads, UpdateLinksRead(t)
    PROVE  /\ rq'[t].id = rq[t].id
           /\ rq'[t].model = rq[t].model
           /\ rq'[t].prev = rq[t].prev
           /\ rq'[t].page = rq[t].page
           /\ rq'[t].todo = rq[t].todo
           /\ rq'[t].views = rq[t].views
           /\ rq'[t].rows = {c \in contents : rq[t].prev \in c.text.links}
           /\ \/ rq'[t].pc = "upd:latest" /\ rq'[t].rows = {}
              \/ rq'[t].pc = "upd:rewrite"
<1>m. /\ rq[t] \in Request
      /\ \A r : Become(t, r) => rq'[t] = r
  BY Moved
<1>1. PICK linking : linking = {c \in contents : rq[t].prev \in c.text.links}
  OBVIOUS
<1>2. rq'[t] = [rq[t] EXCEPT !.rows = linking,
                             !.pc = IF linking = {} THEN "upd:latest" ELSE "upd:rewrite"]
  BY <1>m, <1>1 DEF UpdateLinksRead
<1> QED
  BY <1>m, <1>1, <1>2 DEF Request

LEMMA UpdateLinksRewriteMoves ==
    ASSUME TypeOK, NEW t \in Threads, UpdateLinksRewrite(t)
    PROVE  \/ rq[t].rows = {} /\ rq'[t].pc = "upd:clearpages" /\ Stays(t) /\ UNCHANGED tables
           \/ \E c \in rq[t].rows :
                /\ rq'[t].pc = rq[t].pc
                /\ rq'[t].id = rq[t].id
                /\ rq'[t].model = rq[t].model
                /\ rq'[t].prev = rq[t].prev
                /\ rq'[t].page = rq[t].page
                /\ rq'[t].todo = rq[t].todo
                /\ rq'[t].views = rq[t].views
                /\ rq'[t].rows = rq[t].rows \ {c}
                /\ UpdatePageContent([c EXCEPT !.text = ReplacePageLinks(@,
                                    rq[t].prev, rq[t].model.page.title)])
<1>m. /\ rq[t] \in Request
      /\ \A r : Become(t, r) => rq'[t] = r
      /\ \A label : Goto(t, label) => rq'[t].pc = label /\ Stays(t)
      /\ Return(t) => rq'[t].pc = "idle"
      /\ Throw(t) => rq'[t].pc = "threw"
  BY Moved
<1>1. ASSUME NEW c \in rq[t].rows, Become(t, [rq[t] EXCEPT !.rows = @ \ {c}])
      PROVE  /\ rq'[t].pc = rq[t].pc
             /\ rq'[t].id = rq[t].id
             /\ rq'[t].model = rq[t].model
             /\ rq'[t].prev = rq[t].prev
             /\ rq'[t].page = rq[t].page
             /\ rq'[t].todo = rq[t].todo
             /\ rq'[t].views = rq[t].views
             /\ rq'[t].rows = rq[t].rows \ {c}
  <2>1. rq'[t] = [rq[t] EXCEPT !.rows = @ \ {c}]
    BY <1>1, <1>m
  <2> QED
    BY <2>1, <1>m DEF Request
<1> QED
  BY <1>1, <1>m DEF UpdateLinksRewrite, At

LEMMA DeletePageChildrenMoves ==
    ASSUME TypeOK, NEW t \in Threads, DeletePageChildren(t)
    PROVE  /\ rq'[t].pc = "del:contents"
           /\ rq'[t].id = rq[t].id
           /\ rq'[t].rows = FindPageContentsByPageId(rq[t].id)
<1>m. /\ rq[t] \in Request
      /\ \A r : Become(t, r) => rq'[t] = r
      /\ \A label : Goto(t, label) => rq'[t].pc = label /\ Stays(t)
      /\ Return(t) => rq'[t].pc = "idle"
      /\ Throw(t) => rq'[t].pc = "threw"
  BY Moved
<1>1. ASSUME Become(t, [rq[t] EXCEPT !.pc = "del:contents", !.rows = FindPageContentsByPageId(rq[t].id)])
      PROVE  /\ rq'[t].pc = "del:contents"
             /\ rq'[t].id = rq[t].id
             /\ rq'[t].rows = FindPageContentsByPageId(rq[t].id)
  <2>1. rq'[t] = [rq[t] EXCEPT !.pc = "del:contents", !.rows = FindPageContentsByPageId(rq[t].id)]
    BY <1>1, <1>m
  <2> QED
    BY <2>1, <1>m DEF Request
<1> QED
  BY <1>1, <1>m DEF DeletePageChildren, At

LEMMA DeletePageContentsMoves ==
    ASSUME TypeOK, NEW t \in Threads, DeletePageContents(t)
    PROVE  \/ rq[t].rows = {} /\ rq'[t].pc = "del:row" /\ Stays(t) /\ UNCHANGED tables
           \/ \E c \in rq[t].rows :
                /\ rq'[t].pc = rq[t].pc
                /\ rq'[t].id = rq[t].id
                /\ rq'[t].rows = rq[t].rows \ {c}
                /\ DeletePageContent(c)
<1>m. /\ rq[t] \in Request
      /\ \A r : Become(t, r) => rq'[t] = r
      /\ \A label : Goto(t, label) => rq'[t].pc = label /\ Stays(t)
      /\ Return(t) => rq'[t].pc = "idle"
      /\ Throw(t) => rq'[t].pc = "threw"
  BY Moved
<1>1. ASSUME NEW c \in rq[t].rows, Become(t, [rq[t] EXCEPT !.rows = @ \ {c}])
      PROVE  /\ rq'[t].pc = rq[t].pc
             /\ rq'[t].id = rq[t].id
             /\ rq'[t].rows = rq[t].rows \ {c}
  <2>1. rq'[t] = [rq[t] EXCEPT !.rows = @ \ {c}]
    BY <1>1, <1>m
  <2> QED
    BY <2>1, <1>m DEF Request
<1> QED
  BY <1>1, <1>m DEF DeletePageContents, At

LEMMA CreateIndexContentMoves ==
    ASSUME TypeOK, NEW t \in Threads, CreateIndexContent(t)
    PROVE  \/ rq'[t].pc = "threw" /\ IndexReplace(rq[t].views)
              /\ (DatabaseMayFail \/ \E pg \in rq[t].todo : GetLatestPageContent(pg.id) = {})
           \/ rq[t].todo = {} /\ rq'[t].pc = "idx:close" /\ Stays(t) /\ UNCHANGED index
           \/ \E pg \in rq[t].todo : \E c \in GetLatestPageContent(pg.id) :
                /\ rq'[t].pc = rq[t].pc
                /\ rq'[t].todo = rq[t].todo \ {pg}
                /\ rq'[t].views = rq[t].views \cup {ViewOf(pg, c)}
                /\ UNCHANGED index
<1>m. /\ rq[t] \in Request
      /\ \A r : Become(t, r) => rq'[t] = r
      /\ \A label : Goto(t, label) => rq'[t].pc = label /\ Stays(t)
      /\ Return(t) => rq'[t].pc = "idle"
      /\ Throw(t) => rq'[t].pc = "threw"
  BY Moved
<1>1. ASSUME NEW pg \in rq[t].todo, NEW c \in GetLatestPageContent(pg.id),
             Become(t, [rq[t] EXCEPT !.todo = @ \ {pg}, !.views = @ \cup {ViewOf(pg, c)}])
      PROVE  /\ rq'[t].pc = rq[t].pc
             /\ rq'[t].todo = rq[t].todo \ {pg}
             /\ rq'[t].views = rq[t].views \cup {ViewOf(pg, c)}
  <2>1. rq'[t] = [rq[t] EXCEPT !.todo = @ \ {pg}, !.views = @ \cup {ViewOf(pg, c)}]
    BY <1>1, <1>m
  <2> QED
    BY <2>1, <1>m DEF Request
<1> QED
  BY <1>1, <1>m DEF CreateIndexContent, At

LEMMA RenameTagNextMoves ==
    ASSUME TypeOK, NEW t \in Threads, RenameTagNext(t)
    PROVE  \/ rq'[t].pc = "threw"
           \/ rq[t].views = {} /\ rq[t].todo = {} /\ rq'[t].pc = "tag:done"
           \/ \E view \in rq[t].views :
                /\ rq'[t].pc = "tag:unindex"
                /\ rq'[t].id = view.page.id
                /\ rq'[t].prev = view.page.title
                /\ rq'[t].model = view
                /\ rq'[t].views = rq[t].views
                /\ rq'[t].todo = rq[t].todo
           \/ \E pg \in rq[t].todo : \E c \in GetLatestPageContent(pg.id) :
                /\ rq'[t].pc = "tag:unindex"
                /\ rq'[t].id = pg.id
                /\ rq'[t].prev = pg.title
                /\ rq'[t].model = ViewOf(pg, c)
                /\ rq'[t].views = rq[t].views
                /\ rq'[t].todo = rq[t].todo \ {pg}
<1>m. /\ rq[t] \in Request
      /\ \A r : Become(t, r) => rq'[t] = r
      /\ Goto(t, "tag:done") => rq'[t].pc = "tag:done"
      /\ Throw(t) => rq'[t].pc = "threw"
  BY Moved
<1>1. ASSUME NEW view \in rq[t].views, Become(t, NextRenamed(t, view))
      PROVE  /\ rq'[t].pc = "tag:unindex"
             /\ rq'[t].id = view.page.id
             /\ rq'[t].prev = view.page.title
             /\ rq'[t].model = view
             /\ rq'[t].views = rq[t].views
             /\ rq'[t].todo = rq[t].todo
  <2>1. rq'[t] = NextRenamed(t, view)
    BY <1>1, <1>m
  <2> QED
    BY <2>1, <1>m DEF NextRenamed, Request
<1>2. ASSUME NEW pg \in rq[t].todo, NEW c \in GetLatestPageContent(pg.id),
             Become(t, [NextRenamed(t, ViewOf(pg, c)) EXCEPT !.todo = @ \ {pg}])
      PROVE  /\ rq'[t].pc = "tag:unindex"
             /\ rq'[t].id = pg.id
             /\ rq'[t].prev = pg.title
             /\ rq'[t].model = ViewOf(pg, c)
             /\ rq'[t].views = rq[t].views
             /\ rq'[t].todo = rq[t].todo \ {pg}
  <2>1. rq'[t] = [NextRenamed(t, ViewOf(pg, c)) EXCEPT !.todo = @ \ {pg}]
    BY <1>2, <1>m
  <2>2. PICK view : view = ViewOf(pg, c)
    OBVIOUS
  <2>3. view.page = pg
    BY <2>2 DEF ViewOf
  <2>4. rq'[t] = [NextRenamed(t, view) EXCEPT !.todo = @ \ {pg}]
    BY <2>1, <2>2
  <2> QED
    BY <2>2, <2>3, <2>4, <1>m DEF NextRenamed, Request
<1> QED
  BY <1>1, <1>2, <1>m DEF RenameTagNext, RenameTagQueried

(* New tags leave the rest of the view alone. *)
LEMMA RetaggedKeeps ==
    ASSUME TypeOK, NEW t \in Threads
    PROVE  /\ Retagged(t).page.id = rq[t].model.page.id
           /\ Retagged(t).page.title = rq[t].model.page.title
           /\ Retagged(t).text = rq[t].model.text
<1>1. rq[t].model \in View /\ rq[t].model.page \in Page
  BY Moved DEF Request, View
<1> QED
  BY <1>1 DEF Retagged, View, Page

LEMMA RenameTagUnindexMoves ==
    ASSUME TypeOK, NEW t \in Threads, RenameTagUnindex(t)
    PROVE  \/ rq'[t].pc = "threw" /\ IndexThrows /\ UNCHANGED caches
           \/ /\ rq'[t].pc = "upd:page"
              /\ rq'[t].id = rq[t].id
              /\ rq'[t].prev = rq[t].prev
              /\ rq'[t].model.page.id = rq[t].model.page.id
              /\ rq'[t].model.page.title = rq[t].model.page.title
              /\ rq'[t].model.text = rq[t].model.text
              /\ rq'[t].views = rq[t].views \ {rq[t].model}
              /\ rq'[t].todo = rq[t].todo
              /\ IndexDelete(rq[t].id) \/ IndexIgnoresError
              /\ RetagCached(t)
<1>m. /\ rq[t] \in Request
      /\ \A r : Become(t, r) => rq'[t] = r
      /\ Throw(t) => rq'[t].pc = "threw"
  BY Moved
<1>r. PICK model : model = Retagged(t)
  OBVIOUS
<1>1. /\ model.page.id = rq[t].model.page.id
      /\ model.page.title = rq[t].model.page.title
      /\ model.text = rq[t].model.text
  BY <1>r, RetaggedKeeps
<1>2. ASSUME Become(t, [rq[t] EXCEPT !.pc = "upd:page", !.model = Retagged(t),
                                     !.views = @ \ {rq[t].model}])
      PROVE  /\ rq'[t].pc = "upd:page"
             /\ rq'[t].id = rq[t].id
             /\ rq'[t].prev = rq[t].prev
             /\ rq'[t].model = model
             /\ rq'[t].views = rq[t].views \ {rq[t].model}
             /\ rq'[t].todo = rq[t].todo
  <2>1. rq'[t] = [rq[t] EXCEPT !.pc = "upd:page", !.model = model,
                               !.views = @ \ {rq[t].model}]
    BY <1>2, <1>m, <1>r
  <2> QED
    BY <2>1, <1>m DEF Request
<1> QED
  BY <1>1, <1>2, <1>m DEF RenameTagUnindex

(* The first steps. *)

LEMMA ReadArrivals ==
    ASSUME TypeOK, NEW t \in Threads
    PROVE  /\ GetByIdMiss(t) => rq'[t].pc = "get:page"
           /\ HomePageMiss(t) =>
                \/ rq'[t].pc = "home:any"
                \/ /\ rq'[t].pc = "home:content"
                   /\ rq'[t].page \in pages
                   /\ rq'[t].id = rq'[t].page.id
           /\ ListMiss(t) => /\ rq'[t].pc = "list:pages"
                             /\ rq'[t].views = {} /\ rq'[t].todo = {}
           /\ CompareMiss(t) => rq'[t].pc = "cmp:previous" /\ rq'[t].ver # 0
<1>m. \A r : Begin(t, r) => rq'[t] = r
  BY Moved
<1>1. GetByIdMiss(t) => rq'[t].pc = "get:page"
  BY <1>m DEF GetByIdMiss, Idle
<1>2. ASSUME HomePageMiss(t)
      PROVE  \/ rq'[t].pc = "home:any"
             \/ /\ rq'[t].pc = "home:content"
                /\ rq'[t].page \in pages
                /\ rq'[t].id = rq'[t].page.id
  <2>1. CASE Begin(t, [Idle EXCEPT !.op = "home", !.pc = "home:any"])
    <3>1. rq'[t] = [Idle EXCEPT !.op = "home", !.pc = "home:any"]
      BY <2>1, <1>m
    <3> QED
      BY <3>1 DEF Idle
  <2>2. CASE \E pg \in LockedHomePages :
               Begin(t, [Idle EXCEPT !.op = "home", !.pc = "home:content",
                                     !.id = pg.id, !.page = pg])
    <3>1. PICK pg \in LockedHomePages :
            rq'[t] = [Idle EXCEPT !.op = "home", !.pc = "home:content",
                                  !.id = pg.id, !.page = pg]
      BY <2>2, <1>m
    <3>2. pg \in pages
      BY DEF LockedHomePages, FindPagesContainingTag
    <3> QED
      BY <3>1, <3>2 DEF Idle
  <2> QED
    BY <1>2, <2>1, <2>2 DEF HomePageMiss
<1>3. ASSUME ListMiss(t)
      PROVE  rq'[t].pc = "list:pages" /\ rq'[t].views = {} /\ rq'[t].todo = {}
  BY <1>3, <1>m DEF ListMiss, Idle
<1>4. ASSUME CompareMiss(t)
      PROVE  rq'[t].pc = "cmp:previous" /\ rq'[t].ver # 0
  <2>1. PICK c \in contents : \E pg \in GetPageById(c.pageId) :
          /\ c.version # 1
          /\ Begin(t, [Idle EXCEPT !.op = "compare", !.pc = "cmp:previous",
                                   !.id = c.pageId, !.page = pg,
                                   !.ver = c.version - 1])
    BY <1>4 DEF CompareMiss
  <2>2. c.version \in Nat \ {0, 1}
    BY <2>1 DEF TypeOK, TablesTypeOK, PageContent
  <2>3. PICK pg : rq'[t] = [Idle EXCEPT !.op = "compare", !.pc = "cmp:previous",
                                        !.id = c.pageId, !.page = pg,
                                        !.ver = c.version - 1]
    BY <1>m, <2>1
  <2>4. c.version - 1 # 0
    BY <2>2
  <2> QED
    BY <2>3, <2>4 DEF Idle
<1> QED
  BY <1>1, <1>2, <1>3, <1>4

LEMMA AddPageRowMoves ==
    ASSUME TypeOK, NEW t \in Threads, AddPageRow(t)
    PROVE  \E page \in Page, text \in TypedTexts :
              /\ rq'[t].pc = "add:content"
              /\ rq'[t].id = nextPage
              /\ rq'[t].model = [page |-> page, text |-> text, version |-> 1]
              /\ page.id = nextPage
              /\ nextPage \in PageIds
              /\ pages' = pages \cup {page}
              /\ nextPage' = nextPage + 1
              /\ rq'[t].on = clock' /\ clock' \in UtcNow
              /\ UNCHANGED <<contents, nextRow>>
<1>m. \A r : Begin(t, r) => rq'[t] = r
  BY Moved
<1>1. PICK title \in Titles, tags \in NewTags, user \in Users, text \in TypedTexts,
           locked \in {FALSE} \cup Admins, on \in UtcNow :
        InsertNewPage(t, [id |-> nextPage, title |-> title, tags |-> tags,
                          locked |-> locked, createdBy |-> user], text, on)
  BY DEF AddPageRow
<1>2. PICK page : page = [id |-> nextPage, title |-> title, tags |-> tags,
                          locked |-> locked, createdBy |-> user]
  OBVIOUS
<1>3. nextPage \in PageIds
  BY DEF AddPageRow, TypeOK, TablesTypeOK, PageIds
<1>4. page \in Page /\ page.id = nextPage
  BY <1>2, <1>3, ServiceAssumption DEF Page
<1>5. InsertNewPage(t, page, text, on)
  BY <1>1, <1>2
<1>6. [page EXCEPT !.id = nextPage] = page
  BY <1>4 DEF Page
<1>7. InsertPage(page) /\ rq'[t] = [Idle EXCEPT !.op = "add", !.pc = "add:content",
                             !.on = on, !.id = nextPage, !.page = page,
                             !.model = [page |-> page, text |-> text,
                                        version |-> 1]]
  BY <1>5, <1>m DEF InsertNewPage
<1>8. /\ rq'[t].pc = "add:content"
      /\ rq'[t].id = nextPage
      /\ rq'[t].model = [page |-> page, text |-> text, version |-> 1]
      /\ rq'[t].on = on
  BY <1>7 DEF Idle
<1>9. clock' = on
  BY <1>5 DEF InsertNewPage, TakeTime
<1> QED
  BY <1>3, <1>4, <1>6, <1>7, <1>8, <1>9 DEF InsertPage

LEMMA UpdateFormMoves ==
    ASSUME TypeOK, NEW t \in Threads, UpdateForm(t)
    PROVE  \E form \in forms :
              /\ rq'[t].pc = "upd:page"
              /\ rq'[t].id = form.view.page.id
              /\ rq'[t].prev = form.view.page.title
              /\ rq'[t].model \in Edited(form.view, form.admin)
              /\ rq'[t].views = {} /\ rq'[t].todo = {}
              /\ outdated' = (outdated \/ ~UpToDate(form.view))
<1>m. \A r : Begin(t, r) => rq'[t] = r
  BY Moved
<1>1. PICK form \in forms :
        \E model \in Edited(form.view, form.admin) :
           /\ Begin(t, [Idle EXCEPT
                !.op = "update", !.pc = "upd:page", !.id = form.view.page.id,
                !.admin = form.admin, !.prev = form.view.page.title, !.model = model])
           /\ outdated' = (outdated \/ ~UpToDate(form.view))
  BY DEF UpdateForm
<1>2. PICK model \in Edited(form.view, form.admin) :
           /\ rq'[t] = [Idle EXCEPT
                !.op = "update", !.pc = "upd:page", !.id = form.view.page.id,
                !.admin = form.admin, !.prev = form.view.page.title, !.model = model]
           /\ outdated' = (outdated \/ ~UpToDate(form.view))
  BY <1>1, <1>m
<1>3. /\ rq'[t].pc = "upd:page"
      /\ rq'[t].id = form.view.page.id
      /\ rq'[t].prev = form.view.page.title
      /\ rq'[t].model = model
      /\ rq'[t].views = {} /\ rq'[t].todo = {}
  BY <1>2 DEF Idle
<1> QED
  BY <1>2, <1>3

LEMMA RevertVersionMoves ==
    ASSUME TypeOK, NEW t \in Threads, RevertVersion(t)
    PROVE  \E c \in contents : \E pg \in GetPageById(c.pageId) :
              /\ rq'[t].pc = "rev:max"
              /\ rq'[t].id = c.pageId
              /\ rq'[t].view = ViewOf(pg, c)
              /\ "revert" \in Ops
<1>m. \A r : Begin(t, r) => rq'[t] = r /\ r.op \in Ops
  BY Moved
<1>1. PICK c \in contents : \E pg \in GetPageById(c.pageId) :
        Begin(t, [Idle EXCEPT !.op = "revert", !.pc = "rev:max", !.id = c.pageId,
                              !.page = pg, !.view = ViewOf(pg, c)])
  BY DEF RevertVersion
<1>2. PICK pg \in GetPageById(c.pageId) :
        Begin(t, [Idle EXCEPT !.op = "revert", !.pc = "rev:max", !.id = c.pageId,
                              !.page = pg, !.view = ViewOf(pg, c)])
  BY <1>1
<1>3. /\ rq'[t] = [Idle EXCEPT !.op = "revert", !.pc = "rev:max", !.id = c.pageId,
                              !.page = pg, !.view = ViewOf(pg, c)]
      /\ rq'[t].op \in Ops
  BY <1>2, <1>m
<1>4. /\ rq'[t].pc = "rev:max"
      /\ rq'[t].id = c.pageId
      /\ rq'[t].view = ViewOf(pg, c)
      /\ rq'[t].op = "revert"
  BY <1>3 DEF Idle
<1> QED
  BY <1>3, <1>4

LEMMA RenameTagFindMoves ==
    ASSUME TypeOK, NEW t \in Threads, RenameTagFind(t)
    PROVE  /\ rq'[t].todo = {}
           /\ \/ rq'[t].pc = "list:pages" /\ rq'[t].views = {}
              \/ /\ rq'[t].pc = "tag:next"
                 /\ \E e \in listCache : /\ e.key.list = "pagesbytag"
                                         /\ rq'[t].views = e.views
<1>m. \A r : Begin(t, r) => rq'[t] = r
  BY Moved
<1>1. PICK old \in Tags, new \in Tags :
         LET key == TagListKey(old)
             request == [Idle EXCEPT !.op = "renametag", !.key = key,
                                     !.newTag = new, !.admin = TRUE]
         IN \/ Begin(t, [request EXCEPT !.pc = "list:pages"])
            \/ \E e \in CachedList(key) :
                 Begin(t, [request EXCEPT !.pc = "tag:next", !.views = e.views])
  BY DEF RenameTagFind
<1> DEFINE request == [Idle EXCEPT !.op = "renametag", !.key = TagListKey(old),
                                   !.newTag = new, !.admin = TRUE]
<1>2. CASE Begin(t, [request EXCEPT !.pc = "list:pages"])
  <2>1. rq'[t] = [request EXCEPT !.pc = "list:pages"]
    BY <1>2, <1>m
  <2> QED
    BY <2>1 DEF Idle
<1>3. CASE \E e \in CachedList(TagListKey(old)) :
             Begin(t, [request EXCEPT !.pc = "tag:next", !.views = e.views])
  <2>1. PICK e \in CachedList(TagListKey(old)) :
          Begin(t, [request EXCEPT !.pc = "tag:next", !.views = e.views])
    BY <1>3
  <2>2. rq'[t] = [request EXCEPT !.pc = "tag:next", !.views = e.views]
    BY <2>1, <1>m
  <2>3. rq'[t].pc = "tag:next" /\ rq'[t].views = e.views /\ rq'[t].todo = {}
    BY <2>2 DEF Idle
  <2>4. e \in listCache /\ e.key.list = "pagesbytag"
    BY DEF CachedList, LookupKey, TagListKey
  <2> QED
    BY <2>3, <2>4
<1> QED
  BY <1>1, <1>2, <1>3

LEMMA OtherArrivals ==
    ASSUME TypeOK, NEW t \in Threads
    PROVE  /\ DeletePageLoad(t) => rq'[t].pc = "del:latest" /\ "delete" \in Ops
           /\ ClearPagesRows(t) =>
                \/ /\ rq'[t].pc = "clr:contents" /\ "clear" \in Ops
                   /\ DeleteAllPageRows
                \/ rq'[t].pc = "threw" /\ UNCHANGED tables
           /\ ClearCachePages(t) => rq'[t].pc = "cache:lists"
           /\ CreateIndexPages(t) =>
                \/ /\ rq'[t].pc = "idx:contents"
                   /\ rq'[t].views = {} /\ rq'[t].todo = pages
                   /\ IndexOpen
                \/ rq'[t].pc = "threw" /\ IndexFails
<1>m. \A r : Begin(t, r) => rq'[t] = r /\ r.op \in Ops
  BY Moved
<1>1. ASSUME DeletePageLoad(t)
      PROVE  rq'[t].pc = "del:latest" /\ "delete" \in Ops
  <2>1. PICK pg \in pages :
          Begin(t, [Idle EXCEPT !.op = "delete", !.pc = "del:latest", !.id = pg.id])
    BY <1>1 DEF DeletePageLoad
  <2>2. /\ rq'[t] = [Idle EXCEPT !.op = "delete", !.pc = "del:latest", !.id = pg.id]
        /\ rq'[t].op \in Ops
    BY <1>m, <2>1
  <2>3. rq'[t].pc = "del:latest" /\ rq'[t].op = "delete"
    BY <2>2 DEF Idle
  <2> QED
    BY <2>2, <2>3
<1>2. ASSUME ClearPagesRows(t)
      PROVE  \/ /\ rq'[t].pc = "clr:contents" /\ "clear" \in Ops
                /\ DeleteAllPageRows
             \/ rq'[t].pc = "threw" /\ UNCHANGED tables
  <2>1. PICK label : label = IF MayDeleteAllPages THEN "clr:contents" ELSE "threw"
    OBVIOUS
  <2>2. Begin(t, [Idle EXCEPT !.op = "clear", !.pc = label])
    BY <1>2, <2>1 DEF ClearPagesRows
  <2>3. /\ rq'[t] = [Idle EXCEPT !.op = "clear", !.pc = label]
        /\ rq'[t].op \in Ops
    BY <1>m, <2>2
  <2>4. rq'[t].pc = label /\ rq'[t].op = "clear"
    BY <2>3 DEF Idle
  <2>5. IF MayDeleteAllPages THEN DeleteAllPageRows ELSE UNCHANGED tables
    BY <1>2 DEF ClearPagesRows
  <2> QED
    BY <2>1, <2>3, <2>4, <2>5
<1>3. ASSUME ClearCachePages(t)
      PROVE  rq'[t].pc = "cache:lists"
  <2>1. rq'[t] = [Idle EXCEPT !.op = "clearcache", !.pc = "cache:lists"]
    BY <1>m, <1>3 DEF ClearCachePages
  <2> QED
    BY <2>1 DEF Idle
<1>4. ASSUME CreateIndexPages(t)
      PROVE  \/ /\ rq'[t].pc = "idx:contents"
                /\ rq'[t].views = {} /\ rq'[t].todo = pages
                /\ IndexOpen
             \/ rq'[t].pc = "threw" /\ IndexFails
  <2>1. \/ /\ IndexOpen
           /\ rq'[t] = [Idle EXCEPT !.op = "createindex", !.pc = "idx:contents",
                                    !.todo = pages]
        \/ /\ IndexFails
           /\ rq'[t] = [Idle EXCEPT !.op = "createindex", !.pc = "threw"]
    BY <1>m, <1>4 DEF CreateIndexPages
  <2> QED
    BY <2>1 DEF Idle
<1> QED
  BY <1>1, <1>2, <1>3, <1>4

LEMMA ArriveIdle ==
    ASSUME TypeOK, NEW t \in Threads, Arrives(t)
    PROVE  rq[t].pc \in {"idle", "threw"}
<1>1. \A r : Begin(t, r) => rq[t].pc \in {"idle", "threw"}
  BY DEF Begin
<1>2. AddPageRow(t) \/ ClearPagesRows(t) => rq[t].pc \in {"idle", "threw"}
  BY <1>1 DEF AddPageRow, InsertNewPage, ClearPagesRows
<1>3. UpdateForm(t) \/ RevertVersion(t) \/ RenameTagFind(t) => rq[t].pc \in {"idle", "threw"}
  BY <1>1 DEF UpdateForm, RevertVersion, RenameTagFind
<1>4. GetByIdMiss(t) \/ HomePageMiss(t) \/ ListMiss(t) \/ CompareMiss(t)
        => rq[t].pc \in {"idle", "threw"}
  BY <1>1 DEF GetByIdMiss, HomePageMiss, ListMiss, CompareMiss
<1>5. DeletePageLoad(t) \/ ClearCachePages(t) \/ CreateIndexPages(t)
        => rq[t].pc \in {"idle", "threw"}
  BY <1>1 DEF DeletePageLoad, ClearCachePages, CreateIndexPages
<1> QED
  BY <1>2, <1>3, <1>4, <1>5 DEF Arrives, Arrive

-----------------------------------------------------------------------------
(* Where the reading requests are. *)

Passes(t, from, to) == In(t, from) /\ In(t, to)'

ReadLabels ==
    {"get:page", "get:content", "get:cache", "home:any", "home:content",
     "home:cache", "list:pages", "list:contents", "list:cache", "cmp:previous",
     "cmp:cache"}

LEMMA ReadOnPasses ==
    ASSUME TypeOK, NEW t \in Threads, ReadOn(t)
    PROVE  /\ Passes(t, ReadLabels, ReadLabels \cup {"idle", "threw", "tag:next"})
           /\ UNCHANGED <<tables, index>>
<1> USE DEF Passes, In, ReadLabels, At
<1>m. Return(t) => rq'[t].pc = "idle"
  BY Moved
<1>1. CASE GetByIdPage(t)
  BY <1>1, GetByIdPageMoves DEF GetByIdPage
<1>2. CASE GetByIdContent(t)
  BY <1>2, GetByIdContentMoves DEF GetByIdContent
<1>3. CASE GetByIdCache(t)
  BY <1>3, <1>m DEF GetByIdCache
<1>4. CASE HomePageAny(t)
  BY <1>4, HomePageAnyMoves DEF HomePageAny
<1>5. CASE HomePageContent(t)
  BY <1>5, HomePageContentMoves DEF HomePageContent
<1>6. CASE HomePageCache(t)
  BY <1>6, <1>m DEF HomePageCache
<1>7. CASE ListPages(t)
  BY <1>7, ListPagesMoves DEF ListPages
<1>8. CASE ListContent(t)
  BY <1>8, ListContentMoves DEF ListContent
<1>9. CASE ListCacheAdd(t)
  BY <1>9, ListCacheAddMoves DEF ListCacheAdd
<1>10. CASE ComparePrevious(t)
  BY <1>10, ComparePreviousMoves DEF ComparePrevious
<1>11. CASE CompareCache(t)
  BY <1>11, <1>m DEF CompareCache
<1> QED
  BY <1>1, <1>2, <1>3, <1>4, <1>5, <1>6, <1>7, <1>8, <1>9, <1>10, <1>11 DEF ReadOn

LEMMA TheThread ==
    ASSUME Serial, NEW t \in Threads
    PROVE  \A s \in Threads : s = t
BY DEF Serial

-----------------------------------------------------------------------------
(* What a call does to the order of the keys and versions. *)

HasLatest(p) == GetLatestPageContent(p) # {}

LEMMA RowFacts ==
    ASSUME TypeOK, KeysInOrder
    PROVE  /\ nextRow \in Nat /\ clock \in Nat /\ nextPage \in Nat
           /\ \A c \in contents : /\ c.id \in Nat /\ c.version \in Nat \ {0}
                                  /\ c.editedOn \in Nat /\ c.pageId \in Nat
                                  /\ c.id < nextRow /\ c.editedOn <= clock
                                  /\ c.pageId < nextPage
           /\ \A pg \in pages : pg.id \in Nat /\ pg.id < nextPage
BY DEF TypeOK, TablesTypeOK, KeysInOrder, PageContent, Page, PageIds

LEMMA NewRow ==
    ASSUME NEW p, NEW v, NEW text, NEW on, InsertContent(p, v, text, on)
    PROVE  \E row : /\ row.id = nextRow /\ row.pageId = p /\ row.version = v
                    /\ row.text = text /\ row.editedOn = on
                    /\ contents' = contents \cup {row}
                    /\ nextRow' = nextRow + 1
                    /\ UNCHANGED <<pages, nextPage, clock>>
<1>1. PICK row : row = [id |-> nextRow, pageId |-> p, version |-> v, text |-> text,
                        editedOn |-> on]
  OBVIOUS
<1> QED
  BY <1>1 DEF InsertContent

(* The clock stands at the time that the only request has taken.           *)
LEMMA NewRowNow ==
    ASSUME NEW p, NEW v, NEW text, InsertContent(p, v, text, clock)
    PROVE  \E row : /\ row.id = nextRow /\ row.pageId = p /\ row.version = v
                    /\ row.text = text /\ row.editedOn = clock
                    /\ contents' = contents \cup {row}
                    /\ nextRow' = nextRow + 1
                    /\ UNCHANGED <<pages, nextPage, clock>>
<1>1. PICK on : on = clock
  OBVIOUS
<1>2. InsertContent(p, v, text, on)
  BY <1>1
<1> QED
  BY <1>1, <1>2, NewRow

LEMMA InsertedInOrder ==
    ASSUME TypeOK, KeysInOrder, NEW p, There(p), NEW v, NEW text,
           InsertContent(p, v, text, clock)
    PROVE  /\ KeysInOrder'
           /\ HasLatest(p)'
           /\ \A q : q # p => GetLatestPageContent(q)' = GetLatestPageContent(q)
<1>1. PICK row : /\ row.id = nextRow /\ row.pageId = p /\ row.editedOn = clock
                 /\ contents' = contents \cup {row}
                 /\ nextRow' = nextRow + 1
                 /\ UNCHANGED <<pages, nextPage, clock>>
  BY NewRowNow
<1>2. /\ nextRow \in Nat /\ clock \in Nat /\ nextPage \in Nat
      /\ \A c \in contents : /\ c.id \in Nat /\ c.editedOn \in Nat
                             /\ c.id < nextRow /\ c.editedOn <= clock
                             /\ c.pageId < nextPage
      /\ \A pg \in pages : pg.id < nextPage
  BY RowFacts
<1>3. KeysInOrder'
  <2>1. row.pageId < nextPage
    BY <1>1, <1>2 DEF There
  <2>2. \A c \in contents' : /\ c.id < nextRow' /\ c.editedOn <= clock'
                             /\ c.pageId < nextPage'
    BY <1>1, <1>2, <2>1
  <2>3. \A c, d \in contents' : c.id = d.id => c = d
    BY <1>1, <1>2 DEF KeysInOrder
  <2> QED
    BY <1>1, <2>2, <2>3 DEF KeysInOrder
<1>4. row \in GetLatestPageContent(p)'
  BY <1>1, <1>2 DEF GetLatestPageContent, FindPageContentsByPageId
<1>5. \A q : q # p => GetLatestPageContent(q)' = GetLatestPageContent(q)
  BY <1>1 DEF GetLatestPageContent, FindPageContentsByPageId
<1> QED
  BY <1>3, <1>4, <1>5 DEF HasLatest

LEMMA InsertedNext ==
    ASSUME TypeOK, KeysInOrder, ~CoarseClock, VersionsInOrder,
           NEW p, NEW v \in Nat, NEW text, InsertContent(p, v, text, clock),
           \A c \in contents : c.pageId = p => c.version < v,
           \A c \in contents : c.editedOn < clock
    PROVE  VersionsInOrder'
<1>1. PICK row : /\ row.id = nextRow /\ row.pageId = p /\ row.version = v
                 /\ row.editedOn = clock
                 /\ contents' = contents \cup {row}
  BY NewRowNow
<1>2. \A c \in contents : /\ c.version \in Nat /\ c.editedOn \in Nat
                          /\ c.editedOn < clock
  BY RowFacts
<1>3. clock \in Nat
  BY RowFacts
<1> SUFFICES ASSUME NEW c \in contents', NEW d \in contents',
                    c.pageId = d.pageId, c.id # d.id
             PROVE  /\ c.version # d.version
                    /\ c.version < d.version <=> c.editedOn < d.editedOn
  BY DEF VersionsInOrder
<1>4. CASE c \in contents /\ d \in contents
  BY <1>4 DEF VersionsInOrder
<1>5. CASE c \in contents /\ d = row
  BY <1>1, <1>2, <1>3, <1>5
<1>6. CASE c = row /\ d \in contents
  BY <1>1, <1>2, <1>3, <1>6
<1> QED
  BY <1>1, <1>4, <1>5, <1>6

LEMMA RewrittenInOrder ==
    ASSUME TypeOK, KeysInOrder, NEW row, NEW old \in contents, SameVersion(old, row),
           UpdatePageContent(row)
    PROVE  /\ KeysInOrder'
           /\ VersionsInOrder => VersionsInOrder'
           /\ \A q : HasLatest(q) => HasLatest(q)'
           /\ \A c : (\E d \in contents : SameVersion(c, d)) => \E d \in contents' : SameVersion(c, d)
<1>1. /\ contents' = {IF d.id = row.id THEN row ELSE d : d \in contents}
      /\ UNCHANGED <<pages, nextPage, nextRow, clock>>
  BY DEF UpdatePageContent
<1>2. \A d \in contents : d.id = row.id => d = old
  BY DEF SameVersion, KeysInOrder
<1>3. \A d \in contents : \E e \in contents' : SameVersion(d, e)
  BY <1>1, <1>2, SameVersionIsEquivalence
<1>4. \A e \in contents' : \E d \in contents :
        SameVersion(d, e) /\ (e.id = row.id => e = row)
  BY <1>1, <1>2, SameVersionIsEquivalence
<1>5. KeysInOrder'
  <2>1. \A c \in contents' : /\ c.id < nextRow' /\ c.editedOn <= clock'
                             /\ c.pageId < nextPage'
    BY <1>1, <1>4 DEF KeysInOrder, SameVersion
  <2>2. ASSUME NEW c \in contents', NEW d \in contents', c.id = d.id PROVE c = d
    <3>1. (c = row \/ (c \in contents /\ c.id # row.id)) /\ (d = row \/ (d \in contents /\ d.id # row.id))
      BY <1>1
    <3> QED
      BY <2>2, <3>1 DEF KeysInOrder
  <2> QED
    BY <1>1, <2>1, <2>2 DEF KeysInOrder
<1>6. ASSUME VersionsInOrder PROVE VersionsInOrder'
  BY <1>4, <1>6 DEF VersionsInOrder, SameVersion
<1>7. ASSUME NEW q, HasLatest(q) PROVE HasLatest(q)'
  <2>1. PICK c \in contents : c.pageId = q /\ \A d \in contents : d.pageId = q => d.editedOn <= c.editedOn
    BY <1>7 DEF HasLatest, GetLatestPageContent, FindPageContentsByPageId
  <2>2. PICK e \in contents' : SameVersion(c, e)
    BY <1>3
  <2>3. \A d \in contents' : d.pageId = q => d.editedOn <= e.editedOn
    BY <1>4, <2>1, <2>2 DEF SameVersion
  <2> QED
    BY <2>1, <2>2, <2>3 DEF HasLatest, GetLatestPageContent, FindPageContentsByPageId, SameVersion
<1>8. ASSUME NEW c, \E d \in contents : SameVersion(c, d)
      PROVE  \E d \in contents' : SameVersion(c, d)
  BY <1>3, <1>8, SameVersionIsEquivalence
<1> QED
  BY <1>5, <1>6, <1>7, <1>8

(* Rows of contents go, and so may pages. *)
LEMMA DeletedInOrder ==
    ASSUME KeysInOrder, contents' \subseteq contents, pages' \subseteq pages,
           UNCHANGED <<nextPage, nextRow, clock>>
    PROVE  /\ KeysInOrder'
           /\ VersionsInOrder => VersionsInOrder'
BY DEF KeysInOrder, VersionsInOrder

-----------------------------------------------------------------------------
(* The tables. *)

LEMMA TablesStay ==
    ASSUME TablesInv, Serial, NEW t \in Threads, TypeOK', UNCHANGED tables,
           TablesKnown(t)',
           (Undisturbed /\ In(t, WorkLabels)) => In(t, WorkLabels)' /\ rq'[t].id = rq[t].id
    PROVE  TablesInv'
<1>1. \A s \in Threads : s = t
  BY TheThread
<1>2. KeysInOrder'
  BY DEF TablesInv, KeysInOrder, tables
<1>3. ~CoarseClock => VersionsInOrder'
  BY DEF TablesInv, VersionsInOrder, tables
<1>4. Undisturbed => PagesHaveLatest'
  <2> SUFFICES ASSUME Undisturbed, NEW pg \in pages, ~(GetLatestPageContent(pg.id) # {})'
               PROVE  AtWorkOn(pg.id)'
    BY DEF PagesHaveLatest, tables
  <2>1. GetLatestPageContent(pg.id) = {}
    BY DEF GetLatestPageContent, FindPageContentsByPageId, tables
  <2>2. AtWorkOn(pg.id)
    BY <2>1 DEF TablesInv, PagesHaveLatest
  <2> QED
    BY <1>1, <2>2 DEF AtWorkOn, AtWork, In, WorkLabels
<1> QED
  BY <1>1, <1>2, <1>3, <1>4 DEF TablesInv

(* A step that takes the time. *)
LEMMA TablesTimed ==
    ASSUME TablesInv, Serial, NEW t \in Threads, TypeOK', UNCHANGED rows,
           clock' \in UtcNow, TablesKnown(t)', ~In(t, WorkLabels)
    PROVE  TablesInv'
<1>1. TypeOK /\ KeysInOrder
  BY DEF TablesInv
<1>2. UNCHANGED <<pages, contents, nextPage, nextRow>>
  BY DEF rows
<1>3. KeysInOrder'
  <2>1. \A c \in contents : c.editedOn \in Nat /\ c.editedOn <= clock
    BY <1>1, RowFacts
  <2>2. clock \in Nat /\ clock' \in Nat /\ clock <= clock'
    BY <1>1 DEF TypeOK, TablesTypeOK, UtcNow
  <2>3. \A c \in contents : c.editedOn <= clock'
    BY <2>1, <2>2
  <2> QED
    BY <1>1, <1>2, <2>3 DEF KeysInOrder
<1>4. ~CoarseClock => VersionsInOrder'
  BY <1>2 DEF TablesInv, VersionsInOrder
<1>5. Undisturbed => PagesHaveLatest'
  <2> SUFFICES ASSUME Undisturbed, NEW pg \in pages
               PROVE  (GetLatestPageContent(pg.id) # {})'
    BY <1>2 DEF PagesHaveLatest
  <2>1. GetLatestPageContent(pg.id) # {} \/ AtWorkOn(pg.id)
    BY DEF TablesInv, PagesHaveLatest
  <2>2. ~AtWorkOn(pg.id)
    BY TheThread DEF AtWorkOn, AtWork, In, WorkLabels
  <2> QED
    BY <1>2, <2>1, <2>2 DEF GetLatestPageContent, FindPageContentsByPageId
<1>6. \A s \in Threads : s = t
  BY TheThread
<1> QED
  BY <1>3, <1>4, <1>5, <1>6 DEF TablesInv

(* What a request knows when it has taken the time. *)
LEMMA TimeIsLatest ==
    ASSUME TypeOK, KeysInOrder, clock' \in UtcNow, UNCHANGED contents, ~CoarseClock
    PROVE  \A c \in contents' : c.editedOn < clock'
<1>1. \A c \in contents : c.editedOn \in Nat /\ c.editedOn <= clock
  BY RowFacts
<1>2. clock \in Nat /\ clock' = clock + 1
  BY DEF TypeOK, TablesTypeOK, UtcNow
<1> QED
  BY <1>1, <1>2

LEMMA ReadOnTables ==
    ASSUME TablesInv, Serial, NEW t \in Threads, TypeOK', ReadOn(t)
    PROVE  TablesInv'
<1>1. /\ Passes(t, ReadLabels, ReadLabels \cup {"idle", "threw", "tag:next"})
      /\ UNCHANGED tables
  BY ReadOnPasses DEF TablesInv
<1>2. TablesKnown(t)' /\ ~In(t, WorkLabels)
  BY <1>1 DEF TablesKnown, CallsKnown, Passes, In, ReadLabels, WorkLabels, PageIsThere,
     DeletePageLabels, InsertLabels
<1> QED
  BY <1>1, <1>2, TablesStay

LEMMA TablesMove ==
    ASSUME Serial, NEW t \in Threads, TypeOK', KeysInOrder',
           ~CoarseClock => VersionsInOrder', Undisturbed => PagesHaveLatest',
           TablesKnown(t)'
    PROVE  TablesInv'
BY TheThread DEF TablesInv

(* The version that the request inserts is the latest of its page. *)
LEMMA TablesInsert ==
    ASSUME TablesInv, Serial, NEW t \in Threads, TypeOK',
           NEW p, p = rq[t].id, There(p),
           NEW v \in Nat, NEW text, InsertContent(p, v, text, clock),
           ~CoarseClock => \A c \in contents : c.pageId = p => c.version < v,
           ~CoarseClock => \A c \in contents : c.editedOn < clock,
           TablesKnown(t)'
    PROVE  TablesInv'
<1>1. TypeOK /\ KeysInOrder
  BY DEF TablesInv
<1>2. /\ KeysInOrder'
      /\ HasLatest(p)'
      /\ \A q : q # p => GetLatestPageContent(q)' = GetLatestPageContent(q)
  BY <1>1, InsertedInOrder
<1>3. ~CoarseClock => VersionsInOrder'
  BY <1>1, InsertedNext DEF TablesInv
<1>4. ASSUME Undisturbed, NEW pg \in pages', ~AtWorkOn(pg.id)'
      PROVE  GetLatestPageContent(pg.id)' # {}
  <2>1. pg \in pages
    BY NewRowNow
  <2>2. PICK q : q = pg.id
    OBVIOUS
  <2>3. GetLatestPageContent(q) # {} \/ AtWorkOn(q)
    BY <1>4, <2>1, <2>2 DEF TablesInv, PagesHaveLatest
  <2>4. AtWorkOn(q) => q = p
    BY TheThread DEF AtWorkOn, AtWork
  <2>5. GetLatestPageContent(q)' # {}
    BY <1>2, <2>3, <2>4 DEF HasLatest
  <2> QED
    BY <2>2, <2>5
<1> QED
  BY <1>2, <1>3, <1>4, TablesMove DEF PagesHaveLatest

(* Where a request knows something of the tables. *)
TablesLabels ==
    PageIsThere \cup InsertLabels \cup WorkLabels \cup DeletePageLabels
      \cup {"upd:rewrite", "clr:contents", "clr:lists", "clr:pages", "rev:cache"}

LEMMA TablesUnknown ==
    ASSUME NEW t \in Threads, ~In(t, TablesLabels)'
    PROVE  TablesKnown(t)'
BY DEF TablesKnown, CallsKnown, In, TablesLabels, PageIsThere, InsertLabels, WorkLabels,
       DeletePageLabels

LEMMA TablesAside ==
    ASSUME TablesInv, Serial, NEW t \in Threads, TypeOK', UNCHANGED tables,
           ~In(t, WorkLabels), ~In(t, TablesLabels)'
    PROVE  TablesInv'
BY TablesUnknown, TablesStay

LEMMA MaxIsLargest ==
    ASSUME TypeOK, KeysInOrder, NEW p, NEW c \in GetLatestPageContent(p)
    PROVE  /\ c \in contents /\ c.version \in Nat \ {0}
           /\ VersionsInOrder =>
                \A d \in contents : d.pageId = p => d.version < c.version + 1
<1>1. /\ c \in contents /\ c.pageId = p
      /\ \A d \in contents : d.pageId = p => d.editedOn <= c.editedOn
  BY DEF GetLatestPageContent, FindPageContentsByPageId
<1>2. \A d \in contents : d.version \in Nat \ {0} /\ d.editedOn \in Nat
  BY RowFacts
<1>3. ASSUME VersionsInOrder, NEW d \in contents, d.pageId = p
      PROVE  d.version < c.version + 1
  <2>1. CASE d.id = c.id
    BY <1>1, <1>2, <2>1 DEF KeysInOrder
  <2>2. CASE d.id # c.id
    BY <1>1, <1>2, <1>3, <2>2 DEF VersionsInOrder
  <2> QED
    BY <2>1, <2>2
<1> QED
  BY <1>1, <1>2, <1>3

LEMMA UpdateOnTables ==
    ASSUME TablesInv, Serial, NEW t \in Threads, TypeOK', UpdateOn(t)
    PROVE  TablesInv'
<1>t. TypeOK /\ KeysInOrder /\ TablesKnown(t)
  BY DEF TablesInv
<1>m. /\ rq[t] \in Request
      /\ \A label : Goto(t, label) => rq'[t].pc = label /\ Stays(t)
      /\ Return(t) => rq'[t].pc = "idle"
      /\ Throw(t) => rq'[t].pc = "threw"
  BY <1>t, Moved
<1> USE DEF In
<1>1. CASE UpdatePageLoad(t)
  <2>1. UNCHANGED tables /\ ~In(t, WorkLabels)
    BY <1>1 DEF UpdatePageLoad, At, WorkLabels
  <2>2. CASE rq'[t].pc = "threw"
    BY <2>1, <2>2, TablesAside DEF TablesLabels, PageIsThere, InsertLabels, WorkLabels,
       DeletePageLabels
  <2>3. ASSUME NEW pg \in GetPageById(rq[t].id), rq'[t].pc = "upd:save",
               rq'[t].id = rq[t].id, rq'[t].page.id = pg.id
        PROVE  TablesInv'
    <3>1. TablesKnown(t)'
      BY <2>1, <2>3 DEF TablesKnown, CallsKnown, PageIsThere, InsertLabels, DeletePageLabels,
         GetPageById, There, tables
    <3> QED
      BY <2>1, <3>1, TablesStay
  <2> QED
    BY <1>t, <1>1, <2>2, <2>3, UpdatePageLoadMoves
<1>2. CASE UpdatePageSave(t)
  <2>1. rq[t].pc = "upd:save" /\ rq'[t].pc = "upd:cache" /\ Stays(t)
    BY <1>2, <1>m DEF UpdatePageSave, At
  <2>2. /\ pages' = {IF q.id = rq[t].page.id THEN rq[t].page ELSE q : q \in pages}
        /\ UNCHANGED <<contents, nextPage, nextRow, clock>>
    BY <1>2 DEF UpdatePageSave, SaveOrUpdatePage
  <2>3. \A p : There(p) <=> There(p)'
    BY <2>2 DEF There
  <2>4. KeysInOrder'
    BY <1>t, <2>2 DEF KeysInOrder
  <2>5. ~CoarseClock => VersionsInOrder'
    BY <2>2 DEF TablesInv, VersionsInOrder
  <2>6. Undisturbed => PagesHaveLatest'
    <3> SUFFICES ASSUME Undisturbed, NEW pg \in pages'
                 PROVE  GetLatestPageContent(pg.id)' # {}
      BY DEF PagesHaveLatest
    <3>1. PICK q \in pages : q.id = pg.id
      BY <2>2
    <3>2. GetLatestPageContent(q.id) # {} \/ AtWorkOn(q.id)
      BY <3>1 DEF TablesInv, PagesHaveLatest
    <3>3. ~AtWorkOn(q.id)
      BY <2>1, TheThread DEF AtWorkOn, AtWork
    <3> QED
      BY <2>2, <3>1, <3>2, <3>3 DEF GetLatestPageContent, FindPageContentsByPageId
  <2>7. TablesKnown(t)'
    <3>1. PICK p : p = rq[t].id
      OBVIOUS
    <3>2. There(p)
      BY <1>t, <2>1, <3>1 DEF TablesKnown, PageIsThere
    <3>3. rq'[t].id = p /\ There(p)'
      BY <2>1, <2>3, <3>1, <3>2 DEF Stays
    <3> QED
      BY <2>1, <3>3 DEF TablesKnown, CallsKnown, PageIsThere, InsertLabels,
         DeletePageLabels, There
  <2> QED
    BY <2>4, <2>5, <2>6, <2>7, TablesMove
<1>3. CASE UpdatePageUncache(t) \/ UpdatePageUncacheHome(t) \/ UpdatePageUncacheLists(t)
  <2>1. /\ UNCHANGED tables /\ rq[t].pc \in {"upd:cache", "upd:home", "upd:lists"}
        /\ rq'[t].pc \in {"upd:home", "upd:lists", "upd:max"} /\ Stays(t)
    BY <1>3, <1>m DEF UpdatePageUncache, UpdatePageUncacheHome, UpdatePageUncacheLists, At
  <2>2. TablesKnown(t)'
    BY <1>t, <2>1 DEF TablesKnown, CallsKnown, PageIsThere, InsertLabels, DeletePageLabels,
       Stays, There, tables
  <2> QED
    BY <2>1, <2>2, TablesStay DEF WorkLabels
<1>4. CASE UpdatePageMaxVersion(t)
  <2>1. UNCHANGED tables /\ rq[t].pc = "upd:max"
    BY <1>4 DEF UpdatePageMaxVersion, At
  <2>2. CASE rq'[t].pc = "threw"
    BY <2>1, <2>2, TablesAside DEF TablesLabels, PageIsThere, InsertLabels, WorkLabels,
       DeletePageLabels
  <2>3. ASSUME NEW c \in GetLatestPageContent(rq[t].id),
               rq'[t].pc = "upd:time", rq'[t].id = rq[t].id, rq'[t].ver = c.version + 1
        PROVE  TablesInv'
    <3>1. /\ c.version \in Nat \ {0}
          /\ ~CoarseClock =>
               \A d \in contents : d.pageId = rq[t].id => d.version < c.version + 1
      BY <1>t, MaxIsLargest DEF TablesInv
    <3>2. TablesKnown(t)'
      BY <1>t, <2>1, <2>3, <3>1 DEF TablesKnown, CallsKnown, PageIsThere, InsertLabels,
         DeletePageLabels, There, tables
    <3> QED
      BY <2>1, <3>2, TablesStay DEF WorkLabels
  <2> QED
    BY <1>t, <1>4, <2>2, <2>3, UpdatePageMaxVersionMoves
<1>5. CASE UpdatePageInsert(t)
  <2>1. PICK p : p = rq[t].id
    OBVIOUS
  <2>2. /\ rq[t].pc = "upd:insert" /\ There(p) /\ rq[t].on = clock
        /\ ~CoarseClock => \A c \in contents : c.editedOn < clock
    BY <1>t, <1>5, <2>1 DEF UpdatePageInsert, At, TablesKnown, PageIsThere
  <2>3. /\ AddNewPageContentVersion(rq[t].id, rq[t].ver, rq[t].model.text, rq[t].on)
        /\ rq'[t].pc \in {"upd:latest", "upd:links", "threw"}
    BY <1>5, <1>m, <2>1, <2>2 DEF UpdatePageInsert, MayReference, GetPageById, There
  <2>4. PICK v : v = IF rq[t].ver < 1 THEN 1 ELSE rq[t].ver
    OBVIOUS
  <2>5. rq[t].ver \in Nat
    BY <1>m DEF Request
  <2>6. v \in Nat /\ (~CoarseClock => \A c \in contents : c.pageId = p => c.version < v)
    BY <1>t, <2>1, <2>2, <2>4, <2>5 DEF TablesKnown, InsertLabels
  <2>7. InsertContent(p, v, rq[t].model.text, clock)
    BY <2>1, <2>2, <2>3, <2>4 DEF AddNewPageContentVersion
  <2>8. TablesKnown(t)'
    BY <2>3, TablesUnknown DEF TablesLabels, PageIsThere, InsertLabels, WorkLabels,
       DeletePageLabels
  <2>9. PICK text : text = rq[t].model.text
    OBVIOUS
  <2> QED
    BY <2>1, <2>2, <2>6, <2>7, <2>8, <2>9, TablesInsert
<1>6. CASE UpdateLinksRead(t)
  <2>1. /\ UNCHANGED tables /\ rq[t].pc = "upd:links"
        /\ rq'[t].pc \in {"upd:latest", "upd:rewrite"}
        /\ rq'[t].rows \subseteq contents
    BY <1>t, <1>6, UpdateLinksReadMoves DEF UpdateLinksRead, At
  <2>2. TablesKnown(t)'
    BY <2>1, SameVersionIsEquivalence DEF TablesKnown, CallsKnown, PageIsThere, InsertLabels,
       DeletePageLabels, tables
  <2> QED
    BY <2>1, <2>2, TablesStay DEF WorkLabels
<1>7. CASE UpdateLinksRewrite(t)
  <2>1. rq[t].pc = "upd:rewrite"
    BY <1>7 DEF UpdateLinksRewrite, At
  <2>2. CASE rq'[t].pc = "upd:clearpages" /\ UNCHANGED tables
    BY <2>1, <2>2, TablesAside DEF TablesLabels, PageIsThere, InsertLabels, WorkLabels,
       DeletePageLabels
  <2>3. ASSUME NEW c \in rq[t].rows, rq'[t].pc = rq[t].pc, rq'[t].rows = rq[t].rows \ {c},
               UpdatePageContent([c EXCEPT !.text = ReplacePageLinks(@,
                                    rq[t].prev, rq[t].model.page.title)])
        PROVE  TablesInv'
    <3>1. PICK old \in contents : SameVersion(c, old)
      BY <1>t, <2>1 DEF TablesKnown
    <3>2. PICK row : row = [c EXCEPT !.text = ReplacePageLinks(@,
                                    rq[t].prev, rq[t].model.page.title)]
      OBVIOUS
    <3>3. SameVersion(c, row) /\ SameVersion(row, c)
      <4>1. c \in PageContent
        BY <1>m DEF Request
      <4> QED
        BY <3>2, <4>1 DEF SameVersion, PageContent, Text, ReplacePageLinks
    <3>4. UpdatePageContent(row)
      BY <2>3, <3>2
    <3>5. SameVersion(old, row)
      BY <3>1, <3>3 DEF SameVersion
    <3>6. /\ KeysInOrder'
          /\ VersionsInOrder => VersionsInOrder'
          /\ \A q : HasLatest(q) => HasLatest(q)'
          /\ \A d : (\E e \in contents : SameVersion(d, e)) => \E e \in contents' : SameVersion(d, e)
      BY <1>t, <3>4, <3>5, RewrittenInOrder
    <3>7. UNCHANGED pages
      BY <3>4 DEF UpdatePageContent
    <3>8. Undisturbed => PagesHaveLatest'
      <4>1. \A q : ~AtWorkOn(q)
        BY <2>1, TheThread DEF AtWorkOn, AtWork
      <4>2. ASSUME Undisturbed, NEW pg \in pages PROVE GetLatestPageContent(pg.id)' # {}
        <5>1. PICK q : q = pg.id
          OBVIOUS
        <5>2. HasLatest(q)
          BY <4>1, <4>2, <5>1 DEF TablesInv, PagesHaveLatest, HasLatest
        <5>3. HasLatest(q)'
          BY <3>6, <5>2
        <5> QED
          BY <5>1, <5>3 DEF HasLatest
      <4> QED
        BY <3>7, <4>2 DEF PagesHaveLatest
    <3>9. TablesKnown(t)'
      <4>1. \A d \in rq'[t].rows : \E e \in contents' : SameVersion(d, e)
        BY <1>t, <2>1, <2>3, <3>6 DEF TablesKnown
      <4> QED
        BY <2>1, <2>3, <4>1 DEF TablesKnown, CallsKnown, PageIsThere, InsertLabels,
           DeletePageLabels
    <3> QED
      BY <3>6, <3>8, <3>9, TablesMove DEF TablesInv
  <2> QED
    BY <1>t, <1>7, <2>2, <2>3, UpdateLinksRewriteMoves
<1>8. CASE UpdateLinksClearPages(t) \/ UpdateLinksClearLists(t)
  <2>1. /\ UNCHANGED tables /\ rq[t].pc \in {"upd:clearpages", "upd:clearlists"}
        /\ rq'[t].pc \in {"upd:clearlists", "upd:latest"}
    BY <1>8, <1>m DEF UpdateLinksClearPages, UpdateLinksClearLists, At
  <2> QED
    BY <2>1, TablesAside DEF TablesLabels, PageIsThere, InsertLabels, WorkLabels,
       DeletePageLabels
<1>9. CASE UpdatePageReread(t)
  <2>1. /\ UNCHANGED tables /\ rq[t].pc = "upd:latest"
        /\ rq'[t].pc \in {"threw", "upd:unindex"}
    BY <1>t, <1>9, UpdatePageRereadMoves DEF UpdatePageReread, At
  <2> QED
    BY <2>1, TablesAside DEF TablesLabels, PageIsThere, InsertLabels, WorkLabels,
       DeletePageLabels
<1>10. CASE UpdatePageUnindex(t) \/ UpdatePageIndex(t)
  <2>1. /\ UNCHANGED tables /\ rq[t].pc \in {"upd:unindex", "upd:index"}
        /\ rq'[t].pc \in {"upd:index", "tag:next", "idle", "threw"}
    BY <1>10, <1>m DEF UpdatePageUnindex, UpdatePageIndex, At
  <2> QED
    BY <2>1, TablesAside DEF TablesLabels, PageIsThere, InsertLabels, WorkLabels,
       DeletePageLabels
<1>11. CASE UpdatePageTakeTime(t)
  <2>1. /\ rq[t].pc = "upd:time" /\ rq'[t].pc = "upd:insert" /\ Stays(t)
        /\ rq'[t].on = clock' /\ clock' \in UtcNow /\ UNCHANGED rows
    BY <1>t, <1>11, UpdatePageTakeTimeMoves
  <2>2. ~CoarseClock => \A c \in contents' : c.editedOn < clock'
    BY <1>t, <2>1, TimeIsLatest DEF rows
  <2>3. TablesKnown(t)'
    BY <1>t, <2>1, <2>2 DEF TablesKnown, CallsKnown, PageIsThere, InsertLabels,
       DeletePageLabels, There, rows, Stays
  <2> QED
    BY <2>1, <2>3, TablesTimed DEF WorkLabels
<1> QED
  BY <1>1, <1>2, <1>3, <1>4, <1>5, <1>6, <1>7, <1>8, <1>9, <1>10, <1>11 DEF UpdateOn

(* The latest version of the other pages is not among the rows that go. *)
LEMMA LatestKept ==
    ASSUME NEW q, contents' \subseteq contents,
           \A c \in contents \ contents' : c.pageId # q
    PROVE  GetLatestPageContent(q)' = GetLatestPageContent(q)
BY DEF GetLatestPageContent, FindPageContentsByPageId

LEMMA WriteOnTables ==
    ASSUME TablesInv, Serial, NEW t \in Threads, TypeOK', WriteOn(t)
    PROVE  TablesInv'
<1>t. TypeOK /\ KeysInOrder /\ TablesKnown(t)
  BY DEF TablesInv
<1>m. /\ rq[t] \in Request
      /\ \A label : Goto(t, label) => rq'[t].pc = label /\ Stays(t)
      /\ Return(t) => rq'[t].pc = "idle"
      /\ Throw(t) => rq'[t].pc = "threw"
  BY <1>t, Moved
<1> USE DEF In
<1>1. CASE AddPageContent(t)
  <2>1. PICK p : p = rq[t].id
    OBVIOUS
  <2>2. /\ rq[t].pc = "add:content" /\ There(p) /\ \A c \in contents : c.pageId # p
        /\ rq[t].on = clock
        /\ ~CoarseClock => \A c \in contents : c.editedOn < clock
    BY <1>t, <1>1, <2>1 DEF AddPageContent, At, TablesKnown, PageIsThere
  <2>3. InsertContent(p, 1, rq[t].model.text, clock) /\ rq'[t].pc = "add:lists"
    BY <1>1, <1>m, <2>1, <2>2 DEF AddPageContent, MayReference, GetPageById, There
  <2>4. TablesKnown(t)'
    BY <2>3, TablesUnknown DEF TablesLabels, PageIsThere, InsertLabels, WorkLabels,
       DeletePageLabels
  <2>5. PICK text : text = rq[t].model.text
    OBVIOUS
  <2> QED
    BY <2>1, <2>2, <2>3, <2>4, <2>5, TablesInsert
<1>2. CASE AddPageClearLists(t) \/ AddPageClearPages(t) \/ AddPageIndex(t)
  <2>1. /\ UNCHANGED tables /\ rq[t].pc \in {"add:lists", "add:pages", "add:index"}
        /\ rq'[t].pc \in {"add:pages", "add:index", "idle"}
    BY <1>2, <1>m DEF AddPageClearLists, AddPageClearPages, AddPageIndex, At
  <2> QED
    BY <2>1, TablesAside DEF TablesLabels, PageIsThere, InsertLabels, WorkLabels,
       DeletePageLabels
<1>3. CASE RevertMaxVersion(t)
  <2>1. UNCHANGED tables /\ rq[t].pc = "rev:max"
    BY <1>3 DEF RevertMaxVersion, At
  <2>2. CASE rq'[t].pc = "threw"
    BY <2>1, <2>2, TablesAside DEF TablesLabels, PageIsThere, InsertLabels, WorkLabels,
       DeletePageLabels
  <2>3. ASSUME NEW c \in GetLatestPageContent(rq[t].id),
               rq'[t].pc = "rev:time", rq'[t].id = rq[t].id, rq'[t].ver = c.version + 1
        PROVE  TablesInv'
    <3>1. /\ c.version \in Nat \ {0}
          /\ ~CoarseClock =>
               \A d \in contents : d.pageId = rq[t].id => d.version < c.version + 1
      BY <1>t, MaxIsLargest DEF TablesInv
    <3>2. TablesKnown(t)'
      BY <1>t, <2>1, <2>3, <3>1 DEF TablesKnown, CallsKnown, PageIsThere, InsertLabels,
         DeletePageLabels, There, tables
    <3> QED
      BY <2>1, <3>2, TablesStay DEF WorkLabels
  <2> QED
    BY <1>t, <1>3, <2>2, <2>3, RevertMaxVersionMoves
<1>4. CASE RevertInsert(t)
  <2>1. PICK p : p = rq[t].id
    OBVIOUS
  <2>2. /\ rq[t].pc = "rev:insert" /\ There(p) /\ "revert" \in Ops
        /\ rq[t].on = clock
        /\ ~CoarseClock => \A c \in contents : c.editedOn < clock
    BY <1>t, <1>4, <2>1 DEF RevertInsert, At, TablesKnown, CallsKnown, PageIsThere
  <2>3. /\ AddNewPageContentVersion(rq[t].id, rq[t].ver, rq[t].view.text, rq[t].on)
        /\ rq'[t].pc \in {"rev:cache", "threw"}
    BY <1>4, <1>m, <2>1, <2>2 DEF RevertInsert, MayReference, GetPageById, There
  <2>4. PICK v : v = IF rq[t].ver < 1 THEN 1 ELSE rq[t].ver
    OBVIOUS
  <2>5. rq[t].ver \in Nat
    BY <1>m DEF Request
  <2>6. v \in Nat /\ (~CoarseClock => \A c \in contents : c.pageId = p => c.version < v)
    BY <1>t, <2>1, <2>2, <2>4, <2>5 DEF TablesKnown, InsertLabels
  <2>7. PICK text : text = rq[t].view.text
    OBVIOUS
  <2>8. InsertContent(p, v, text, clock)
    BY <2>1, <2>2, <2>3, <2>4, <2>7 DEF AddNewPageContentVersion
  <2>9. TablesKnown(t)'
    BY <2>2, <2>3 DEF TablesKnown, CallsKnown, PageIsThere, InsertLabels, DeletePageLabels
  <2> QED
    BY <2>1, <2>2, <2>6, <2>8, <2>9, TablesInsert
<1>5. CASE RevertCache(t)
  <2>1. UNCHANGED tables /\ rq[t].pc = "rev:cache" /\ rq'[t].pc = "idle"
    BY <1>5, <1>m DEF RevertCache, At
  <2> QED
    BY <2>1, TablesAside DEF TablesLabels, PageIsThere, InsertLabels, WorkLabels,
       DeletePageLabels
<1>6. CASE RenameTagNext(t)
  <2>1. /\ UNCHANGED tables /\ rq[t].pc = "tag:next"
        /\ rq'[t].pc \in {"threw", "tag:done", "tag:unindex"}
    BY <1>t, <1>6, RenameTagNextMoves DEF RenameTagNext, At
  <2> QED
    BY <2>1, TablesAside DEF TablesLabels, PageIsThere, InsertLabels, WorkLabels,
       DeletePageLabels
<1>7. CASE RenameTagUnindex(t)
  <2>1. UNCHANGED tables /\ rq[t].pc = "tag:unindex" /\ rq'[t].pc \in {"threw", "upd:page"}
    BY <1>t, <1>7, RenameTagUnindexMoves DEF RenameTagUnindex, At
  <2> QED
    BY <2>1, TablesAside DEF TablesLabels, PageIsThere, InsertLabels, WorkLabels,
       DeletePageLabels
<1>8. CASE RenameTagUncache(t)
  <2>1. UNCHANGED tables /\ rq[t].pc = "tag:done" /\ rq'[t].pc = "idle"
    BY <1>8, <1>m DEF RenameTagUncache, At
  <2> QED
    BY <2>1, TablesAside DEF TablesLabels, PageIsThere, InsertLabels, WorkLabels,
       DeletePageLabels
<1>9. CASE DeletePageLatest(t) \/ DeletePageUnindex(t)
  <2>1. /\ UNCHANGED tables /\ rq[t].pc \in {"del:latest", "del:unindex"}
        /\ rq'[t].pc \in {"threw", "del:unindex", "del:children"}
    BY <1>9, <1>m DEF DeletePageLatest, DeletePageUnindex, At
  <2>2. TablesKnown(t)'
    BY <1>t, <2>1 DEF TablesKnown, CallsKnown, PageIsThere, InsertLabels, DeletePageLabels
  <2> QED
    BY <2>1, <2>2, TablesStay DEF WorkLabels
<1>10. CASE DeletePageChildren(t)
  <2>1. /\ UNCHANGED tables /\ rq[t].pc = "del:children" /\ rq'[t].pc = "del:contents"
        /\ rq'[t].id = rq[t].id /\ rq'[t].rows = FindPageContentsByPageId(rq[t].id)
    BY <1>t, <1>10, DeletePageChildrenMoves DEF DeletePageChildren, At
  <2>2. TablesKnown(t)'
    BY <1>t, <2>1 DEF TablesKnown, CallsKnown, PageIsThere, InsertLabels, DeletePageLabels,
       FindPageContentsByPageId, tables
  <2> QED
    BY <2>1, <2>2, TablesStay DEF WorkLabels
<1>11. CASE DeletePageContents(t)
  <2>1. rq[t].pc = "del:contents" /\ "delete" \in Ops
    BY <1>t, <1>11 DEF DeletePageContents, At, TablesKnown, CallsKnown, DeletePageLabels
  <2>2. CASE rq'[t].pc = "del:row" /\ Stays(t) /\ UNCHANGED tables
    <3>1. TablesKnown(t)'
      BY <1>t, <2>1, <2>2 DEF TablesKnown, CallsKnown, PageIsThere, InsertLabels,
         DeletePageLabels
    <3> QED
      BY <2>1, <2>2, <3>1, TablesStay DEF WorkLabels, Stays
  <2>3. ASSUME NEW c \in rq[t].rows, rq'[t].pc = rq[t].pc, rq'[t].id = rq[t].id,
               rq'[t].rows = rq[t].rows \ {c}, DeletePageContent(c)
        PROVE  TablesInv'
    <3>1. /\ contents' = {d \in contents : d.id # c.id}
          /\ UNCHANGED <<pages, nextPage, nextRow, clock>>
      BY <2>3 DEF DeletePageContent
    <3>2. /\ c \in contents /\ c.pageId = rq[t].id
          /\ \A d \in contents : d.id = c.id => d = c
      BY <1>t, <2>1 DEF TablesKnown, KeysInOrder
    <3>3. KeysInOrder' /\ (VersionsInOrder => VersionsInOrder')
      BY <1>t, <3>1, DeletedInOrder
    <3>4. Undisturbed => PagesHaveLatest'
      <4> SUFFICES ASSUME Undisturbed, NEW pg \in pages', ~AtWorkOn(pg.id)'
                   PROVE  GetLatestPageContent(pg.id)' # {}
        BY DEF PagesHaveLatest
      <4>1. PICK q : q = pg.id
        OBVIOUS
      <4>2. q # rq[t].id
        BY <2>1, <2>3, <4>1 DEF AtWorkOn, AtWork
      <4>3. GetLatestPageContent(q) # {}
        BY <3>1, <4>1, <4>2, TheThread DEF TablesInv, PagesHaveLatest, AtWorkOn, AtWork
      <4>4. GetLatestPageContent(q)' = GetLatestPageContent(q)
        BY <3>1, <3>2, <4>2, LatestKept
      <4> QED
        BY <4>1, <4>3, <4>4
    <3>5. TablesKnown(t)'
      <4>1. \A d \in rq'[t].rows : d \in contents' /\ d.pageId = rq'[t].id
        <5> SUFFICES ASSUME NEW d \in rq[t].rows, d # c
                     PROVE  d \in contents' /\ d.pageId = rq[t].id
          BY <2>3
        <5>1. d \in contents /\ d.pageId = rq[t].id
          BY <1>t, <2>1 DEF TablesKnown
        <5> QED
          BY <3>1, <3>2, <5>1
      <4> QED
        BY <2>1, <2>3, <4>1 DEF TablesKnown, CallsKnown, PageIsThere, InsertLabels,
           DeletePageLabels
    <3> QED
      BY <3>3, <3>4, <3>5, TablesMove DEF TablesInv
  <2> QED
    BY <1>t, <1>11, <2>2, <2>3, DeletePageContentsMoves
<1>12. CASE DeletePageRow(t)
  <2>1. /\ rq[t].pc = "del:row" /\ rq'[t].pc = "del:lists" /\ "delete" \in Ops
        /\ DeletePage(rq[t].id)
    BY <1>t, <1>12, <1>m DEF DeletePageRow, At, TablesKnown, CallsKnown, DeletePageLabels
  <2>2. /\ pages' = {pg \in pages : pg.id # rq[t].id}
        /\ contents' = {c \in contents : c.pageId # rq[t].id}
        /\ UNCHANGED <<nextPage, nextRow, clock>>
    BY <2>1 DEF DeletePage, FindPageContentsByPageId
  <2>3. KeysInOrder' /\ (VersionsInOrder => VersionsInOrder')
    BY <1>t, <2>2, DeletedInOrder
  <2>4. Undisturbed => PagesHaveLatest'
    <3> SUFFICES ASSUME Undisturbed, NEW pg \in pages'
                 PROVE  GetLatestPageContent(pg.id)' # {}
      BY DEF PagesHaveLatest
    <3>1. PICK q : q = pg.id
      OBVIOUS
    <3>2. q # rq[t].id /\ pg \in pages
      BY <2>2, <3>1
    <3>3. GetLatestPageContent(q) # {}
      BY <3>1, <3>2, TheThread DEF TablesInv, PagesHaveLatest, AtWorkOn, AtWork
    <3>4. GetLatestPageContent(q)' = GetLatestPageContent(q)
      BY <2>2, <3>2, LatestKept
    <3> QED
      BY <3>1, <3>3, <3>4
  <2>5. TablesKnown(t)'
    BY <2>1 DEF TablesKnown, CallsKnown, PageIsThere, InsertLabels, DeletePageLabels
  <2> QED
    BY <2>3, <2>4, <2>5, TablesMove DEF TablesInv
<1>13. CASE DeletePageClearLists(t) \/ DeletePageClearPages(t)
  <2>1. /\ UNCHANGED tables /\ rq[t].pc \in {"del:lists", "del:pages"}
        /\ rq'[t].pc \in {"del:pages", "idle"}
    BY <1>13, <1>m DEF DeletePageClearLists, DeletePageClearPages, At
  <2>2. TablesKnown(t)'
    BY <1>t, <2>1 DEF TablesKnown, CallsKnown, PageIsThere, InsertLabels, DeletePageLabels
  <2> QED
    BY <2>1, <2>2, TablesStay DEF WorkLabels
<1>14. CASE ClearPagesContents(t)
  <2>1. /\ rq[t].pc = "clr:contents" /\ rq'[t].pc = "clr:lists"
        /\ pages = {} /\ "clear" \in Ops
    BY <1>t, <1>14, <1>m DEF ClearPagesContents, At, TablesKnown, CallsKnown
  <2>2. contents' = {} /\ UNCHANGED <<pages, nextPage, nextRow, clock>>
    BY <1>14 DEF ClearPagesContents, DeleteAllContentRows
  <2>3. KeysInOrder' /\ (VersionsInOrder => VersionsInOrder')
    BY <1>t, <2>2, DeletedInOrder
  <2>4. PagesHaveLatest'
    BY <2>1, <2>2 DEF PagesHaveLatest
  <2>5. TablesKnown(t)'
    BY <2>1 DEF TablesKnown, CallsKnown, PageIsThere, InsertLabels, DeletePageLabels
  <2> QED
    BY <2>3, <2>4, <2>5, TablesMove DEF TablesInv
<1>15. CASE ClearPagesLists(t) \/ ClearPagesPages(t)
  <2>1. /\ UNCHANGED tables /\ rq[t].pc \in {"clr:lists", "clr:pages"}
        /\ rq'[t].pc \in {"clr:pages", "idle"}
    BY <1>15, <1>m DEF ClearPagesLists, ClearPagesPages, At
  <2>2. TablesKnown(t)'
    BY <1>t, <2>1 DEF TablesKnown, CallsKnown, PageIsThere, InsertLabels, DeletePageLabels
  <2> QED
    BY <2>1, <2>2, TablesStay DEF WorkLabels
<1>16. CASE ClearCacheLists(t) \/ CreateIndexClose(t)
  <2>1. /\ UNCHANGED tables /\ rq[t].pc \in {"cache:lists", "idx:close"}
        /\ rq'[t].pc \in {"idle", "threw"}
    BY <1>16, <1>m DEF ClearCacheLists, CreateIndexClose, At
  <2> QED
    BY <2>1, TablesAside DEF TablesLabels, PageIsThere, InsertLabels, WorkLabels,
       DeletePageLabels
<1>17. CASE CreateIndexContent(t)
  <2>1. /\ UNCHANGED tables /\ rq[t].pc = "idx:contents"
        /\ rq'[t].pc \in {"idx:contents", "idx:close", "threw"}
    BY <1>t, <1>17, CreateIndexContentMoves DEF CreateIndexContent, At
  <2> QED
    BY <2>1, TablesAside DEF TablesLabels, PageIsThere, InsertLabels, WorkLabels,
       DeletePageLabels
<1>18. CASE RevertTakeTime(t)
  <2>1. /\ rq[t].pc = "rev:time" /\ rq'[t].pc = "rev:insert" /\ Stays(t)
        /\ rq'[t].on = clock' /\ clock' \in UtcNow /\ UNCHANGED rows
    BY <1>t, <1>18, RevertTakeTimeMoves
  <2>2. ~CoarseClock => \A c \in contents' : c.editedOn < clock'
    BY <1>t, <2>1, TimeIsLatest DEF rows
  <2>3. TablesKnown(t)'
    BY <1>t, <2>1, <2>2 DEF TablesKnown, CallsKnown, PageIsThere, InsertLabels,
       DeletePageLabels, There, rows, Stays
  <2> QED
    BY <2>1, <2>3, TablesTimed DEF WorkLabels
<1>19. CASE DatabaseFails(t)
  <2>1. UNCHANGED tables /\ ~Undisturbed /\ rq'[t].pc = "threw"
    BY <1>19, <1>m DEF DatabaseFails, Undisturbed
  <2>2. TablesKnown(t)'
    BY <2>1, TablesUnknown DEF TablesLabels, PageIsThere, InsertLabels, WorkLabels,
       DeletePageLabels
  <2> QED
    BY <2>1, <2>2, TablesStay
<1> QED
  BY <1>1, <1>2, <1>3, <1>4, <1>5, <1>6, <1>7, <1>8, <1>9, <1>10, <1>11, <1>12, <1>13,
     <1>14, <1>15, <1>16, <1>17, <1>18, <1>19 DEF WriteOn, WriteStep

LEMMA ArriveTables ==
    ASSUME TablesInv, Serial, NEW t \in Threads, TypeOK', Arrives(t)
    PROVE  TablesInv'
<1>t. TypeOK /\ KeysInOrder
  BY DEF TablesInv
<1>i. rq[t].pc \in {"idle", "threw"} /\ ~In(t, WorkLabels)
  BY <1>t, ArriveIdle DEF In, WorkLabels
<1> USE DEF In
<1>1. CASE GetByIdMiss(t) \/ HomePageMiss(t) \/ ListMiss(t) \/ CompareMiss(t)
  <2>1. UNCHANGED tables
    BY <1>1 DEF GetByIdMiss, HomePageMiss, ListMiss, CompareMiss
  <2>2. rq'[t].pc \in {"get:page", "home:any", "home:content", "list:pages", "cmp:previous"}
    BY <1>1, <1>t, ReadArrivals
  <2> QED
    BY <1>i, <2>1, <2>2, TablesAside DEF TablesLabels, PageIsThere, InsertLabels, WorkLabels,
       DeletePageLabels
<1>2. CASE AddPageRow(t)
  <2>1. PICK page \in Page : /\ rq'[t].pc = "add:content" /\ rq'[t].id = nextPage
                             /\ page.id = nextPage
                             /\ pages' = pages \cup {page}
                             /\ nextPage' = nextPage + 1
                             /\ rq'[t].on = clock' /\ clock' \in UtcNow
                             /\ UNCHANGED <<contents, nextRow>>
    BY <1>2, <1>t, AddPageRowMoves
  <2>2. /\ nextPage \in Nat
        /\ \A c \in contents : c.pageId \in Nat /\ c.pageId < nextPage
        /\ \A pg \in pages : pg.id \in Nat /\ pg.id < nextPage
    BY <1>t, RowFacts
  <2>3. KeysInOrder'
    <3>1. \A pg \in pages' : pg.id < nextPage'
      BY <2>1, <2>2
    <3>2. \A pg, q \in pages' : pg.id = q.id => pg = q
      BY <1>t, <2>1, <2>2 DEF KeysInOrder
    <3>3. \A c \in contents' : c.pageId < nextPage'
      BY <2>1, <2>2
    <3>4. \A c \in contents : c.editedOn \in Nat /\ c.editedOn <= clock
      BY <1>t, RowFacts
    <3>5. clock \in Nat /\ clock' \in Nat /\ clock <= clock'
      BY <1>t, <2>1 DEF TypeOK, TablesTypeOK, UtcNow
    <3>6. \A c \in contents' : c.editedOn <= clock'
      BY <2>1, <3>4, <3>5
    <3> QED
      BY <1>t, <2>1, <3>1, <3>2, <3>3, <3>6 DEF KeysInOrder
  <2>4. ~CoarseClock => VersionsInOrder'
    BY <2>1 DEF TablesInv, VersionsInOrder
  <2>5. Undisturbed => PagesHaveLatest'
    <3> SUFFICES ASSUME Undisturbed, NEW pg \in pages', ~AtWorkOn(pg.id)'
                 PROVE  GetLatestPageContent(pg.id)' # {}
      BY DEF PagesHaveLatest
    <3>1. pg # page
      BY <2>1 DEF AtWorkOn, AtWork
    <3>2. pg \in pages
      BY <2>1, <3>1
    <3>3. ~AtWorkOn(pg.id)
      BY <1>i, TheThread DEF AtWorkOn, AtWork, WorkLabels
    <3>4. GetLatestPageContent(pg.id) # {}
      BY <3>2, <3>3 DEF TablesInv, PagesHaveLatest
    <3> QED
      BY <2>1, <3>4 DEF GetLatestPageContent, FindPageContentsByPageId
  <2>6. TablesKnown(t)'
    <3>1. \A c \in contents' : c.pageId # rq'[t].id
      BY <2>1, <2>2
    <3>2. There(rq[t].id)'
      BY <2>1 DEF There
    <3>3. ~CoarseClock => \A c \in contents' : c.editedOn < clock'
      BY <1>t, <2>1, TimeIsLatest
    <3> QED
      BY <2>1, <3>1, <3>2, <3>3 DEF TablesKnown, CallsKnown, PageIsThere, InsertLabels,
         DeletePageLabels
  <2> QED
    BY <2>3, <2>4, <2>5, <2>6, TablesMove
<1>3. CASE UpdateForm(t) \/ RenameTagFind(t)
  <2>1. UNCHANGED tables
    BY <1>3 DEF UpdateForm, RenameTagFind
  <2>2. rq'[t].pc \in {"upd:page", "list:pages", "tag:next"}
    BY <1>3, <1>t, UpdateFormMoves, RenameTagFindMoves
  <2> QED
    BY <1>i, <2>1, <2>2, TablesAside DEF TablesLabels, PageIsThere, InsertLabels, WorkLabels,
       DeletePageLabels
<1>4. CASE RevertVersion(t)
  <2>1. UNCHANGED tables
    BY <1>4 DEF RevertVersion
  <2>2. rq'[t].pc = "rev:max" /\ There(rq'[t].id) /\ "revert" \in Ops
    BY <1>4, <1>t, RevertVersionMoves DEF GetPageById, There
  <2>3. There(rq[t].id)'
    BY <2>1, <2>2 DEF There, tables
  <2>4. TablesKnown(t)'
    BY <2>2, <2>3 DEF TablesKnown, CallsKnown, PageIsThere, InsertLabels, DeletePageLabels
  <2> QED
    BY <1>i, <2>1, <2>4, TablesStay
<1>5. CASE DeletePageLoad(t)
  <2>1. UNCHANGED tables
    BY <1>5 DEF DeletePageLoad
  <2>2. rq'[t].pc = "del:latest" /\ "delete" \in Ops
    BY <1>5, <1>t, OtherArrivals
  <2>3. TablesKnown(t)'
    BY <2>2 DEF TablesKnown, CallsKnown, PageIsThere, InsertLabels, DeletePageLabels
  <2> QED
    BY <1>i, <2>1, <2>3, TablesStay
<1>6. CASE ClearPagesRows(t)
  <2>1. CASE rq'[t].pc = "threw" /\ UNCHANGED tables
    BY <1>i, <2>1, TablesAside DEF TablesLabels, PageIsThere, InsertLabels, WorkLabels,
       DeletePageLabels
  <2>2. CASE rq'[t].pc = "clr:contents" /\ "clear" \in Ops /\ DeleteAllPageRows
    <3>1. pages' = {} /\ UNCHANGED <<contents, nextPage, nextRow, clock>>
      BY <2>2 DEF DeleteAllPageRows
    <3>2. KeysInOrder' /\ (VersionsInOrder => VersionsInOrder')
      BY <1>t, <3>1, DeletedInOrder
    <3>3. PagesHaveLatest'
      BY <3>1 DEF PagesHaveLatest
    <3>4. TablesKnown(t)'
      BY <2>2, <3>1 DEF TablesKnown, CallsKnown, PageIsThere, InsertLabels, DeletePageLabels
    <3> QED
      BY <3>2, <3>3, <3>4, TablesMove DEF TablesInv
  <2> QED
    BY <1>6, <1>t, <2>1, <2>2, OtherArrivals
<1>7. CASE ClearCachePages(t) \/ CreateIndexPages(t)
  <2>1. UNCHANGED tables
    BY <1>7 DEF ClearCachePages, CreateIndexPages
  <2>2. rq'[t].pc \in {"cache:lists", "idx:contents", "threw"}
    BY <1>7, <1>t, OtherArrivals
  <2> QED
    BY <1>i, <2>1, <2>2, TablesAside DEF TablesLabels, PageIsThere, InsertLabels, WorkLabels,
       DeletePageLabels
<1> QED
  BY <1>1, <1>2, <1>3, <1>4, <1>5, <1>6, <1>7 DEF Arrives, Arrive

LEMMA InitTables == Init => TablesInv
<1> SUFFICES ASSUME Init PROVE TablesInv
  OBVIOUS
<1>1. TypeOK
  BY InitTypes
<1>2. /\ pages = {Seed[i].page : i \in 1..Len(Seed)}
      /\ nextRow = Len(Seed) + 1 /\ nextPage = Len(Seed) + 1 /\ clock = 0
      /\ contents = {[id |-> i, pageId |-> i, version |-> 1,
                      text |-> Seed[i].text, editedOn |-> 0] : i \in 1..Len(Seed)}
      /\ Len(Seed) \in Nat
      /\ \A i \in 1..Len(Seed) : Seed[i].page.id = i
  BY RepositoryAssumption DEF Init, TablesInit
<1>3. \A c \in contents : \E i \in 1..Len(Seed) :
        /\ c = [id |-> i, pageId |-> i, version |-> 1, text |-> Seed[i].text, editedOn |-> 0]
        /\ c.id = i /\ c.pageId = i /\ c.editedOn = 0 /\ c.version = 1
  BY <1>2
<1>4. \A pg \in pages : \E i \in 1..Len(Seed) : pg = Seed[i].page /\ pg.id = i
  BY <1>2
<1>5. KeysInOrder
  <2>1. \A c, d \in contents : c.id = d.id => c = d
    BY <1>3
  <2>2. \A pg, q \in pages : pg.id = q.id => pg = q
    BY <1>4
  <2>3. \A c \in contents : c.id < nextRow /\ c.editedOn <= clock /\ c.pageId < nextPage
    BY <1>2, <1>3
  <2>4. \A pg \in pages : pg.id < nextPage
    BY <1>2, <1>4
  <2> QED
    BY <2>1, <2>2, <2>3, <2>4 DEF KeysInOrder
<1>6. VersionsInOrder
  BY <1>3 DEF VersionsInOrder
<1>7. PagesHaveLatest
  <2> SUFFICES ASSUME NEW pg \in pages PROVE GetLatestPageContent(pg.id) # {}
    BY DEF PagesHaveLatest
  <2>1. PICK i \in 1..Len(Seed) : pg.id = i
    BY <1>4
  <2>2. PICK c : c = [id |-> i, pageId |-> i, version |-> 1,
                      text |-> Seed[i].text, editedOn |-> 0]
    OBVIOUS
  <2>3. c \in contents /\ c.pageId = i /\ c.editedOn = 0
    BY <1>2, <2>2
  <2>4. c \in GetLatestPageContent(i)
    BY <1>3, <2>3 DEF GetLatestPageContent, FindPageContentsByPageId
  <2> QED
    BY <2>1, <2>4
<1>8. ASSUME NEW t \in Threads PROVE TablesKnown(t)
  <2>1. rq[t].pc = "idle"
    BY DEF Init, Idle
  <2> QED
    BY <2>1 DEF TablesKnown, CallsKnown, In, PageIsThere, InsertLabels, DeletePageLabels
<1> QED
  BY <1>1, <1>5, <1>6, <1>7, <1>8 DEF TablesInv

LEMMA NextTables ==
    ASSUME TablesInv, Serial, [Next]_vars
    PROVE  TablesInv'
<1>1. TypeOK'
  BY NextTypes DEF TablesInv
<1>2. ASSUME NEW t \in Threads, Arrives(t) \/ GoOn(t)
      PROVE  TablesInv'
  BY <1>1, <1>2, ArriveTables, ReadOnTables, UpdateOnTables, WriteOnTables DEF GoOn
<1>3. CASE Recycle
  <2>1. "recycle" \in Ops /\ UNCHANGED tables /\ \A t \in Threads : rq'[t].pc = "idle"
    BY <1>3 DEF Recycle, Idle
  <2>2. KeysInOrder' /\ (VersionsInOrder => VersionsInOrder')
    BY <2>1 DEF TablesInv, KeysInOrder, VersionsInOrder, tables
  <2>3. \A t \in Threads : TablesKnown(t)'
    BY <2>1 DEF TablesKnown, CallsKnown, In, PageIsThere, InsertLabels, DeletePageLabels
  <2> QED
    BY <1>1, <2>1, <2>2, <2>3 DEF TablesInv, Undisturbed, Never
<1>4. CASE UNCHANGED site
  <2>1. UNCHANGED <<pages, contents, nextPage, nextRow, clock, rq>>
    BY <1>4 DEF site, tables
  <2>2. KeysInOrder' /\ (VersionsInOrder => VersionsInOrder')
    BY <2>1 DEF TablesInv, KeysInOrder, VersionsInOrder
  <2>3. PagesHaveLatest => PagesHaveLatest'
    BY <2>1 DEF PagesHaveLatest, GetLatestPageContent, FindPageContentsByPageId, AtWorkOn, AtWork
  <2>4. \A t \in Threads : TablesKnown(t) => TablesKnown(t)'
    BY <2>1 DEF TablesKnown, CallsKnown, In, There
  <2> QED
    BY <1>1, <2>2, <2>3, <2>4 DEF TablesInv
<1> QED
  BY <1>2, <1>3, <1>4, SiteSteps

(* What the request of the only thread knows of the two tables: keys and   *)
(* versions are handed out in order, and where a step counts on its page   *)
(* or its rows they are there.                                             *)
THEOREM TablesInvariant == Spec => [](Serial => TablesInv)
<1>1. Init => (Serial => TablesInv)
  BY InitTables
<1>2. (Serial => TablesInv) /\ [Next]_vars => (Serial => TablesInv)'
  BY NextTables DEF Serial
<1> QED
  BY <1>1, <1>2, PTL DEF Spec

(* One editor at a time, no two versions of a page have one number, and    *)
(* the larger number is the later version: the history, which is ordered   *)
(* by number, and the latest version, which is the one of the latest time, *)
(* agree, whatever is deleted, reverted, renamed or cut off by a recycle.  *)
THEOREM HistoryStaysOrdered == Spec => []HistoryIsOrdered
<1>1. (Serial => TablesInv) => HistoryIsOrdered
  BY DEF TablesInv, VersionsInOrder, HistoryIsOrdered
<1> QED
  BY <1>1, TablesInvariant, PTL

-----------------------------------------------------------------------------
(* The page cache. *)

LEMMA PageEntriesMove ==
    ASSUME Serial, NEW t \in Threads, PageCacheKnown(t)',
           \A e \in pageCache' : PageEntryHolds(e)' \/ PageEntryIsToGo(t, e)'
    PROVE  PageCacheInv'
BY TheThread DEF PageCacheInv

LEMMA PageEntryOnly ==
    ASSUME PageCacheInv, Serial, NEW t \in Threads
    PROVE  /\ PageCacheKnown(t)
           /\ \A e \in pageCache : PageEntryHolds(e) \/ PageEntryIsToGo(t, e)
BY TheThread DEF PageCacheInv

(* Entries depend on pages and contents alone. *)
LEMMA PageEntryStays ==
    ASSUME UNCHANGED <<pages, contents>>, NEW e, PageEntryHolds(e)
    PROVE  PageEntryHolds(e)'
BY DEF PageEntryHolds, IsCurrent, GetPageById, GetLatestPageContent,
       FindPageContentsByPageId, GetPageContentByPageIdAndVersionNumber

PageCacheLabels == PageHasGone \cup {"get:content", "get:cache", "cmp:previous", "cmp:cache"}

LEMMA PageCacheAside ==
    ASSUME PageCacheInv, Serial, NEW t \in Threads, UNCHANGED <<pages, contents>>,
           pageCache' \subseteq pageCache,
           ~In(t, PageCacheIsToGo \cup PageIsToGo), ~In(t, PageCacheLabels)'
    PROVE  PageCacheInv'
<1>1. PageCacheKnown(t)'
  BY DEF PageCacheKnown, PageCacheLabels, PageHasGone, In
<1>2. \A e \in pageCache' : PageEntryHolds(e)
  BY PageEntryOnly DEF PageEntryIsToGo, In
<1> QED
  BY <1>1, <1>2, PageEntryStays, PageEntriesMove

LEMMA PageCacheEmptied ==
    ASSUME Serial, NEW t \in Threads, pageCache' = {},
           ~In(t, PageCacheLabels)' \/ In(t, PageHasGone)'
    PROVE  PageCacheInv'
<1>1. PageCacheKnown(t)'
  BY DEF PageCacheKnown, PageCacheLabels, PageHasGone, In, CachedPage
<1> QED
  BY <1>1, PageEntriesMove

LEMMA PageCacheGoes ==
    ASSUME Serial, NEW t \in Threads, In(t, PageCacheIsToGo)'
    PROVE  PageCacheInv'
<1>1. PageCacheKnown(t)'
  BY DEF PageCacheKnown, PageHasGone, PageCacheIsToGo, In
<1> QED
  BY <1>1, PageEntriesMove DEF PageEntryIsToGo

(* A version is added to the page p. *)
LEMMA PageEntryInserted ==
    ASSUME TypeOK, KeysInOrder, NEW p, There(p), NEW v, NEW text,
           InsertContent(p, v, text, clock),
           NEW e, PageEntryHolds(e), ~(e.id = p /\ e.version = LATEST_VERSION_NUMBER)
    PROVE  PageEntryHolds(e)'
<1>1. \A q : q # p => GetLatestPageContent(q)' = GetLatestPageContent(q)
  BY InsertedInOrder
<1>2. pages' = pages /\ contents \subseteq contents'
  BY NewRowNow
<1>3. CASE e.version = LATEST_VERSION_NUMBER
  <2>1. e.view.page.id = e.id /\ e.id # p /\ IsCurrent(e.view)
    BY <1>3 DEF PageEntryHolds
  <2>2. PICK q : q = e.view.page.id
    OBVIOUS
  <2>3. GetLatestPageContent(q)' = GetLatestPageContent(q) /\ GetPageById(q)' = GetPageById(q)
    BY <1>1, <1>2, <2>1, <2>2 DEF GetPageById
  <2>4. IsCurrent(e.view)'
    BY <2>1, <2>2, <2>3 DEF IsCurrent
  <2> QED
    BY <1>3, <2>1, <2>4 DEF PageEntryHolds
<1>4. CASE e.version # LATEST_VERSION_NUMBER
  BY <1>2, <1>4 DEF PageEntryHolds, GetPageContentByPageIdAndVersionNumber,
     FindPageContentsByPageId
<1> QED
  BY <1>3, <1>4

LEMMA ReadOnPageCache ==
    ASSUME TablesInv, PageCacheInv, Serial, NEW t \in Threads, ReadOn(t)
    PROVE  PageCacheInv'
<1>t. TypeOK
  BY DEF TablesInv
<1>p. /\ Passes(t, ReadLabels, ReadLabels \cup {"idle", "threw", "tag:next"})
      /\ UNCHANGED tables
  BY <1>t, ReadOnPasses
<1>u. UNCHANGED <<pages, contents>> /\ ~In(t, PageCacheIsToGo \cup PageIsToGo)
  BY <1>p DEF tables, Passes, In, ReadLabels, PageCacheIsToGo, PageIsToGo
<1>k. /\ PageCacheKnown(t)
      /\ \A e \in pageCache : PageEntryHolds(e)
  BY <1>u, PageEntryOnly DEF PageEntryIsToGo, In
<1>e. \A e \in pageCache : PageEntryHolds(e)'
  BY <1>k, <1>u, PageEntryStays
<1>q. /\ \A p : GetPageById(p)' = GetPageById(p)
      /\ \A p : GetLatestPageContent(p)' = GetLatestPageContent(p)
      /\ \A p, v : GetPageContentByPageIdAndVersionNumber(p, v)'
                     = GetPageContentByPageIdAndVersionNumber(p, v)
  BY <1>u DEF GetPageById, GetLatestPageContent, FindPageContentsByPageId,
     GetPageContentByPageIdAndVersionNumber
<1>m. Return(t) => rq'[t].pc = "idle"
  BY <1>t, Moved
<1> USE DEF In
<1>1. CASE GetByIdPage(t)
  <2>1. pageCache' = pageCache
    BY <1>1 DEF GetByIdPage, caches
  <2>2. PageCacheKnown(t)'
    <3>1. \/ rq'[t].pc = "idle"
          \/ /\ rq'[t].pc = "get:content"
             /\ rq'[t].page \in pages' /\ rq'[t].page.id = rq'[t].id
      BY <1>1, <1>t, <1>u, GetByIdPageMoves DEF GetPageById
    <3> QED
      BY <3>1 DEF PageCacheKnown, PageHasGone, GetPageById
  <2> QED
    BY <1>e, <2>1, <2>2, PageEntriesMove
<1>2. CASE GetByIdContent(t)
  <2>1. pageCache' = pageCache
    BY <1>2 DEF GetByIdContent, caches
  <2>2. CASE rq'[t].pc = "threw"
    BY <1>u, <2>1, <2>2, PageCacheAside DEF PageCacheLabels, PageHasGone
  <2>3. ASSUME NEW c \in GetLatestPageContent(rq[t].id),
               rq'[t].pc = "get:cache", rq'[t].id = rq[t].id,
               rq'[t].view = ViewOf(rq[t].page, c)
        PROVE  PageCacheKnown(t)'
    <3>1. rq[t].page \in GetPageById(rq[t].id)
      BY <1>2, <1>k DEF GetByIdContent, At, PageCacheKnown
    <3>2. PICK pg, view : pg = rq[t].page /\ view = ViewOf(pg, c)
      OBVIOUS
    <3>3. view.page = pg /\ pg.id = rq[t].id /\ pg \in GetPageById(pg.id)
      BY <3>1, <3>2 DEF ViewOf, GetPageById
    <3>4. IsCurrent(view)
      BY <2>3, <3>2, <3>3 DEF IsCurrent
    <3>5. IsCurrent(view)'
      BY <1>q, <3>4 DEF IsCurrent
    <3>6. rq'[t].view = view /\ rq'[t].view.page.id = rq'[t].id
      BY <2>3, <3>2, <3>3
    <3> QED
      BY <2>3, <3>5, <3>6 DEF PageCacheKnown, PageHasGone, IsCurrent
  <2> QED
    BY <1>t, <1>e, <1>2, <2>1, <2>2, <2>3, GetByIdContentMoves, PageEntriesMove
<1>3. CASE GetByIdCache(t)
  <2>1. /\ rq'[t].pc = "idle" /\ rq[t].pc = "get:cache"
        /\ CachePage(rq[t].id, LATEST_VERSION_NUMBER, rq[t].view)
    BY <1>3, <1>m DEF GetByIdCache, At
  <2>2. PICK e : e = [id |-> rq[t].id, version |-> LATEST_VERSION_NUMBER, view |-> rq[t].view]
    OBVIOUS
  <2>3. pageCache' \subseteq pageCache \cup {e}
    BY <2>1, <2>2 DEF CachePage
  <2>4. e.view.page.id = e.id /\ IsCurrent(e.view) /\ e.version = LATEST_VERSION_NUMBER
    BY <1>k, <2>1, <2>2 DEF PageCacheKnown
  <2>5. PageEntryHolds(e)
    BY <2>4 DEF PageEntryHolds
  <2>6. PageEntryHolds(e)'
    BY <1>u, <2>5, PageEntryStays
  <2>7. PageCacheKnown(t)'
    BY <2>1 DEF PageCacheKnown, PageHasGone
  <2> QED
    BY <1>e, <2>3, <2>6, <2>7, PageEntriesMove
<1>4. CASE HomePageAny(t) \/ HomePageContent(t) \/ HomePageCache(t)
  <2>1. pageCache' = pageCache
    BY <1>4 DEF HomePageAny, HomePageContent, HomePageCache, CacheHomePage, caches
  <2>2. rq'[t].pc \in {"idle", "threw", "home:content", "home:cache"}
    BY <1>4, <1>t, <1>m, HomePageAnyMoves, HomePageContentMoves DEF HomePageCache
  <2> QED
    BY <1>u, <2>1, <2>2, PageCacheAside DEF PageCacheLabels, PageHasGone
<1>5. CASE ListPages(t) \/ ListContent(t) \/ ListCacheAdd(t)
  <2>1. pageCache' = pageCache
    BY <1>5 DEF ListPages, ListContent, ListCacheAdd, CacheList, caches
  <2>2. rq'[t].pc \in {"idle", "threw", "list:contents", "list:cache", "tag:next"}
    BY <1>5, <1>t, ListPagesMoves, ListContentMoves, ListCacheAddMoves DEF ListContent, At
  <2> QED
    BY <1>u, <2>1, <2>2, PageCacheAside DEF PageCacheLabels, PageHasGone
<1>6. CASE ComparePrevious(t)
  <2>1. pageCache' = pageCache
    BY <1>6 DEF ComparePrevious, caches
  <2>2. CASE rq'[t].pc = "idle"
    BY <1>u, <2>1, <2>2, PageCacheAside DEF PageCacheLabels, PageHasGone
  <2>3. ASSUME NEW c \in GetPageContentByPageIdAndVersionNumber(rq[t].id, rq[t].ver),
               rq'[t].pc = "cmp:cache", rq'[t].id = rq[t].id, rq'[t].ver = rq[t].ver,
               rq'[t].view = ViewOf(rq[t].page, c)
        PROVE  PageCacheKnown(t)'
    <3>1. rq[t].ver # LATEST_VERSION_NUMBER
      BY <1>6, <1>k DEF ComparePrevious, At, PageCacheKnown
    <3>2. /\ rq'[t].view.text = c.text
          /\ c \in contents' /\ c.pageId = rq'[t].id /\ c.version = rq'[t].ver
      BY <1>u, <2>3 DEF ViewOf, GetPageContentByPageIdAndVersionNumber, FindPageContentsByPageId
    <3> QED
      BY <2>3, <3>1, <3>2 DEF PageCacheKnown, PageHasGone,
         GetPageContentByPageIdAndVersionNumber, FindPageContentsByPageId, LATEST_VERSION_NUMBER
  <2> QED
    BY <1>t, <1>e, <1>6, <2>1, <2>2, <2>3, ComparePreviousMoves, PageEntriesMove
<1>7. CASE CompareCache(t)
  <2>1. /\ rq'[t].pc = "idle" /\ rq[t].pc = "cmp:cache"
        /\ CachePage(rq[t].id, rq[t].ver, rq[t].view)
    BY <1>7, <1>m DEF CompareCache, At
  <2>2. PICK e : e = [id |-> rq[t].id, version |-> rq[t].ver, view |-> rq[t].view]
    OBVIOUS
  <2>3. pageCache' \subseteq pageCache \cup {e}
    BY <2>1, <2>2 DEF CachePage
  <2>4. /\ e.version # LATEST_VERSION_NUMBER
        /\ \E c \in GetPageContentByPageIdAndVersionNumber(e.id, e.version) : e.view.text = c.text
    BY <1>k, <2>1, <2>2 DEF PageCacheKnown
  <2>5. PageEntryHolds(e)
    BY <2>4 DEF PageEntryHolds
  <2>6. PageEntryHolds(e)'
    BY <1>u, <2>5, PageEntryStays
  <2>7. PageCacheKnown(t)'
    BY <2>1 DEF PageCacheKnown, PageHasGone
  <2> QED
    BY <1>e, <2>3, <2>6, <2>7, PageEntriesMove
<1> QED
  BY <1>1, <1>2, <1>3, <1>4, <1>5, <1>6, <1>7 DEF ReadOn

LEMMA UpdateOnPageCache ==
    ASSUME TablesInv, PageCacheInv, Serial, ~DatabaseMayFail, NEW t \in Threads,
           UpdateOn(t)
    PROVE  PageCacheInv'
<1>t. TypeOK /\ KeysInOrder /\ TablesKnown(t)
  BY DEF TablesInv
<1>k. /\ PageCacheKnown(t)
      /\ \A e \in pageCache : PageEntryHolds(e) \/ PageEntryIsToGo(t, e)
  BY PageEntryOnly
<1>m. /\ \A label : Goto(t, label) => rq'[t].pc = label /\ Stays(t)
      /\ Return(t) => rq'[t].pc = "idle"
      /\ Throw(t) => rq'[t].pc = "threw"
  BY <1>t, Moved
<1> USE DEF In
<1>1. CASE UpdatePageLoad(t) \/ UpdateLinksClearLists(t) \/ UpdatePageReread(t)
           \/ UpdatePageUnindex(t) \/ UpdatePageIndex(t)
  <2>1. UNCHANGED <<pages, contents>> /\ pageCache' = pageCache
    BY <1>1 DEF UpdatePageLoad, UpdateLinksClearLists, UpdatePageReread, UpdatePageUnindex,
       UpdatePageIndex, UncacheAllLists, tables, caches
  <2>2. /\ rq[t].pc \in {"upd:page", "upd:clearlists", "upd:latest", "upd:unindex", "upd:index"}
        /\ rq'[t].pc \in {"upd:save", "upd:latest", "upd:unindex", "upd:index", "tag:next",
                          "idle", "threw"}
    BY <1>1, <1>t, <1>m, UpdatePageLoadMoves, UpdatePageRereadMoves
    DEF UpdatePageLoad, UpdateLinksClearLists, UpdatePageReread, UpdatePageUnindex,
       UpdatePageIndex, At
  <2> QED
    BY <2>1, <2>2, PageCacheAside DEF PageCacheLabels, PageHasGone, PageCacheIsToGo, PageIsToGo
<1>2. CASE UpdatePageSave(t)
  <2>1. /\ rq[t].pc = "upd:save" /\ rq'[t].pc = "upd:cache" /\ rq'[t].id = rq[t].id
        /\ rq[t].page.id = rq[t].id
    BY <1>t, <1>2, <1>m DEF UpdatePageSave, At, Stays, TablesKnown
  <2>2. /\ pages' = {IF q.id = rq[t].page.id THEN rq[t].page ELSE q : q \in pages}
        /\ contents' = contents /\ pageCache' = pageCache
    BY <1>2 DEF UpdatePageSave, SaveOrUpdatePage, caches
  <2>3. PICK p : p = rq[t].id
    OBVIOUS
  <2>4. \A q : q # p => GetPageById(q)' = GetPageById(q)
    BY <2>1, <2>2, <2>3 DEF GetPageById
  <2>5. \A q : GetLatestPageContent(q)' = GetLatestPageContent(q)
    BY <2>2 DEF GetLatestPageContent, FindPageContentsByPageId
  <2>6. ASSUME NEW e \in pageCache, ~PageEntryIsToGo(t, e)'
        PROVE  PageEntryHolds(e)'
    <3>1. PageEntryHolds(e)
      BY <1>k, <2>1 DEF PageEntryIsToGo, PageCacheIsToGo, PageIsToGo
    <3>2. ~(e.id = p /\ e.version = LATEST_VERSION_NUMBER)
      BY <2>1, <2>3, <2>6 DEF PageEntryIsToGo, PageIsToGo
    <3>3. CASE e.version = LATEST_VERSION_NUMBER
      <4>1. PICK q : q = e.view.page.id
        OBVIOUS
      <4>2. q = e.id /\ q # p /\ IsCurrent(e.view)
        BY <3>1, <3>2, <3>3, <4>1 DEF PageEntryHolds
      <4>3. IsCurrent(e.view)'
        BY <2>4, <2>5, <4>1, <4>2 DEF IsCurrent
      <4> QED
        BY <3>3, <4>1, <4>2, <4>3 DEF PageEntryHolds
    <3>4. CASE e.version # LATEST_VERSION_NUMBER
      BY <2>2, <3>1, <3>4 DEF PageEntryHolds, GetPageContentByPageIdAndVersionNumber,
         FindPageContentsByPageId
    <3> QED
      BY <3>3, <3>4
  <2>7. PageCacheKnown(t)'
    BY <2>1 DEF PageCacheKnown, PageHasGone
  <2> QED
    BY <2>2, <2>6, <2>7, PageEntriesMove
<1>3. CASE UpdatePageUncache(t)
  <2>1. /\ rq[t].pc = "upd:cache" /\ rq'[t].pc \in {"upd:home", "upd:lists"}
        /\ rq'[t].id = rq[t].id
    BY <1>3, <1>m DEF UpdatePageUncache, At, Stays
  <2>2. /\ UNCHANGED <<pages, contents>>
        /\ pageCache' = {e \in pageCache : ~(e.id = rq[t].id /\ e.version = LATEST_VERSION_NUMBER)}
    BY <1>3 DEF UpdatePageUncache, UncachePage, CachedPage, tables
  <2>3. \A e \in pageCache' : PageEntryHolds(e)
    BY <1>k, <2>1, <2>2 DEF PageEntryIsToGo, PageCacheIsToGo, PageIsToGo
  <2>4. \A e \in pageCache' : PageEntryHolds(e)'
    BY <2>2, <2>3, PageEntryStays
  <2>5. PageCacheKnown(t)'
    BY <2>1, <2>2 DEF PageCacheKnown, PageHasGone, CachedPage, LATEST_VERSION_NUMBER
  <2> QED
    BY <2>4, <2>5, PageEntriesMove
<1>4. CASE UpdatePageUncacheHome(t) \/ UpdatePageUncacheLists(t) \/ UpdatePageMaxVersion(t)
           \/ UpdatePageTakeTime(t)
  <2>1. UNCHANGED <<pages, contents>> /\ pageCache' = pageCache
    BY <1>4, <1>t, UpdatePageTakeTimeMoves
    DEF UpdatePageUncacheHome, UpdatePageUncacheLists, UpdatePageMaxVersion,
       UncacheHomePage, UncacheAllLists, tables, rows, caches
  <2>2. /\ rq[t].pc \in {"upd:home", "upd:lists", "upd:max", "upd:time"}
        /\ \/ rq'[t].pc = "threw"
           \/ /\ rq'[t].pc \in {"upd:lists", "upd:max", "upd:time", "upd:insert"}
              /\ rq'[t].id = rq[t].id
    BY <1>4, <1>t, <1>m, UpdatePageMaxVersionMoves, UpdatePageTakeTimeMoves
    DEF UpdatePageUncacheHome, UpdatePageUncacheLists, UpdatePageMaxVersion, At, Stays
  <2>3. \A e \in pageCache' : PageEntryHolds(e)
    BY <1>k, <2>1, <2>2 DEF PageEntryIsToGo, PageCacheIsToGo, PageIsToGo
  <2>4. \A e \in pageCache' : PageEntryHolds(e)'
    BY <2>1, <2>3, PageEntryStays
  <2>5. PageCacheKnown(t)'
    BY <1>k, <2>1, <2>2 DEF PageCacheKnown, PageHasGone, CachedPage, LATEST_VERSION_NUMBER
  <2> QED
    BY <2>4, <2>5, PageEntriesMove
<1>5. CASE UpdatePageInsert(t)
  <2>1. PICK p : p = rq[t].id
    OBVIOUS
  <2>2. rq[t].pc = "upd:insert" /\ There(p) /\ rq[t].on = clock
    BY <1>t, <1>5, <2>1 DEF UpdatePageInsert, At, TablesKnown, PageIsThere
  <2>3. /\ AddNewPageContentVersion(p, rq[t].ver, rq[t].model.text, clock)
        /\ rq'[t].pc \in {"upd:latest", "upd:links"} /\ pageCache' = pageCache
    BY <1>5, <1>m, <2>1, <2>2 DEF UpdatePageInsert, MayReference, GetPageById, There, caches
  <2>4. PICK v, text : InsertContent(p, v, text, clock)
    BY <2>3 DEF AddNewPageContentVersion
  <2>5. \A e \in pageCache : /\ PageEntryHolds(e)
                             /\ ~(e.id = p /\ e.version = LATEST_VERSION_NUMBER)
    BY <1>k, <2>1, <2>2 DEF PageEntryIsToGo, PageCacheIsToGo, PageIsToGo, PageCacheKnown,
       PageHasGone, CachedPage
  <2>6. \A e \in pageCache' : PageEntryHolds(e)'
    BY <1>t, <2>2, <2>3, <2>4, <2>5, PageEntryInserted
  <2>7. PageCacheKnown(t)'
    BY <2>3 DEF PageCacheKnown, PageHasGone
  <2> QED
    BY <2>6, <2>7, PageEntriesMove
<1>6. CASE UpdateLinksRead(t)
  <2>1. UNCHANGED <<pages, contents>> /\ pageCache' = pageCache /\ rq[t].pc = "upd:links"
    BY <1>6 DEF UpdateLinksRead, At, tables, caches
  <2>2. rq'[t].pc = "upd:latest" \/ rq'[t].pc = "upd:rewrite"
    BY <1>6, <1>t, UpdateLinksReadMoves
  <2>3. CASE rq'[t].pc = "upd:latest"
    BY <2>1, <2>3, PageCacheAside DEF PageCacheLabels, PageHasGone, PageCacheIsToGo, PageIsToGo
  <2> QED
    BY <2>2, <2>3, PageCacheGoes DEF PageCacheIsToGo
<1>7. CASE UpdateLinksRewrite(t)
  <2>1. rq'[t].pc \in {"upd:rewrite", "upd:clearpages"}
    BY <1>7, <1>t, UpdateLinksRewriteMoves DEF UpdateLinksRewrite, At
  <2> QED
    BY <2>1, PageCacheGoes DEF PageCacheIsToGo
<1>8. CASE UpdateLinksClearPages(t)
  <2>1. pageCache' = {} /\ rq'[t].pc = "upd:clearlists"
    BY <1>8, <1>m DEF UpdateLinksClearPages, UncacheAllPages
  <2> QED
    BY <2>1, PageCacheEmptied DEF PageCacheLabels, PageHasGone
<1> QED
  BY <1>1, <1>2, <1>3, <1>4, <1>5, <1>6, <1>7, <1>8 DEF UpdateOn

LEMMA WriteOnPageCache ==
    ASSUME TablesInv, PageCacheInv, Serial, ~DatabaseMayFail, NEW t \in Threads,
           WriteOn(t)
    PROVE  PageCacheInv'
<1>t. TypeOK /\ KeysInOrder /\ TablesKnown(t)
  BY DEF TablesInv
<1>k. /\ PageCacheKnown(t)
      /\ \A e \in pageCache : PageEntryHolds(e) \/ PageEntryIsToGo(t, e)
  BY PageEntryOnly
<1>m. /\ \A label : Goto(t, label) => rq'[t].pc = label /\ Stays(t)
      /\ Return(t) => rq'[t].pc = "idle"
      /\ Throw(t) => rq'[t].pc = "threw"
  BY <1>t, Moved
<1> USE DEF In
<1>1. CASE AddPageContent(t)
  <2>1. PICK p : p = rq[t].id
    OBVIOUS
  <2>2. /\ rq[t].pc = "add:content" /\ There(p) /\ \A c \in contents : c.pageId # p
        /\ rq[t].on = clock
    BY <1>t, <1>1, <2>1 DEF AddPageContent, At, TablesKnown, PageIsThere
  <2>3. PICK text : InsertContent(p, 1, text, clock)
    BY <1>1, <2>1, <2>2 DEF AddPageContent, MayReference, GetPageById, There
  <2>4. rq'[t].pc \in {"add:lists", "threw"} /\ pageCache' = pageCache
    BY <1>1, <1>m DEF AddPageContent, caches
  <2>5. \A e \in pageCache : PageEntryHolds(e)
    BY <1>k, <2>2 DEF PageEntryIsToGo, PageCacheIsToGo, PageIsToGo
  <2>6. ASSUME NEW e \in pageCache, e.id = p, e.version = LATEST_VERSION_NUMBER
        PROVE  FALSE
    <3>1. e.view.page.id = p /\ IsCurrent(e.view)
      BY <2>5, <2>6 DEF PageEntryHolds
    <3> QED
      BY <2>2, <3>1 DEF IsCurrent, GetLatestPageContent, FindPageContentsByPageId
  <2>7. \A e \in pageCache' : PageEntryHolds(e)'
    BY <1>t, <2>2, <2>3, <2>4, <2>5, <2>6, PageEntryInserted
  <2>8. PageCacheKnown(t)'
    BY <2>4 DEF PageCacheKnown, PageHasGone
  <2> QED
    BY <2>7, <2>8, PageEntriesMove
<1>2. CASE AddPageClearLists(t) \/ AddPageIndex(t) \/ RevertMaxVersion(t) \/ RevertTakeTime(t)
  <2>1. UNCHANGED <<pages, contents>> /\ pageCache' = pageCache
    BY <1>2, <1>t, RevertTakeTimeMoves
    DEF AddPageClearLists, AddPageIndex, RevertMaxVersion, UncacheAllLists, tables, rows, caches
  <2>2. /\ rq[t].pc \in {"add:lists", "add:index", "rev:max", "rev:time"}
        /\ rq'[t].pc \in {"add:pages", "rev:time", "rev:insert", "idle", "threw"}
    BY <1>2, <1>t, <1>m, RevertMaxVersionMoves, RevertTakeTimeMoves
    DEF AddPageClearLists, AddPageIndex, RevertMaxVersion, At
  <2> QED
    BY <2>1, <2>2, PageCacheAside DEF PageCacheLabels, PageHasGone, PageCacheIsToGo, PageIsToGo
<1>3. CASE AddPageClearPages(t)
  <2>1. pageCache' = {} /\ rq'[t].pc = "add:index"
    BY <1>3, <1>m DEF AddPageClearPages, UncacheAllPages
  <2> QED
    BY <2>1, PageCacheEmptied DEF PageCacheLabels, PageHasGone
<1>4. CASE RevertInsert(t)
  <2>1. PICK p : p = rq[t].id
    OBVIOUS
  <2>2. rq[t].pc = "rev:insert" /\ There(p) /\ rq[t].on = clock
    BY <1>t, <1>4, <2>1 DEF RevertInsert, At, TablesKnown, PageIsThere
  <2>3. /\ AddNewPageContentVersion(p, rq[t].ver, rq[t].view.text, clock)
        /\ rq'[t].pc = "rev:cache" /\ rq'[t].id = p /\ pageCache' = pageCache
    BY <1>4, <1>m, <2>1, <2>2 DEF RevertInsert, MayReference, GetPageById, There, Stays, caches
  <2>4. PICK v, text : InsertContent(p, v, text, clock)
    BY <2>3 DEF AddNewPageContentVersion
  <2>5. \A e \in pageCache : PageEntryHolds(e)
    BY <1>k, <2>2 DEF PageEntryIsToGo, PageCacheIsToGo, PageIsToGo
  <2>6. \A e \in pageCache : ~(e.id = p /\ e.version = LATEST_VERSION_NUMBER)
                               => PageEntryHolds(e)'
    BY <1>t, <2>2, <2>4, <2>5, PageEntryInserted
  <2>7. \A e \in pageCache : (e.id = p /\ e.version = LATEST_VERSION_NUMBER)
                               => PageEntryIsToGo(t, e)'
    BY <2>3 DEF PageEntryIsToGo, PageIsToGo, LATEST_VERSION_NUMBER
  <2>8. PageCacheKnown(t)'
    BY <2>3 DEF PageCacheKnown, PageHasGone
  <2> QED
    BY <2>3, <2>6, <2>7, <2>8, PageEntriesMove
<1>5. CASE RevertCache(t)
  <2>1. rq[t].pc = "rev:cache" /\ rq'[t].pc = "idle"
    BY <1>5, <1>m DEF RevertCache, At
  <2>2. /\ UNCHANGED <<pages, contents>>
        /\ pageCache' = {e \in pageCache : ~(e.id = rq[t].id /\ e.version = LATEST_VERSION_NUMBER)}
    BY <1>5 DEF RevertCache, UncachePage, CachedPage, tables
  <2>3. \A e \in pageCache' : PageEntryHolds(e)
    BY <1>k, <2>1, <2>2 DEF PageEntryIsToGo, PageCacheIsToGo, PageIsToGo
  <2>4. \A e \in pageCache' : PageEntryHolds(e)'
    BY <2>2, <2>3, PageEntryStays
  <2>5. PageCacheKnown(t)'
    BY <2>1 DEF PageCacheKnown, PageHasGone
  <2> QED
    BY <2>4, <2>5, PageEntriesMove
<1>6. CASE RenameTagNext(t) \/ RenameTagUnindex(t) \/ RenameTagUncache(t)
  <2>1. UNCHANGED <<pages, contents>> /\ pageCache' = pageCache
    BY <1>6 DEF RenameTagNext, RenameTagUnindex, RenameTagUncache, RetagCached, UncacheList,
       tables, caches
  <2>2. /\ rq[t].pc \in {"tag:next", "tag:unindex", "tag:done"}
        /\ rq'[t].pc \in {"tag:unindex", "tag:done", "upd:page", "idle", "threw"}
    BY <1>6, <1>t, <1>m, RenameTagNextMoves, RenameTagUnindexMoves
    DEF RenameTagNext, RenameTagUnindex, RenameTagUncache, At
  <2> QED
    BY <2>1, <2>2, PageCacheAside DEF PageCacheLabels, PageHasGone, PageCacheIsToGo, PageIsToGo
<1>7. CASE DeletePageLatest(t) \/ DeletePageUnindex(t)
  <2>1. UNCHANGED <<pages, contents>> /\ pageCache' = pageCache
    BY <1>7 DEF DeletePageLatest, DeletePageUnindex, tables, caches
  <2>2. /\ rq[t].pc \in {"del:latest", "del:unindex"}
        /\ rq'[t].pc \in {"del:unindex", "del:children", "threw"}
    BY <1>7, <1>m DEF DeletePageLatest, DeletePageUnindex, At
  <2> QED
    BY <2>1, <2>2, PageCacheAside DEF PageCacheLabels, PageHasGone, PageCacheIsToGo, PageIsToGo
<1>8. CASE DeletePageChildren(t) \/ DeletePageContents(t) \/ DeletePageRow(t)
           \/ DeletePageClearLists(t) \/ ClearPagesContents(t) \/ ClearPagesLists(t)
  <2>1. rq'[t].pc \in {"del:contents", "del:row", "del:lists", "del:pages", "clr:lists",
                       "clr:pages"}
    BY <1>8, <1>t, <1>m, DeletePageChildrenMoves, DeletePageContentsMoves
    DEF DeletePageContents, DeletePageRow, DeletePageClearLists, ClearPagesContents,
       ClearPagesLists, At
  <2> QED
    BY <2>1, PageCacheGoes DEF PageCacheIsToGo
<1>9. CASE DeletePageClearPages(t) \/ ClearPagesPages(t)
  <2>1. pageCache' = {} /\ rq'[t].pc = "idle"
    BY <1>9, <1>m DEF DeletePageClearPages, ClearPagesPages, UncacheAllPages
  <2> QED
    BY <2>1, PageCacheEmptied DEF PageCacheLabels, PageHasGone
<1>10. CASE ClearCacheLists(t) \/ CreateIndexContent(t) \/ CreateIndexClose(t)
  <2>1. UNCHANGED <<pages, contents>> /\ pageCache' = pageCache
    BY <1>10 DEF ClearCacheLists, CreateIndexContent, CreateIndexClose, UncacheAllLists,
       tables, caches
  <2>2. /\ rq[t].pc \in {"cache:lists", "idx:contents", "idx:close"}
        /\ rq'[t].pc \in {"idx:contents", "idx:close", "idle", "threw"}
    BY <1>10, <1>t, <1>m, CreateIndexContentMoves
    DEF ClearCacheLists, CreateIndexContent, CreateIndexClose, At
  <2> QED
    BY <2>1, <2>2, PageCacheAside DEF PageCacheLabels, PageHasGone, PageCacheIsToGo, PageIsToGo
<1> QED
  BY <1>1, <1>2, <1>3, <1>4, <1>5, <1>6, <1>7, <1>8, <1>9, <1>10 DEF WriteOn, WriteStep,
     DatabaseFails

LEMMA ArrivePageCache ==
    ASSUME TablesInv, PageCacheInv, Serial, NEW t \in Threads, Arrives(t)
    PROVE  PageCacheInv'
<1>t. TypeOK /\ KeysInOrder
  BY DEF TablesInv
<1>i. rq[t].pc \in {"idle", "threw"} /\ ~In(t, PageCacheIsToGo \cup PageIsToGo)
  BY <1>t, ArriveIdle DEF In, PageCacheIsToGo, PageIsToGo
<1>k. \A e \in pageCache : PageEntryHolds(e)
  BY <1>i, PageEntryOnly DEF PageEntryIsToGo, In
<1> USE DEF In
<1>1. CASE GetByIdMiss(t) \/ HomePageMiss(t) \/ ListMiss(t)
  <2>1. UNCHANGED <<pages, contents>> /\ pageCache' = pageCache
    BY <1>1 DEF GetByIdMiss, HomePageMiss, ListMiss, tables, caches
  <2>2. rq'[t].pc \in {"get:page", "home:any", "home:content", "list:pages"}
    BY <1>1, <1>t, ReadArrivals
  <2> QED
    BY <1>i, <2>1, <2>2, PageCacheAside DEF PageCacheLabels, PageHasGone
<1>2. CASE CompareMiss(t)
  <2>1. UNCHANGED <<pages, contents>> /\ pageCache' = pageCache
    BY <1>2 DEF CompareMiss, tables, caches
  <2>2. rq'[t].pc = "cmp:previous" /\ rq'[t].ver # 0
    BY <1>2, <1>t, ReadArrivals
  <2>3. PageCacheKnown(t)'
    BY <2>2 DEF PageCacheKnown, PageHasGone, LATEST_VERSION_NUMBER
  <2>4. \A e \in pageCache : PageEntryHolds(e)'
    BY <1>k, <2>1, PageEntryStays
  <2> QED
    BY <2>1, <2>3, <2>4, PageEntriesMove
<1>3. CASE AddPageRow(t)
  <2>1. PICK page \in Page : /\ rq'[t].pc = "add:content" /\ page.id = nextPage
                             /\ pages' = pages \cup {page} /\ contents' = contents
    BY <1>3, <1>t, AddPageRowMoves
  <2>2. pageCache' = pageCache
    BY <1>3 DEF AddPageRow, caches
  <2>3. ASSUME NEW e \in pageCache PROVE PageEntryHolds(e)'
    <3>1. \A view : IsCurrent(view) => IsCurrent(view)'
      BY <2>1 DEF IsCurrent, GetPageById, GetLatestPageContent, FindPageContentsByPageId
    <3> QED
      BY <1>k, <2>1, <2>3, <3>1 DEF PageEntryHolds, GetPageContentByPageIdAndVersionNumber,
         FindPageContentsByPageId
  <2>4. PageCacheKnown(t)'
    BY <2>1 DEF PageCacheKnown, PageHasGone
  <2> QED
    BY <2>2, <2>3, <2>4, PageEntriesMove
<1>4. CASE UpdateForm(t) \/ RevertVersion(t) \/ RenameTagFind(t)
  <2>1. UNCHANGED <<pages, contents>> /\ pageCache' = pageCache
    BY <1>4 DEF UpdateForm, RevertVersion, RenameTagFind, tables, caches
  <2>2. rq'[t].pc \in {"upd:page", "rev:max", "list:pages", "tag:next"}
    BY <1>4, <1>t, UpdateFormMoves, RevertVersionMoves, RenameTagFindMoves
  <2> QED
    BY <1>i, <2>1, <2>2, PageCacheAside DEF PageCacheLabels, PageHasGone
<1>5. CASE DeletePageLoad(t) \/ CreateIndexPages(t)
  <2>1. UNCHANGED <<pages, contents>> /\ pageCache' = pageCache
    BY <1>5 DEF DeletePageLoad, CreateIndexPages, tables, caches
  <2>2. rq'[t].pc \in {"del:latest", "idx:contents", "threw"}
    BY <1>5, <1>t, OtherArrivals
  <2> QED
    BY <1>i, <2>1, <2>2, PageCacheAside DEF PageCacheLabels, PageHasGone
<1>6. CASE ClearPagesRows(t)
  <2>1. pageCache' = pageCache
    BY <1>6 DEF ClearPagesRows, caches
  <2>2. CASE rq'[t].pc = "threw" /\ UNCHANGED tables
    BY <1>i, <2>1, <2>2, PageCacheAside DEF PageCacheLabels, PageHasGone, tables
  <2> QED
    BY <1>6, <1>t, <2>2, OtherArrivals, PageCacheGoes DEF PageCacheIsToGo
<1>7. CASE ClearCachePages(t)
  <2>1. pageCache' = {} /\ rq'[t].pc = "cache:lists"
    BY <1>7, <1>t, OtherArrivals DEF ClearCachePages, UncacheAllPages
  <2> QED
    BY <2>1, PageCacheEmptied DEF PageCacheLabels, PageHasGone
<1> QED
  BY <1>1, <1>2, <1>3, <1>4, <1>5, <1>6, <1>7 DEF Arrives, Arrive

LEMMA NextPageCache ==
    ASSUME TablesInv, PageCacheInv, Serial, ~DatabaseMayFail, [Next]_vars
    PROVE  PageCacheInv'
<1>1. ASSUME NEW t \in Threads, Arrives(t) \/ GoOn(t)
      PROVE  PageCacheInv'
  BY <1>1, ArrivePageCache, ReadOnPageCache, UpdateOnPageCache, WriteOnPageCache DEF GoOn
<1>2. CASE Recycle
  <2>1. pageCache' = {} /\ \A t \in Threads : rq'[t].pc = "idle"
    BY <1>2 DEF Recycle, Idle
  <2> QED
    BY <2>1 DEF PageCacheInv, PageCacheKnown, PageHasGone, In
<1>3. CASE UNCHANGED site
  <2>1. UNCHANGED <<pages, contents, pageCache, rq>>
    BY <1>3 DEF site, tables, caches
  <2>2. \A e : PageEntryHolds(e) => PageEntryHolds(e)'
    BY <2>1, PageEntryStays
  <2>3. \A t : PageCacheKnown(t) => PageCacheKnown(t)'
    BY <2>1 DEF PageCacheKnown, CachedPage, GetPageById, IsCurrent, GetLatestPageContent,
       FindPageContentsByPageId, GetPageContentByPageIdAndVersionNumber, In
  <2>4. \A t, e : PageEntryIsToGo(t, e) => PageEntryIsToGo(t, e)'
    BY <2>1 DEF PageEntryIsToGo, In
  <2> QED
    BY <2>1, <2>2, <2>3, <2>4 DEF PageCacheInv
<1> QED
  BY <1>1, <1>2, <1>3, SiteSteps DEF TablesInv

LEMMA InitPageCache == Init => PageCacheInv
<1> SUFFICES ASSUME Init PROVE PageCacheInv
  OBVIOUS
<1>1. pageCache = {} /\ \A t \in Threads : rq[t].pc = "idle"
  BY DEF Init, CachesInit, Idle
<1> QED
  BY <1>1 DEF PageCacheInv, PageCacheKnown, PageHasGone, In

(* What is cached of a page is so, or the request that made it stale is    *)
(* about to remove it (PageEntryIsToGo): UpdatePage and RevertTo that page *)
(* alone, rewriting links, DeletePage and ClearPages all of the cache.     *)
THEOREM PageCacheInvariant == Spec => [](Serial /\ ~DatabaseMayFail => PageCacheInv)
<1>1. Init => (Serial /\ ~DatabaseMayFail => PageCacheInv)
  BY InitPageCache
<1>2. /\ Serial => TablesInv
      /\ Serial /\ ~DatabaseMayFail => PageCacheInv
      /\ [Next]_vars
      => (Serial /\ ~DatabaseMayFail => PageCacheInv)'
  BY NextPageCache DEF Serial
<1> QED
  BY <1>1, <1>2, TablesInvariant, PTL DEF Spec

(* Between two requests, with one request at a time, the page cache shows  *)
(* of each page what is stored as its latest version, and of each older    *)
(* version the text it has now, as long as the database does not fail.     *)
(* The entries that AddPage, UpdatePage, RevertTo and DeletePage leave     *)
(* stale for some steps they remove before they end, by an exception or    *)
(* otherwise.                                                              *)
THEOREM PageCacheStaysCurrent == Spec => []PageCacheIsCurrent
<1>1. (Serial /\ ~DatabaseMayFail => PageCacheInv) => PageCacheIsCurrent
  <2> SUFFICES ASSUME Serial, Quiet, PageCacheInv, NEW e \in pageCache
               PROVE  PageEntryHolds(e)
    BY DEF PageCacheIsCurrent, PageEntryHolds
  <2> QED
    BY DEF PageCacheInv, PageEntryIsToGo, In, Quiet, Between, PageCacheIsToGo, PageIsToGo
<1> QED
  BY <1>1, PageCacheInvariant, PTL

-----------------------------------------------------------------------------
(* The lists. *)

LEMMA ListsMove ==
    ASSUME Serial, NEW t \in Threads, ListsKnown(t)',
           \A e \in listCache' : ListEntryHolds(e)' \/ In(t, ListsAreToGo)'
    PROVE  ListsInv'
BY TheThread DEF ListsInv

LEMMA ListsOnly ==
    ASSUME ListsInv, Serial, NEW t \in Threads
    PROVE  /\ ListsKnown(t)
           /\ ~In(t, ListsAreToGo) => \A e \in listCache : ListEntryHolds(e)
BY TheThread DEF ListsInv

(* Entries depend on pages and contents alone. *)
LEMMA ListEntryStays ==
    ASSUME UNCHANGED <<pages, contents>>, NEW e, ListEntryHolds(e)
    PROVE  ListEntryHolds(e)'
BY DEF ListEntryHolds, IsCurrent, GetPageById, GetLatestPageContent,
       FindPageContentsByPageId, ListedPages, FindPagesCreatedBy, FindPagesContainingTag

LEMMA ListedPagesAreThere ==
    ASSUME NEW key
    PROVE  ListedPages(key) \subseteq pages
BY DEF ListedPages, FindPagesCreatedBy, FindPagesContainingTag

(* Where something is known of the lists. *)
ListsLabels ==
    UpdateLabels \cup {"tag:next", "list:pages", "list:contents", "list:cache"}

LEMMA ListsAside ==
    ASSUME ListsInv, Serial, NEW t \in Threads, UNCHANGED <<pages, contents>>,
           listCache' \subseteq listCache, ~In(t, ListsAreToGo), ~In(t, ListsLabels)'
    PROVE  ListsInv'
<1>1. ListsKnown(t)'
  BY DEF ListsKnown, ListsLabels, UpdateLabels, ListsHaveGone, In
<1>2. \A e \in listCache' : ListEntryHolds(e)
  BY ListsOnly
<1> QED
  BY <1>1, <1>2, ListEntryStays, ListsMove

LEMMA ListsEmptied ==
    ASSUME Serial, NEW t \in Threads, listCache' = {}, ~In(t, ListsLabels)'
    PROVE  ListsInv'
<1>1. ListsKnown(t)'
  BY DEF ListsKnown, ListsLabels, UpdateLabels, ListsHaveGone, In
<1> QED
  BY <1>1, ListsMove

LEMMA ListsGo ==
    ASSUME Serial, NEW t \in Threads, In(t, ListsAreToGo \ UpdateLabels)'
    PROVE  ListsInv'
<1>1. ListsKnown(t)'
  BY DEF ListsKnown, ListsAreToGo, UpdateLabels, ListsHaveGone, In
<1> QED
  BY <1>1, ListsMove DEF In

(* UpdatePage goes on, and nothing it knows of the pages is lost. *)
LEMMA UpdateGoesOn ==
    ASSUME ListsInv, Serial, NEW t \in Threads, In(t, UpdateLabels),
           In(t, (UpdateLabels \ {"upd:page", "tag:unindex"}) \cup {"tag:next"})',
           rq'[t].views = rq[t].views, rq'[t].todo = rq[t].todo,
           \A p : There(p) => There(p)',
           listCache' = {} \/ In(t, ListsAreToGo)'
    PROVE  ListsInv'
<1>1. ListsKnown(t)
  BY ListsOnly
<1>2. /\ \A view \in rq[t].views : There(view.page.id)
      /\ \A pg \in rq[t].todo : There(pg.id)
  BY <1>1 DEF ListsKnown, In
<1>3. \A p : There(p) => There(p)'
  OBVIOUS
<1>4. /\ \A view \in rq'[t].views : There(view.page.id)'
      /\ \A pg \in rq'[t].todo : There(pg.id)'
  BY <1>2, <1>3 DEF There
<1>5. In(t, ListsHaveGone)' => listCache' = {}
  BY DEF In, ListsHaveGone, ListsAreToGo
<1>6. ListsKnown(t)'
  BY <1>4, <1>5 DEF ListsKnown, UpdateLabels, ListsHaveGone, In
<1> QED
  BY <1>6, ListsMove

LEMMA ReadOnLists ==
    ASSUME TablesInv, ListsInv, Serial, NEW t \in Threads, ReadOn(t)
    PROVE  ListsInv'
<1>t. TypeOK
  BY DEF TablesInv
<1>p. /\ Passes(t, ReadLabels, ReadLabels \cup {"idle", "threw", "tag:next"})
      /\ UNCHANGED tables
  BY <1>t, ReadOnPasses
<1>u. UNCHANGED <<pages, contents>> /\ ~In(t, ListsAreToGo)
  BY <1>p DEF tables, Passes, In, ReadLabels, ListsAreToGo
<1>k. /\ ListsKnown(t)
      /\ \A e \in listCache : ListEntryHolds(e)
  BY <1>u, ListsOnly
<1>e. \A e \in listCache : ListEntryHolds(e)'
  BY <1>k, <1>u, ListEntryStays
<1>q. /\ \A p : GetPageById(p)' = GetPageById(p)
      /\ \A p : GetLatestPageContent(p)' = GetLatestPageContent(p)
      /\ \A key : ListedPages(key)' = ListedPages(key)
  BY <1>u DEF GetPageById, GetLatestPageContent, FindPageContentsByPageId, ListedPages,
     FindPagesCreatedBy, FindPagesContainingTag
<1>m. /\ \A label : Goto(t, label) => rq'[t].pc = label /\ Stays(t)
      /\ Return(t) => rq'[t].pc = "idle"
  BY <1>t, Moved
<1> USE DEF In
<1>1. CASE ListPages(t)
  <2>1. listCache' = listCache /\ rq[t].views = {} /\ rq[t].todo = {}
    BY <1>1, <1>k DEF ListPages, At, ListsKnown, caches
  <2>2. CASE /\ WithContent(rq[t].key) /\ rq'[t].pc = "list:contents"
             /\ rq'[t].todo = ListedPages(rq[t].key) /\ rq'[t].views = rq[t].views
    <3>1. PICK key : key = rq[t].key
      OBVIOUS
    <3>2. /\ rq'[t].key = key /\ WithContent(key) /\ rq'[t].views = {}
          /\ rq'[t].todo = ListedPages(key)'
      BY <1>1, <1>t, <1>q, <2>1, <2>2, <3>1, ListPagesMoves
    <3>3. ListsKnown(t)'
      BY <2>2, <3>2 DEF ListsKnown, UpdateLabels, ListsHaveGone, WithContent
    <3> QED
      BY <1>e, <2>1, <3>3, ListsMove
  <2>3. CASE /\ ~WithContent(rq[t].key) /\ rq'[t].pc = "list:cache"
             /\ rq'[t].views = {PageOnly(pg) : pg \in pages}
    <3>1. PICK key : key = rq[t].key
      OBVIOUS
    <3>2. rq'[t].key = key /\ ~WithContent(key)
      BY <1>1, <1>t, <2>3, <3>1, ListPagesMoves
    <3>3. ListedPages(key) = pages
      BY <3>2 DEF ListedPages, WithContent
    <3>4. \A pg : PageOnly(pg).page = pg
      BY DEF PageOnly, BlankView
    <3>5. {view.page : view \in rq'[t].views} = ListedPages(key)'
      BY <1>q, <2>3, <3>3, <3>4
    <3>6. ListsKnown(t)'
      BY <2>3, <3>2, <3>5 DEF ListsKnown, UpdateLabels, ListsHaveGone, WithContent
    <3> QED
      BY <1>e, <2>1, <3>6, ListsMove
  <2> QED
    BY <1>1, <1>t, <2>2, <2>3, ListPagesMoves
<1>2. CASE ListContent(t)
  <2>1. PICK key, views, todo : key = rq[t].key /\ views = rq[t].views /\ todo = rq[t].todo
    OBVIOUS
  <2>2. /\ listCache' = listCache /\ rq[t].pc = "list:contents"
        /\ WithContent(key) /\ {view.page : view \in views} \cup todo = ListedPages(key)
        /\ \A view \in views : IsCurrent(view)
    BY <1>2, <1>k, <2>1 DEF ListContent, At, ListsKnown, caches
  <2>3. \A view \in views : IsCurrent(view)'
    BY <1>q, <2>2 DEF IsCurrent
  <2>4. CASE rq'[t].pc = "threw"
    BY <1>u, <2>2, <2>4, ListsAside DEF ListsLabels, UpdateLabels, ListsHaveGone
  <2>5. CASE rq[t].todo = {} /\ rq'[t].pc = "list:cache" /\ Stays(t)
    <3>1. /\ rq'[t].key = key /\ rq'[t].views = views
          /\ {view.page : view \in views} = ListedPages(key)'
      BY <1>q, <2>1, <2>2, <2>5 DEF Stays
    <3>2. ListsKnown(t)'
      BY <2>3, <2>5, <3>1 DEF ListsKnown, UpdateLabels, ListsHaveGone, WithContent, IsCurrent
    <3> QED
      BY <1>e, <2>2, <3>2, ListsMove
  <2>6. ASSUME NEW pg \in rq[t].todo, NEW c \in GetLatestPageContent(pg.id),
               rq'[t].pc = rq[t].pc, rq'[t].key = rq[t].key,
               rq'[t].todo = rq[t].todo \ {pg},
               rq'[t].views = rq[t].views \cup {ViewOf(pg, c)}
        PROVE  ListsInv'
    <3>1. PICK view : view = ViewOf(pg, c)
      OBVIOUS
    <3>2. view.page = pg
      BY <3>1 DEF ViewOf
    <3>3. pg \in pages
      BY <2>1, <2>2, ListedPagesAreThere
    <3>4. IsCurrent(view)
      BY <3>1, <3>2, <3>3 DEF IsCurrent, GetPageById
    <3>5. IsCurrent(view)'
      BY <1>q, <3>4 DEF IsCurrent
    <3>6. /\ rq'[t].pc = "list:contents" /\ rq'[t].key = key
          /\ rq'[t].views = views \cup {view} /\ rq'[t].todo = todo \ {pg} /\ pg \in todo
      BY <2>1, <2>2, <2>6, <3>1
    <3>7. {v.page : v \in views \cup {view}} \cup (todo \ {pg}) = ListedPages(key)
      BY <2>2, <3>2, <3>6
    <3>8. ListsKnown(t)'
      BY <1>q, <2>2, <2>3, <3>5, <3>6, <3>7
      DEF ListsKnown, UpdateLabels, ListsHaveGone, WithContent, IsCurrent
    <3> QED
      BY <1>e, <2>2, <3>8, ListsMove
  <2> QED
    BY <1>t, <1>2, <2>4, <2>5, <2>6, ListContentMoves
<1>3. CASE ListCacheAdd(t)
  <2>1. PICK key, views : key = rq[t].key /\ views = rq[t].views
    OBVIOUS
  <2>2. /\ {view.page : view \in views} = ListedPages(key)
        /\ WithContent(key) => \A view \in views : IsCurrent(view)
        /\ CacheList(key, views)
        /\ key \in ListKey
    BY <1>3, <1>k, <1>t, <2>1, Moved DEF ListCacheAdd, At, ListsKnown, Request
  <2>3. PICK stored : stored = StoredKey(key)
    OBVIOUS
  <2>4. stored.list = key.list /\ stored.arg = key.arg
    BY <2>2, <2>3 DEF StoredKey, ListKey
  <2>5. PICK e : e = [key |-> stored, views |-> views]
    OBVIOUS
  <2>6. listCache' \subseteq listCache \cup {e}
    BY <2>2, <2>3, <2>5 DEF CacheList
  <2>7. ListEntryHolds(e)
    BY <2>2, <2>4, <2>5 DEF ListEntryHolds, WithContent, ListedPages
  <2>8. ListEntryHolds(e)'
    BY <1>u, <2>7, ListEntryStays
  <2>9. ListsKnown(t)'
    <3>1. CASE rq'[t].pc = "idle"
      BY <3>1 DEF ListsKnown, UpdateLabels, ListsHaveGone
    <3>2. CASE /\ rq'[t].pc = "tag:next" /\ rq'[t].views = {}
               /\ rq'[t].todo = {v.page : v \in rq[t].views}
      <4>1. rq'[t].todo \subseteq pages'
        BY <1>u, <2>1, <2>2, <3>2, ListedPagesAreThere
      <4> QED
        BY <3>2, <4>1 DEF ListsKnown, UpdateLabels, ListsHaveGone, There
    <3> QED
      BY <1>3, <1>t, <3>1, <3>2, ListCacheAddMoves
  <2> QED
    BY <1>e, <2>6, <2>8, <2>9, ListsMove
<1>4. CASE GetByIdPage(t) \/ GetByIdContent(t) \/ GetByIdCache(t) \/ HomePageAny(t)
           \/ HomePageContent(t) \/ HomePageCache(t) \/ ComparePrevious(t) \/ CompareCache(t)
  <2>1. listCache' = listCache
    BY <1>4 DEF GetByIdPage, GetByIdContent, GetByIdCache, HomePageAny, HomePageContent,
       HomePageCache, ComparePrevious, CompareCache, CachePage, CacheHomePage, caches
  <2>2. rq'[t].pc \in {"idle", "threw", "get:content", "get:cache", "home:content",
                       "home:cache", "cmp:cache"}
    BY <1>4, <1>t, <1>m, GetByIdPageMoves, GetByIdContentMoves, HomePageAnyMoves,
       HomePageContentMoves, ComparePreviousMoves
    DEF GetByIdCache, HomePageCache, CompareCache
  <2> QED
    BY <1>u, <2>1, <2>2, ListsAside DEF ListsLabels, UpdateLabels, ListsHaveGone
<1> QED
  BY <1>1, <1>2, <1>3, <1>4 DEF ReadOn

LEMMA UpdateOnLists ==
    ASSUME TablesInv, ListsInv, Serial, NEW t \in Threads, UpdateOn(t)
    PROVE  ListsInv'
<1>t. TypeOK /\ KeysInOrder /\ TablesKnown(t)
  BY DEF TablesInv
<1>k. ListsKnown(t) /\ (~In(t, ListsAreToGo) => \A e \in listCache : ListEntryHolds(e))
  BY ListsOnly
<1>m. /\ \A label : Goto(t, label) => rq'[t].pc = label /\ Stays(t)
      /\ Return(t) => rq'[t].pc = "idle"
      /\ Throw(t) => rq'[t].pc = "threw"
  BY <1>t, Moved
<1> USE DEF In
<1>1. CASE UpdatePageLoad(t)
  <2>1. /\ rq[t].pc = "upd:page" /\ UNCHANGED <<pages, contents>>
        /\ listCache' = listCache
    BY <1>1 DEF UpdatePageLoad, At, tables, caches
  <2>2. CASE rq'[t].pc = "threw" /\ GetPageById(rq[t].id) = {}
    <3>1. ~There(rq[t].id)
      BY <2>2 DEF There, GetPageById
    <3>2. \A e \in listCache : ListEntryHolds(e)'
      BY <1>k, <2>1, <3>1, ListEntryStays DEF ListsKnown
    <3>3. ListsKnown(t)'
      BY <2>2 DEF ListsKnown, UpdateLabels, ListsHaveGone
    <3> QED
      BY <2>1, <3>2, <3>3, ListsMove
  <2>3. CASE /\ rq'[t].pc = "upd:save"
             /\ rq'[t].views = rq[t].views /\ rq'[t].todo = rq[t].todo
    BY <2>1, <2>3, UpdateGoesOn DEF UpdateLabels, ListsHaveGone, ListsAreToGo, There
  <2> QED
    BY <1>1, <1>t, <2>2, <2>3, UpdatePageLoadMoves
<1>2. CASE UpdatePageSave(t)
  <2>1. /\ rq[t].pc = "upd:save" /\ rq'[t].pc = "upd:cache"
        /\ rq'[t].views = rq[t].views /\ rq'[t].todo = rq[t].todo
    BY <1>2, <1>m DEF UpdatePageSave, At, Stays
  <2>2. \A p : There(p) => There(p)'
    <3>1. PICK page : page = rq[t].page
      OBVIOUS
    <3>2. pages' = {IF q.id = page.id THEN page ELSE q : q \in pages}
      BY <1>2, <3>1 DEF UpdatePageSave, SaveOrUpdatePage
    <3> QED
      BY <3>2 DEF There
  <2> QED
    BY <2>1, <2>2, UpdateGoesOn DEF UpdateLabels, ListsHaveGone, ListsAreToGo
<1>3. CASE UpdatePageUncache(t) \/ UpdatePageUncacheHome(t)
  <2>1. /\ rq[t].pc \in {"upd:cache", "upd:home"} /\ rq'[t].pc \in {"upd:home", "upd:lists"}
        /\ rq'[t].views = rq[t].views /\ rq'[t].todo = rq[t].todo /\ pages' = pages
    BY <1>3, <1>m DEF UpdatePageUncache, UpdatePageUncacheHome, At, Stays, tables
  <2> QED
    BY <2>1, UpdateGoesOn DEF UpdateLabels, ListsHaveGone, ListsAreToGo, There
<1>4. CASE UpdatePageUncacheLists(t) \/ UpdateLinksClearLists(t)
  <2>1. /\ rq[t].pc \in {"upd:lists", "upd:clearlists"}
        /\ rq'[t].pc \in {"upd:max", "upd:latest"}
        /\ rq'[t].views = rq[t].views /\ rq'[t].todo = rq[t].todo /\ pages' = pages
        /\ listCache' = {}
    BY <1>4, <1>m DEF UpdatePageUncacheLists, UpdateLinksClearLists, UncacheAllLists, At,
       Stays, tables
  <2> QED
    BY <2>1, UpdateGoesOn DEF UpdateLabels, ListsHaveGone, There
<1>5. CASE UpdatePageMaxVersion(t) \/ UpdatePageInsert(t) \/ UpdateLinksRead(t)
           \/ UpdateLinksRewrite(t) \/ UpdateLinksClearPages(t) \/ UpdatePageReread(t)
           \/ UpdatePageUnindex(t) \/ UpdatePageIndex(t) \/ UpdatePageTakeTime(t)
  <2>1. /\ rq[t].pc \in ListsHaveGone
        /\ listCache' = listCache
    BY <1>5, <1>t, UpdatePageTakeTimeMoves
    DEF UpdatePageMaxVersion, UpdatePageInsert, UpdateLinksRead, UpdateLinksRewrite,
       UpdateLinksClearPages, UpdatePageReread, UpdatePageUnindex, UpdatePageIndex,
       UncacheAllPages, At, ListsHaveGone, caches
  <2>2. listCache' = {}
    BY <1>k, <2>1 DEF ListsKnown
  <2>3. pages' = pages
    <3>1. UpdatePageInsert(t) => pages' = pages
      BY DEF UpdatePageInsert, AddNewPageContentVersion, InsertContent, tables, rows
    <3>2. UpdateLinksRewrite(t) => pages' = pages
      BY DEF UpdateLinksRewrite, UpdatePageContent, tables
    <3> QED
      BY <1>5, <1>t, <3>1, <3>2, UpdatePageTakeTimeMoves
      DEF rows, UpdatePageMaxVersion, UpdateLinksRead, UpdateLinksClearPages,
         UpdatePageReread, UpdatePageUnindex, UpdatePageIndex, tables
  <2>4. \/ rq'[t].pc \in {"idle", "threw"}
        \/ /\ rq'[t].pc \in {"upd:time", "upd:insert", "upd:latest", "upd:links", "upd:rewrite",
                             "upd:clearpages", "upd:clearlists", "upd:unindex", "upd:index",
                             "tag:next"}
           /\ rq'[t].views = rq[t].views /\ rq'[t].todo = rq[t].todo
    <3>1. CASE UpdatePageMaxVersion(t) \/ UpdateLinksRead(t) \/ UpdatePageReread(t)
               \/ UpdatePageTakeTime(t)
      BY <1>t, <3>1, UpdatePageMaxVersionMoves, UpdateLinksReadMoves, UpdatePageRereadMoves,
         UpdatePageTakeTimeMoves
      DEF Stays
    <3>2. CASE UpdateLinksRewrite(t)
      BY <1>t, <3>2, UpdateLinksRewriteMoves DEF UpdateLinksRewrite, At, Stays
    <3>3. CASE UpdatePageInsert(t) \/ UpdateLinksClearPages(t) \/ UpdatePageUnindex(t)
               \/ UpdatePageIndex(t)
      BY <1>m, <3>3 DEF UpdatePageInsert, UpdateLinksClearPages, UpdatePageUnindex,
         UpdatePageIndex, Stays
    <3> QED
      BY <1>5, <3>1, <3>2, <3>3
  <2>5. CASE rq'[t].pc \in {"idle", "threw"}
    BY <2>2, <2>5, ListsEmptied DEF ListsLabels, UpdateLabels, ListsHaveGone
  <2>6. CASE rq'[t].pc \notin {"idle", "threw"}
    BY <2>1, <2>2, <2>3, <2>4, <2>6, UpdateGoesOn DEF UpdateLabels, ListsHaveGone, There
  <2> QED
    BY <2>5, <2>6
<1> QED
  BY <1>1, <1>2, <1>3, <1>4, <1>5 DEF UpdateOn

LEMMA WriteOnLists ==
    ASSUME TablesInv, ListsInv, Serial, ~DatabaseMayFail, NEW t \in Threads,
           WriteOn(t)
    PROVE  ListsInv'
<1>t. TypeOK /\ KeysInOrder /\ TablesKnown(t)
  BY DEF TablesInv
<1>k. ListsKnown(t) /\ (~In(t, ListsAreToGo) => \A e \in listCache : ListEntryHolds(e))
  BY ListsOnly
<1>m. /\ \A label : Goto(t, label) => rq'[t].pc = label /\ Stays(t)
      /\ Return(t) => rq'[t].pc = "idle"
      /\ Throw(t) => rq'[t].pc = "threw"
  BY <1>t, Moved
<1> USE DEF In
<1>1. CASE AddPageContent(t)
  <2>1. PICK p : p = rq[t].id
    OBVIOUS
  <2>2. There(p)
    BY <1>t, <1>1, <2>1 DEF AddPageContent, At, TablesKnown, PageIsThere
  <2>3. rq'[t].pc = "add:lists"
    BY <1>1, <1>m, <2>1, <2>2 DEF AddPageContent, MayReference, GetPageById, There
  <2> QED
    BY <2>3, ListsGo DEF ListsAreToGo, UpdateLabels, ListsHaveGone
<1>2. CASE AddPageClearLists(t) \/ DeletePageClearLists(t) \/ ClearPagesLists(t)
           \/ ClearCacheLists(t)
  <2>1. listCache' = {} /\ rq'[t].pc \in {"add:pages", "del:pages", "clr:pages", "idle"}
    BY <1>2, <1>m DEF AddPageClearLists, DeletePageClearLists, ClearPagesLists,
       ClearCacheLists, UncacheAllLists
  <2> QED
    BY <2>1, ListsEmptied DEF ListsLabels, UpdateLabels, ListsHaveGone
<1>3. CASE AddPageClearPages(t) \/ AddPageIndex(t) \/ RevertMaxVersion(t) \/ RevertCache(t)
           \/ RenameTagUncache(t) \/ DeletePageLatest(t) \/ DeletePageUnindex(t)
           \/ DeletePageClearPages(t) \/ ClearPagesPages(t) \/ CreateIndexContent(t)
           \/ CreateIndexClose(t) \/ RevertTakeTime(t)
  <2>1. UNCHANGED <<pages, contents>> /\ listCache' \subseteq listCache
    BY <1>3, <1>t, RevertTakeTimeMoves
    DEF rows, AddPageClearPages, AddPageIndex, RevertMaxVersion, RevertCache,
       RenameTagUncache, DeletePageLatest, DeletePageUnindex, DeletePageClearPages,
       ClearPagesPages, CreateIndexContent, CreateIndexClose, UncacheAllPages, UncachePage,
       UncacheList, tables, caches
  <2>2. /\ rq[t].pc \in {"add:pages", "add:index", "rev:max", "rev:time", "rev:cache", "tag:done",
                         "del:latest", "del:unindex", "del:pages", "clr:pages",
                         "idx:contents", "idx:close"}
        /\ rq'[t].pc \in {"add:index", "rev:time", "rev:insert", "del:unindex", "del:children",
                          "idx:contents", "idx:close", "idle", "threw"}
    BY <1>3, <1>t, <1>m, RevertMaxVersionMoves, RevertTakeTimeMoves, CreateIndexContentMoves
    DEF AddPageClearPages, AddPageIndex, RevertMaxVersion, RevertCache,
       RenameTagUncache, DeletePageLatest, DeletePageUnindex, DeletePageClearPages,
       ClearPagesPages, CreateIndexContent, CreateIndexClose, At
  <2> QED
    BY <2>1, <2>2, ListsAside DEF ListsLabels, UpdateLabels, ListsHaveGone, ListsAreToGo
<1>4. CASE RevertInsert(t)
  <2>1. rq[t].pc = "rev:insert" /\ "revert" \in Ops /\ rq'[t].pc \in {"rev:cache", "threw"}
    BY <1>4, <1>t, <1>m DEF RevertInsert, At, TablesKnown, CallsKnown
  <2>2. pages' = pages /\ listCache' = listCache
    BY <1>4 DEF RevertInsert, AddNewPageContentVersion, InsertContent, tables, caches
  <2>3. ~Never({"revert"})
    BY <2>1 DEF Never
  <2>4. \A e \in listCache : ListEntryHolds(e)
    BY <1>k, <2>1 DEF ListsAreToGo
  <2>5. \A key : ListedPages(key)' = ListedPages(key)
    BY <2>2 DEF ListedPages, FindPagesCreatedBy, FindPagesContainingTag
  <2>6. \A e \in listCache' : ListEntryHolds(e)'
    BY <2>2, <2>3, <2>4, <2>5 DEF ListEntryHolds
  <2>7. ListsKnown(t)'
    BY <2>1 DEF ListsKnown, UpdateLabels, ListsHaveGone
  <2> QED
    BY <2>6, <2>7, ListsMove
<1>5. CASE RenameTagNext(t)
  <2>1. /\ UNCHANGED <<pages, contents>> /\ listCache' = listCache /\ rq[t].pc = "tag:next"
    BY <1>5 DEF RenameTagNext, At, tables, caches
  <2>2. /\ \A view \in rq[t].views : There(view.page.id)
        /\ \A pg \in rq[t].todo : There(pg.id)
        /\ \A e \in listCache : ListEntryHolds(e)
    BY <1>k, <2>1 DEF ListsKnown, ListsAreToGo
  <2>3. \A p : There(p) => There(p)'
    BY <2>1 DEF There
  <2>4. CASE rq'[t].pc \in {"threw", "tag:done"}
    BY <2>1, <2>4, ListsAside DEF ListsLabels, UpdateLabels, ListsHaveGone, ListsAreToGo
  <2>5. ASSUME NEW p, There(p), rq'[t].pc = "tag:unindex", rq'[t].id = p,
               rq'[t].views = rq[t].views, rq'[t].todo \subseteq rq[t].todo
        PROVE  ListsInv'
    <3>1. ListsKnown(t)'
      BY <2>2, <2>3, <2>5 DEF ListsKnown, UpdateLabels, ListsHaveGone, There
    <3> QED
      BY <2>1, <2>2, <3>1, ListEntryStays, ListsMove
  <2>6. ASSUME NEW view \in rq[t].views, rq'[t].pc = "tag:unindex", rq'[t].id = view.page.id,
               rq'[t].views = rq[t].views, rq'[t].todo = rq[t].todo
        PROVE  ListsInv'
    BY <2>2, <2>5, <2>6
  <2>7. ASSUME NEW pg \in rq[t].todo, rq'[t].pc = "tag:unindex", rq'[t].id = pg.id,
               rq'[t].views = rq[t].views, rq'[t].todo = rq[t].todo \ {pg}
        PROVE  ListsInv'
    BY <2>2, <2>5, <2>7
  <2> QED
    BY <1>5, <1>t, <2>4, <2>6, <2>7, RenameTagNextMoves
<1>6. CASE RenameTagUnindex(t)
  <2>1. UNCHANGED <<pages, contents>> /\ rq[t].pc = "tag:unindex"
    BY <1>6 DEF RenameTagUnindex, At, tables
  <2>2. CASE rq'[t].pc = "threw" /\ UNCHANGED caches
    BY <2>1, <2>2, ListsAside DEF ListsLabels, UpdateLabels, ListsHaveGone, ListsAreToGo, caches
  <2>3. CASE /\ rq'[t].pc = "upd:page" /\ rq'[t].id = rq[t].id
             /\ rq'[t].views = rq[t].views \ {rq[t].model} /\ rq'[t].todo = rq[t].todo
    <3>1. /\ There(rq[t].id)
          /\ \A view \in rq[t].views : There(view.page.id)
          /\ \A pg \in rq[t].todo : There(pg.id)
      BY <1>k, <2>1 DEF ListsKnown, UpdateLabels
    <3>2. ListsKnown(t)'
      BY <2>1, <2>3, <3>1 DEF ListsKnown, UpdateLabels, ListsHaveGone, There
    <3> QED
      BY <2>3, <3>2, ListsMove DEF ListsAreToGo
  <2> QED
    BY <1>6, <1>t, <2>2, <2>3, RenameTagUnindexMoves
<1>7. CASE DeletePageChildren(t) \/ DeletePageContents(t) \/ DeletePageRow(t)
           \/ ClearPagesContents(t)
  <2>1. rq'[t].pc \in {"del:contents", "del:row", "del:lists", "clr:lists"}
    BY <1>7, <1>t, <1>m, DeletePageChildrenMoves, DeletePageContentsMoves
    DEF DeletePageContents, DeletePageRow, ClearPagesContents, At
  <2> QED
    BY <2>1, ListsGo DEF ListsAreToGo, UpdateLabels, ListsHaveGone
<1> QED
  BY <1>1, <1>2, <1>3, <1>4, <1>5, <1>6, <1>7 DEF WriteOn, WriteStep, DatabaseFails

LEMMA ArriveLists ==
    ASSUME TablesInv, ListsInv, Serial, NEW t \in Threads, Arrives(t)
    PROVE  ListsInv'
<1>t. TypeOK
  BY DEF TablesInv
<1>i. rq[t].pc \in {"idle", "threw"} /\ ~In(t, ListsAreToGo)
  BY <1>t, ArriveIdle DEF In, ListsAreToGo
<1>k. \A e \in listCache : ListEntryHolds(e)
  BY <1>i, ListsOnly
<1> USE DEF In
<1>1. CASE GetByIdMiss(t) \/ HomePageMiss(t) \/ CompareMiss(t) \/ RevertVersion(t)
           \/ DeletePageLoad(t) \/ ClearCachePages(t) \/ CreateIndexPages(t)
  <2>1. UNCHANGED <<pages, contents>> /\ listCache' = listCache
    BY <1>1 DEF GetByIdMiss, HomePageMiss, CompareMiss, RevertVersion, DeletePageLoad,
       ClearCachePages, CreateIndexPages, UncacheAllPages, tables, caches
  <2>2. rq'[t].pc \in {"get:page", "home:any", "home:content", "cmp:previous", "rev:max",
                       "del:latest", "cache:lists", "idx:contents", "threw"}
    BY <1>1, <1>t, ReadArrivals, RevertVersionMoves, OtherArrivals
  <2> QED
    BY <1>i, <2>1, <2>2, ListsAside DEF ListsLabels, UpdateLabels, ListsHaveGone
<1>2. CASE ListMiss(t)
  <2>1. UNCHANGED <<pages, contents>> /\ listCache' = listCache
    BY <1>2 DEF ListMiss, tables, caches
  <2>2. rq'[t].pc = "list:pages" /\ rq'[t].views = {} /\ rq'[t].todo = {}
    BY <1>2, <1>t, ReadArrivals
  <2>3. ListsKnown(t)'
    BY <2>2 DEF ListsKnown, UpdateLabels, ListsHaveGone
  <2> QED
    BY <1>k, <2>1, <2>3, ListEntryStays, ListsMove
<1>3. CASE AddPageRow(t)
  BY <1>3, <1>t, AddPageRowMoves, ListsGo DEF ListsAreToGo, UpdateLabels, ListsHaveGone
<1>4. CASE UpdateForm(t)
  <2>1. UNCHANGED <<pages, contents>> /\ listCache' = listCache
    BY <1>4 DEF UpdateForm, tables, caches
  <2>2. rq'[t].pc = "upd:page" /\ rq'[t].views = {} /\ rq'[t].todo = {}
    BY <1>4, <1>t, UpdateFormMoves
  <2>3. \A e \in listCache : ListEntryHolds(e)'
    BY <1>k, <2>1, ListEntryStays
  <2>4. ListsKnown(t)'
    BY <2>1, <2>2, <2>3 DEF ListsKnown, UpdateLabels, ListsHaveGone
  <2> QED
    BY <2>2, <2>4, ListsMove DEF ListsAreToGo
<1>5. CASE RenameTagFind(t)
  <2>1. UNCHANGED <<pages, contents>> /\ listCache' = listCache
    BY <1>5 DEF RenameTagFind, tables, caches
  <2>2. CASE rq'[t].pc = "list:pages" /\ rq'[t].views = {} /\ rq'[t].todo = {}
    <3>1. ListsKnown(t)'
      BY <2>2 DEF ListsKnown, UpdateLabels, ListsHaveGone
    <3> QED
      BY <1>k, <2>1, <3>1, ListEntryStays, ListsMove
  <2>3. ASSUME NEW e \in listCache, rq'[t].pc = "tag:next", rq'[t].views = e.views,
               rq'[t].todo = {}
        PROVE  ListsInv'
    <3>1. {view.page : view \in e.views} \subseteq pages
      BY <1>k, ListedPagesAreThere DEF ListEntryHolds
    <3>2. ListsKnown(t)'
      BY <2>1, <2>3, <3>1 DEF ListsKnown, UpdateLabels, ListsHaveGone, There
    <3> QED
      BY <1>k, <2>1, <3>2, ListEntryStays, ListsMove
  <2> QED
    BY <1>5, <1>t, <2>2, <2>3, RenameTagFindMoves
<1>6. CASE ClearPagesRows(t)
  <2>1. listCache' = listCache
    BY <1>6 DEF ClearPagesRows, caches
  <2>2. CASE rq'[t].pc = "threw" /\ UNCHANGED tables
    BY <1>i, <2>1, <2>2, ListsAside DEF ListsLabels, UpdateLabels, ListsHaveGone, tables
  <2> QED
    BY <1>6, <1>t, <2>2, OtherArrivals, ListsGo DEF ListsAreToGo, UpdateLabels, ListsHaveGone
<1> QED
  BY <1>1, <1>2, <1>3, <1>4, <1>5, <1>6 DEF Arrives, Arrive

LEMMA NextLists ==
    ASSUME TablesInv, ListsInv, Serial, ~DatabaseMayFail, [Next]_vars
    PROVE  ListsInv'
<1>1. ASSUME NEW t \in Threads, Arrives(t) \/ GoOn(t)
      PROVE  ListsInv'
  BY <1>1, ArriveLists, ReadOnLists, UpdateOnLists, WriteOnLists DEF GoOn
<1>2. CASE Recycle
  <2>1. listCache' = {} /\ \A t \in Threads : rq'[t].pc = "idle"
    BY <1>2 DEF Recycle, Idle
  <2> QED
    BY <2>1 DEF ListsInv, ListsKnown, UpdateLabels, ListsHaveGone, In
<1>3. CASE UNCHANGED site
  <2>1. UNCHANGED <<pages, contents, listCache, rq>>
    BY <1>3 DEF site, tables, caches
  <2>2. \A e : ListEntryHolds(e) => ListEntryHolds(e)'
    BY <2>1, ListEntryStays
  <2>3. /\ \A view : IsCurrent(view) => IsCurrent(view)'
        /\ \A key : ListedPages(key)' = ListedPages(key)
        /\ \A p : There(p) => There(p)'
    BY <2>1 DEF IsCurrent, GetPageById, GetLatestPageContent, FindPageContentsByPageId,
       ListedPages, FindPagesCreatedBy, FindPagesContainingTag, There
  <2>4. \A t : ListsKnown(t) => ListsKnown(t)'
    BY <2>1, <2>2, <2>3 DEF ListsKnown, In, There, IsCurrent, GetPageById, GetLatestPageContent,
       FindPageContentsByPageId, ListedPages, FindPagesCreatedBy, FindPagesContainingTag,
       WithContent
  <2> QED
    BY <2>1, <2>2, <2>4 DEF ListsInv, In
<1> QED
  BY <1>1, <1>2, <1>3, SiteSteps DEF TablesInv

LEMMA InitLists == Init => ListsInv
<1> SUFFICES ASSUME Init PROVE ListsInv
  OBVIOUS
<1>1. listCache = {} /\ \A t \in Threads : rq[t].pc = "idle"
  BY DEF Init, CachesInit, Idle
<1> QED
  BY <1>1 DEF ListsInv, ListsKnown, UpdateLabels, ListsHaveGone, In

(* A cached list is as a query would give it, or the request that changed  *)
(* the pages has yet to clear the lists; once UpdatePage has cleared them, *)
(* none comes back before it ends.                                         *)
THEOREM ListsInvariant == Spec => [](Serial /\ ~DatabaseMayFail => ListsInv)
<1>1. Init => (Serial /\ ~DatabaseMayFail => ListsInv)
  BY InitLists
<1>2. /\ Serial => TablesInv
      /\ Serial /\ ~DatabaseMayFail => ListsInv
      /\ [Next]_vars
      => (Serial /\ ~DatabaseMayFail => ListsInv)'
  BY NextLists DEF Serial
<1> QED
  BY <1>1, <1>2, TablesInvariant, PTL DEF Spec

(* Between two requests, with one request at a time, a cached list names   *)
(* exactly the pages that a query would find, and, where nothing is        *)
(* reverted, shows each of them at its latest version: AddPage, UpdatePage *)
(* and DeletePage clear the lists after they touch the tables, as long as  *)
(* the database does not fail, and RenameTag's views change only in lists  *)
(* that UpdatePage then clears.                                            *)
THEOREM ListCacheStaysCurrent == Spec => []ListCacheIsCurrent
<1>1. (Serial /\ ~DatabaseMayFail => ListsInv) => ListCacheIsCurrent
  <2> SUFFICES ASSUME Serial, Quiet, ListsInv, NEW e \in listCache
               PROVE  ListEntryHolds(e)
    BY DEF ListCacheIsCurrent, ListEntryHolds
  <2> QED
    BY DEF ListsInv, In, Quiet, Between, ListsAreToGo
<1> QED
  BY <1>1, ListsInvariant, PTL

-----------------------------------------------------------------------------
(* Pages that are gone. *)

LEMMA GoneMove ==
    ASSUME Serial, NEW t \in Threads, HomeKnown(t)',
           \A view \in homeCache' : There(view.page.id)' \/ In(t, HomeIsToGo)',
           Never({"recycle"}) =>
             \A c \in contents' : There(c.pageId)' \/ In(t, {"clr:contents"})'
    PROVE  GoneInv'
BY TheThread DEF GoneInv

LEMMA GoneOnly ==
    ASSUME GoneInv, Serial, NEW t \in Threads
    PROVE  /\ HomeKnown(t)
           /\ ~In(t, HomeIsToGo) => \A view \in homeCache : There(view.page.id)
           /\ (~In(t, {"clr:contents"}) /\ Never({"recycle"})) =>
                \A c \in contents : There(c.pageId)
BY TheThread DEF GoneInv

HomeLabels == {"home:content", "home:cache"}

LEMMA HomeUnknown ==
    ASSUME NEW t, ~In(t, HomeLabels)'
    PROVE  HomeKnown(t)'
BY DEF HomeKnown, HomeLabels, In

(* No page goes, and contents come only to pages that are there. *)
LEMMA NoneGoes ==
    ASSUME GoneInv, Serial, NEW t \in Threads, HomeKnown(t)',
           \A pg \in pages : \E q \in pages' : q.id = pg.id,
           \A d \in contents' : (\E q \in pages' : q.id = d.pageId)
                                \/ \E c \in contents : c.pageId = d.pageId,
           homeCache' \subseteq homeCache,
           In(t, HomeIsToGo) => In(t, HomeIsToGo)' \/ homeCache' = {},
           In(t, {"clr:contents"}) => contents' = {}
    PROVE  GoneInv'
<1>1. \A p : There(p) => There(p)'
  BY DEF There
<1>2. \A view \in homeCache' : There(view.page.id)' \/ In(t, HomeIsToGo)'
  <2> SUFFICES ASSUME NEW view \in homeCache', ~In(t, HomeIsToGo)'
               PROVE  There(view.page.id)'
    OBVIOUS
  <2>1. view \in homeCache /\ There(view.page.id)
    BY GoneOnly
  <2> QED
    BY <1>1, <2>1 DEF There
<1>3. ASSUME Never({"recycle"}), NEW d \in contents'
      PROVE  There(d.pageId)'
  <2>1. CASE \E q \in pages' : q.id = d.pageId
    BY <2>1 DEF There
  <2>2. CASE \E c \in contents : c.pageId = d.pageId
    <3>1. There(d.pageId)
      BY <1>3, <2>2, GoneOnly
    <3> QED
      BY <1>1, <3>1 DEF There
  <2> QED
    BY <2>1, <2>2
<1> QED
  BY <1>2, <1>3, GoneMove

LEMMA GoneAside ==
    ASSUME GoneInv, Serial, NEW t \in Threads, HomeKnown(t)',
           UNCHANGED <<pages, contents>>, homeCache' \subseteq homeCache,
           In(t, HomeIsToGo) => In(t, HomeIsToGo)' \/ homeCache' = {},
           ~In(t, {"clr:contents"})
    PROVE  GoneInv'
BY NoneGoes

LEMMA ReadOnGone ==
    ASSUME TablesInv, GoneInv, Serial, NEW t \in Threads, ReadOn(t)
    PROVE  GoneInv'
<1>t. TypeOK
  BY DEF TablesInv
<1>p. /\ Passes(t, ReadLabels, ReadLabels \cup {"idle", "threw", "tag:next"})
      /\ UNCHANGED tables
  BY <1>t, ReadOnPasses
<1>u. UNCHANGED <<pages, contents>> /\ ~In(t, HomeIsToGo) /\ ~In(t, {"clr:contents"})
  BY <1>p DEF tables, Passes, In, ReadLabels, HomeIsToGo
<1>k. /\ HomeKnown(t)
      /\ \A view \in homeCache : There(view.page.id)
      /\ Never({"recycle"}) => \A c \in contents : There(c.pageId)
  BY <1>u, GoneOnly
<1>h. \A p : There(p)' <=> There(p)
  BY <1>u DEF There
<1>m. Return(t) => rq'[t].pc = "idle"
  BY <1>t, Moved
<1> USE DEF In
<1>1. CASE HomePageAny(t)
  <2>1. homeCache' = homeCache
    BY <1>1 DEF HomePageAny, caches
  <2>2. HomeKnown(t)'
    <3>1. CASE rq'[t].pc = "idle"
      BY <3>1, HomeUnknown DEF HomeLabels
    <3>2. ASSUME NEW pg \in FindPagesContainingTag(HomepageTag),
                 rq'[t].pc = "home:content", rq'[t].id = pg.id, rq'[t].page = pg
          PROVE  HomeKnown(t)'
      <4>1. pg \in pages'
        BY <1>u DEF FindPagesContainingTag
      <4> QED
        BY <3>2, <4>1 DEF HomeKnown, There
    <3> QED
      BY <1>1, <1>t, <3>1, <3>2, HomePageAnyMoves
  <2> QED
    BY <1>u, <2>1, <2>2, GoneAside
<1>2. CASE HomePageContent(t)
  <2>1. homeCache' = homeCache
    BY <1>2 DEF HomePageContent, caches
  <2>2. There(rq[t].id) /\ rq[t].page.id = rq[t].id
    BY <1>2, <1>k DEF HomePageContent, At, HomeKnown
  <2>3. HomeKnown(t)'
    <3>1. CASE rq'[t].pc = "threw"
      BY <3>1, HomeUnknown DEF HomeLabels
    <3>2. ASSUME NEW c, rq'[t].pc = "home:cache", rq'[t].id = rq[t].id,
                 rq'[t].page = rq[t].page, rq'[t].view = ViewOf(rq[t].page, c)
          PROVE  HomeKnown(t)'
      BY <1>u, <2>2, <3>2 DEF HomeKnown, There, ViewOf
    <3> QED
      BY <1>2, <1>t, <3>1, <3>2, HomePageContentMoves
  <2> QED
    BY <1>u, <2>1, <2>3, GoneAside
<1>3. CASE HomePageCache(t)
  <2>1. There(rq[t].view.page.id) /\ CacheHomePage(rq[t].view) /\ rq'[t].pc = "idle"
    BY <1>3, <1>k, <1>m DEF HomePageCache, At, HomeKnown
  <2>2. \A view \in homeCache' : There(view.page.id)
    BY <1>k, <2>1 DEF CacheHomePage
  <2>3. \A view \in homeCache' : There(view.page.id)'
    BY <1>u, <2>2 DEF There
  <2>4. Never({"recycle"}) => \A c \in contents' : There(c.pageId)'
    BY <1>k, <1>u DEF There
  <2> QED
    BY <2>1, <2>3, <2>4, HomeUnknown, GoneMove DEF HomeLabels
<1>4. CASE ListPages(t) \/ ListContent(t) \/ ListCacheAdd(t) \/ GetByIdPage(t)
           \/ GetByIdContent(t) \/ GetByIdCache(t) \/ ComparePrevious(t) \/ CompareCache(t)
  <2>1. homeCache' = homeCache
    BY <1>4 DEF GetByIdPage, GetByIdContent, GetByIdCache, ListPages, ListContent,
       ListCacheAdd, ComparePrevious, CompareCache, CachePage, CacheList, caches
  <2>2. rq'[t].pc \in {"idle", "threw", "get:content", "get:cache", "list:contents",
                       "list:cache", "tag:next", "cmp:cache"}
    BY <1>4, <1>t, <1>m, GetByIdPageMoves, GetByIdContentMoves, ListPagesMoves,
       ListContentMoves, ListCacheAddMoves, ComparePreviousMoves
    DEF GetByIdCache, CompareCache, ListContent, At
  <2> QED
    BY <1>u, <2>1, <2>2, HomeUnknown, GoneAside DEF HomeLabels
<1> QED
  BY <1>1, <1>2, <1>3, <1>4 DEF ReadOn

LEMMA UpdateOnGone ==
    ASSUME TablesInv, GoneInv, Serial, ~DatabaseMayFail, NEW t \in Threads,
           UpdateOn(t)
    PROVE  GoneInv'
<1>t. TypeOK /\ KeysInOrder /\ TablesKnown(t)
  BY DEF TablesInv
<1>m. /\ \A label : Goto(t, label) => rq'[t].pc = label /\ Stays(t)
      /\ Return(t) => rq'[t].pc = "idle"
      /\ Throw(t) => rq'[t].pc = "threw"
  BY <1>t, Moved
<1> USE DEF In
<1>1. CASE UpdatePageSave(t)
  <2>1. PICK page : page = rq[t].page
    OBVIOUS
  <2>2. /\ pages' = {IF q.id = page.id THEN page ELSE q : q \in pages}
        /\ contents' = contents /\ homeCache' = homeCache
    BY <1>1, <2>1 DEF UpdatePageSave, SaveOrUpdatePage, caches
  <2>3. rq[t].pc = "upd:save" /\ rq'[t].pc = "upd:cache"
    BY <1>1, <1>m DEF UpdatePageSave, At
  <2>4. \A pg \in pages : \E q \in pages' : q.id = pg.id
    BY <2>2
  <2> QED
    BY <2>2, <2>3, <2>4, HomeUnknown, NoneGoes DEF HomeLabels, HomeIsToGo
<1>2. CASE UpdatePageInsert(t)
  <2>1. PICK p : p = rq[t].id
    OBVIOUS
  <2>2. rq[t].pc = "upd:insert" /\ There(p) /\ rq[t].on = clock
    BY <1>t, <1>2, <2>1 DEF UpdatePageInsert, At, TablesKnown, PageIsThere
  <2>3. /\ AddNewPageContentVersion(p, rq[t].ver, rq[t].model.text, clock)
        /\ rq'[t].pc \in {"upd:latest", "upd:links"} /\ homeCache' = homeCache
    BY <1>2, <1>m, <2>1, <2>2 DEF UpdatePageInsert, MayReference, GetPageById, There, caches
  <2>4. PICK v, text : InsertContent(p, v, text, clock)
    BY <2>3 DEF AddNewPageContentVersion
  <2>5. PICK row : row.pageId = p /\ contents' = contents \cup {row} /\ pages' = pages
    BY <1>t, <2>4, NewRowNow
  <2> QED
    BY <2>2, <2>3, <2>5, HomeUnknown, NoneGoes DEF HomeLabels, HomeIsToGo, There
<1>3. CASE UpdateLinksRewrite(t)
  <2>1. rq[t].pc = "upd:rewrite" /\ rq'[t].pc \in {"upd:rewrite", "upd:clearpages"}
    BY <1>3, <1>t, UpdateLinksRewriteMoves DEF UpdateLinksRewrite, At
  <2>2. homeCache' = homeCache
    BY <1>3 DEF UpdateLinksRewrite, caches
  <2>3. CASE UNCHANGED tables
    BY <2>1, <2>2, <2>3, HomeUnknown, GoneAside DEF HomeLabels, HomeIsToGo, tables
  <2>4. ASSUME NEW c \in rq[t].rows,
               UpdatePageContent([c EXCEPT !.text = ReplacePageLinks(@,
                                    rq[t].prev, rq[t].model.page.title)])
        PROVE  GoneInv'
    <3>1. \E d \in contents : SameVersion(c, d)
      BY <1>t, <2>1 DEF TablesKnown
    <3>2. PICK row : row = [c EXCEPT !.text = ReplacePageLinks(@,
                                    rq[t].prev, rq[t].model.page.title)]
      OBVIOUS
    <3>3. c \in PageContent
      BY <1>t, Moved DEF Request
    <3>4. row.id = c.id /\ row.pageId = c.pageId
      BY <3>2, <3>3 DEF PageContent
    <3>5. contents' = {IF d.id = row.id THEN row ELSE d : d \in contents} /\ pages' = pages
      BY <2>4, <3>2 DEF UpdatePageContent
    <3>6. \A d \in contents' : \E e \in contents : e.pageId = d.pageId
      BY <3>1, <3>4, <3>5 DEF SameVersion
    <3> QED
      BY <2>1, <2>2, <3>5, <3>6, HomeUnknown, NoneGoes DEF HomeLabels, HomeIsToGo
  <2> QED
    BY <1>3, <1>t, <2>3, <2>4, UpdateLinksRewriteMoves
<1>4. CASE UpdatePageLoad(t) \/ UpdatePageUncache(t) \/ UpdatePageUncacheHome(t)
           \/ UpdatePageUncacheLists(t) \/ UpdatePageMaxVersion(t) \/ UpdateLinksRead(t)
           \/ UpdateLinksClearPages(t) \/ UpdateLinksClearLists(t) \/ UpdatePageReread(t)
           \/ UpdatePageUnindex(t) \/ UpdatePageIndex(t) \/ UpdatePageTakeTime(t)
  <2>1. UNCHANGED <<pages, contents>> /\ homeCache' \subseteq homeCache
    BY <1>4, <1>t, UpdatePageTakeTimeMoves
    DEF rows, UpdatePageLoad, UpdatePageUncache, UpdatePageUncacheHome,
       UpdatePageUncacheLists, UpdatePageMaxVersion, UpdateLinksRead, UpdateLinksClearPages,
       UpdateLinksClearLists, UpdatePageReread, UpdatePageUnindex, UpdatePageIndex,
       UncachePage, UncacheHomePage, UncacheAllLists, UncacheAllPages, tables, caches
  <2>2. rq[t].pc \in {"upd:page", "upd:cache", "upd:home", "upd:lists", "upd:max",
                      "upd:time", "upd:links", "upd:clearpages", "upd:clearlists", "upd:latest",
                      "upd:unindex", "upd:index"}
    BY <1>4, <1>t, UpdatePageTakeTimeMoves
    DEF UpdatePageLoad, UpdatePageUncache, UpdatePageUncacheHome,
       UpdatePageUncacheLists, UpdatePageMaxVersion, UpdateLinksRead, UpdateLinksClearPages,
       UpdateLinksClearLists, UpdatePageReread, UpdatePageUnindex, UpdatePageIndex, At
  <2>3. rq'[t].pc \in {"upd:save", "upd:home", "upd:lists", "upd:max", "upd:time",
                       "upd:insert", "upd:rewrite", "upd:clearlists", "upd:latest", "upd:unindex",
                       "upd:index", "tag:next", "idle", "threw"}
    BY <1>4, <1>t, <1>m, UpdatePageLoadMoves, UpdatePageMaxVersionMoves,
       UpdatePageTakeTimeMoves, UpdateLinksReadMoves, UpdatePageRereadMoves
    DEF UpdatePageUncache, UpdatePageUncacheHome, UpdatePageUncacheLists,
       UpdateLinksClearPages, UpdateLinksClearLists, UpdatePageUnindex, UpdatePageIndex
  <2> QED
    BY <2>1, <2>2, <2>3, HomeUnknown, GoneAside DEF HomeLabels, HomeIsToGo
<1> QED
  BY <1>1, <1>2, <1>3, <1>4 DEF UpdateOn

LEMMA WriteOnGone ==
    ASSUME TablesInv, GoneInv, Serial, ~DatabaseMayFail, NEW t \in Threads,
           WriteOn(t)
    PROVE  GoneInv'
<1>t. TypeOK /\ KeysInOrder /\ TablesKnown(t)
  BY DEF TablesInv
<1>m. /\ \A label : Goto(t, label) => rq'[t].pc = label /\ Stays(t)
      /\ Return(t) => rq'[t].pc = "idle"
      /\ Throw(t) => rq'[t].pc = "threw"
  BY <1>t, Moved
<1> USE DEF In
<1>1. CASE AddPageContent(t) \/ RevertInsert(t)
  <2>1. PICK p : p = rq[t].id
    OBVIOUS
  <2>2. rq[t].pc \in {"add:content", "rev:insert"} /\ There(p) /\ rq[t].on = clock
    BY <1>t, <1>1, <2>1 DEF AddPageContent, RevertInsert, At, TablesKnown, PageIsThere
  <2>3. /\ \E v, text : InsertContent(p, v, text, clock)
        /\ rq'[t].pc \in {"add:lists", "rev:cache"} /\ homeCache' = homeCache
    BY <1>1, <1>m, <2>1, <2>2 DEF AddPageContent, RevertInsert, AddNewPageContentVersion,
       MayReference, GetPageById, There, caches
  <2>4. PICK v, text : InsertContent(p, v, text, clock)
    BY <2>3
  <2>5. PICK row : row.pageId = p /\ contents' = contents \cup {row} /\ pages' = pages
    BY <1>t, <2>4, NewRowNow
  <2> QED
    BY <2>2, <2>3, <2>5, HomeUnknown, NoneGoes DEF HomeLabels, HomeIsToGo, There
<1>2. CASE AddPageClearLists(t) \/ AddPageClearPages(t) \/ AddPageIndex(t)
           \/ RevertMaxVersion(t) \/ RevertCache(t) \/ RenameTagNext(t)
           \/ RenameTagUnindex(t) \/ RenameTagUncache(t) \/ DeletePageLatest(t)
           \/ DeletePageUnindex(t) \/ DeletePageChildren(t) \/ DeletePageClearLists(t)
           \/ DeletePageClearPages(t) \/ ClearPagesLists(t) \/ ClearPagesPages(t)
           \/ ClearCacheLists(t) \/ CreateIndexContent(t) \/ CreateIndexClose(t)
           \/ RevertTakeTime(t)
  <2>1. UNCHANGED <<pages, contents>>
    BY <1>2, <1>t, RevertTakeTimeMoves DEF rows, AddPageClearLists, AddPageClearPages, AddPageIndex,
       RevertMaxVersion, RevertCache, RenameTagNext, RenameTagUnindex, RenameTagUncache,
       DeletePageLatest, DeletePageUnindex, DeletePageChildren, DeletePageClearLists,
       DeletePageClearPages, ClearPagesLists, ClearPagesPages, ClearCacheLists,
       CreateIndexContent, CreateIndexClose, tables
  <2>2. /\ homeCache' \subseteq homeCache
        /\ DeletePageClearPages(t) \/ ClearPagesPages(t) => homeCache' = {}
    BY <1>2, <1>t, RevertTakeTimeMoves DEF AddPageClearLists, AddPageClearPages, AddPageIndex,
       RevertMaxVersion, RevertCache, RenameTagNext, RenameTagUnindex, RenameTagUncache,
       DeletePageLatest, DeletePageUnindex, DeletePageChildren, DeletePageClearLists,
       DeletePageClearPages, ClearPagesLists, ClearPagesPages, ClearCacheLists,
       CreateIndexContent, CreateIndexClose, RetagCached, UncacheList, UncachePage,
       UncacheAllLists, UncacheAllPages, caches
  <2>3. /\ rq[t].pc \in {"add:lists", "add:pages", "add:index", "rev:max", "rev:time",
                         "rev:cache", "tag:next", "tag:unindex", "tag:done", "del:latest",
                         "del:unindex", "del:children", "del:lists", "del:pages",
                         "clr:lists", "clr:pages", "cache:lists", "idx:contents",
                         "idx:close"}
        /\ rq[t].pc = "del:lists" => DeletePageClearLists(t)
        /\ rq[t].pc = "clr:lists" => ClearPagesLists(t)
        /\ rq[t].pc = "del:pages" => DeletePageClearPages(t)
        /\ rq[t].pc = "clr:pages" => ClearPagesPages(t)
    BY <1>2, <1>t, RevertTakeTimeMoves DEF AddPageClearLists, AddPageClearPages, AddPageIndex,
       RevertMaxVersion, RevertCache, RenameTagNext, RenameTagUnindex, RenameTagUncache,
       DeletePageLatest, DeletePageUnindex, DeletePageChildren, DeletePageClearLists,
       DeletePageClearPages, ClearPagesLists, ClearPagesPages, ClearCacheLists,
       CreateIndexContent, CreateIndexClose, At
  <2>4. /\ rq'[t].pc \in {"add:pages", "add:index", "rev:time", "rev:insert",
                          "tag:unindex", "tag:done", "upd:page", "del:unindex", "del:children", "del:contents",
                          "del:pages", "clr:pages", "idx:contents", "idx:close", "idle",
                          "threw"}
        /\ DeletePageClearLists(t) => rq'[t].pc = "del:pages"
        /\ ClearPagesLists(t) => rq'[t].pc = "clr:pages"
    BY <1>2, <1>t, <1>m, <2>3, RevertMaxVersionMoves, RevertTakeTimeMoves, RenameTagNextMoves,
       RenameTagUnindexMoves, DeletePageChildrenMoves, CreateIndexContentMoves
    DEF AddPageClearLists, AddPageClearPages, AddPageIndex, RevertCache, RenameTagUncache,
       DeletePageLatest, DeletePageUnindex, DeletePageClearLists, DeletePageClearPages,
       ClearPagesLists, ClearPagesPages, ClearCacheLists, CreateIndexContent,
       CreateIndexClose, At
  <2>5. In(t, HomeIsToGo) => In(t, HomeIsToGo)' \/ homeCache' = {}
    BY <2>2, <2>3, <2>4 DEF HomeIsToGo
  <2>6. HomeKnown(t)' /\ ~In(t, {"clr:contents"})
    BY <2>3, <2>4, HomeUnknown DEF HomeLabels
  <2> QED
    BY <2>1, <2>2, <2>5, <2>6, GoneAside
<1>3. CASE DeletePageContents(t)
  <2>1. rq[t].pc = "del:contents" /\ rq'[t].pc \in {"del:contents", "del:row"}
    BY <1>3, <1>t, DeletePageContentsMoves DEF DeletePageContents, At
  <2>2. homeCache' = homeCache /\ pages' = pages /\ contents' \subseteq contents
    BY <1>3 DEF DeletePageContents, DeletePageContent, tables, caches
  <2> QED
    BY <2>1, <2>2, HomeUnknown, NoneGoes DEF HomeLabels, HomeIsToGo
<1>4. CASE DeletePageRow(t)
  <2>1. PICK p : p = rq[t].id
    OBVIOUS
  <2>2. rq[t].pc = "del:row" /\ rq'[t].pc = "del:lists" /\ DeletePage(p)
    BY <1>4, <1>m, <2>1 DEF DeletePageRow, At
  <2>3. Never({"recycle"}) => \A c \in contents : There(c.pageId)
    BY <2>2, GoneOnly
  <2>4. /\ pages' = {pg \in pages : pg.id # p}
        /\ contents' = {c \in contents : c.pageId # p}
    BY <2>2 DEF DeletePage, FindPageContentsByPageId
  <2>5. Never({"recycle"}) => \A c \in contents' : There(c.pageId)'
    BY <2>3, <2>4 DEF There
  <2> QED
    BY <2>2, <2>5, HomeUnknown, GoneMove DEF HomeLabels, HomeIsToGo
<1>5. CASE ClearPagesContents(t)
  <2>1. contents' = {} /\ rq'[t].pc = "clr:lists"
    BY <1>5, <1>m DEF ClearPagesContents, DeleteAllContentRows
  <2> QED
    BY <2>1, HomeUnknown, GoneMove DEF HomeLabels, HomeIsToGo
<1> QED
  BY <1>1, <1>2, <1>3, <1>4, <1>5 DEF WriteOn, WriteStep, DatabaseFails

LEMMA ArriveGone ==
    ASSUME TablesInv, GoneInv, Serial, NEW t \in Threads, Arrives(t)
    PROVE  GoneInv'
<1>t. TypeOK
  BY DEF TablesInv
<1>i. rq[t].pc \in {"idle", "threw"} /\ ~In(t, HomeIsToGo) /\ ~In(t, {"clr:contents"})
  BY <1>t, ArriveIdle DEF In, HomeIsToGo
<1> USE DEF In
<1>1. CASE GetByIdMiss(t) \/ ListMiss(t) \/ CompareMiss(t) \/ UpdateForm(t)
           \/ RevertVersion(t) \/ RenameTagFind(t) \/ DeletePageLoad(t)
           \/ ClearCachePages(t) \/ CreateIndexPages(t)
  <2>1. UNCHANGED <<pages, contents>> /\ homeCache' \subseteq homeCache
    BY <1>1 DEF GetByIdMiss, ListMiss, CompareMiss, UpdateForm, RevertVersion,
       RenameTagFind, DeletePageLoad, ClearCachePages, CreateIndexPages, UncacheAllPages,
       tables, caches
  <2>2. rq'[t].pc \in {"get:page", "list:pages", "cmp:previous", "upd:page", "rev:max",
                       "tag:next", "del:latest", "cache:lists", "idx:contents", "threw"}
    BY <1>1, <1>t, ReadArrivals, UpdateFormMoves, RevertVersionMoves, RenameTagFindMoves,
       OtherArrivals
  <2> QED
    BY <1>i, <2>1, <2>2, HomeUnknown, GoneAside DEF HomeLabels
<1>2. CASE HomePageMiss(t)
  <2>1. UNCHANGED <<pages, contents>> /\ homeCache' = homeCache
    BY <1>2 DEF HomePageMiss, tables, caches
  <2>2. CASE rq'[t].pc = "home:any"
    BY <1>i, <2>1, <2>2, HomeUnknown, GoneAside DEF HomeLabels
  <2>3. CASE rq'[t].pc = "home:content" /\ rq'[t].page \in pages /\ rq'[t].id = rq'[t].page.id
    <3>1. HomeKnown(t)'
      BY <2>1, <2>3 DEF HomeKnown, There
    <3> QED
      BY <1>i, <2>1, <3>1, GoneAside
  <2> QED
    BY <1>2, <1>t, <2>2, <2>3, ReadArrivals
<1>3. CASE AddPageRow(t)
  <2>1. PICK page : /\ rq'[t].pc = "add:content"
                    /\ pages' = pages \cup {page} /\ contents' = contents
    BY <1>3, <1>t, AddPageRowMoves
  <2>2. homeCache' = homeCache
    BY <1>3 DEF AddPageRow, caches
  <2> QED
    BY <1>i, <2>1, <2>2, HomeUnknown, NoneGoes DEF HomeLabels
<1>4. CASE ClearPagesRows(t)
  <2>1. homeCache' = homeCache
    BY <1>4 DEF ClearPagesRows, caches
  <2>2. CASE rq'[t].pc = "threw" /\ UNCHANGED tables
    BY <1>i, <2>1, <2>2, HomeUnknown, GoneAside DEF HomeLabels, tables
  <2>3. CASE rq'[t].pc = "clr:contents"
    BY <2>3, HomeUnknown, GoneMove DEF HomeLabels, HomeIsToGo
  <2> QED
    BY <1>4, <1>t, <2>2, <2>3, OtherArrivals
<1> QED
  BY <1>1, <1>2, <1>3, <1>4 DEF Arrives, Arrive

LEMMA NextGone ==
    ASSUME TablesInv, GoneInv, Serial, ~DatabaseMayFail, [Next]_vars
    PROVE  GoneInv'
<1>1. ASSUME NEW t \in Threads, Arrives(t) \/ GoOn(t)
      PROVE  GoneInv'
  BY <1>1, ArriveGone, ReadOnGone, UpdateOnGone, WriteOnGone DEF GoOn
<1>2. CASE Recycle
  <2>1. homeCache' = {} /\ (\A t \in Threads : rq'[t].pc = "idle") /\ ~Never({"recycle"})
    BY <1>2 DEF Recycle, Idle, Never
  <2> QED
    BY <2>1 DEF GoneInv, HomeKnown, In
<1>3. CASE UNCHANGED site
  <2>1. UNCHANGED <<pages, contents, homeCache, rq>>
    BY <1>3 DEF site, tables, caches
  <2> QED
    BY <2>1 DEF GoneInv, HomeKnown, There, In
<1> QED
  BY <1>1, <1>2, <1>3, SiteSteps DEF TablesInv

LEMMA InitGone == Init => GoneInv
<1> SUFFICES ASSUME Init PROVE GoneInv
  OBVIOUS
<1>1. homeCache = {} /\ \A t \in Threads : rq[t].pc = "idle"
  BY DEF Init, CachesInit, Idle
<1>2. \A c \in contents : There(c.pageId)
  BY RepositoryAssumption DEF Init, TablesInit, There
<1> QED
  BY <1>1, <1>2 DEF GoneInv, HomeKnown, In

(* The home page's cache names a page that is there, and each content has  *)
(* its page, or DeletePage or ClearPages is about to remove them.          *)
THEOREM GoneInvariant == Spec => [](Serial /\ ~DatabaseMayFail => GoneInv)
<1>1. Init => (Serial /\ ~DatabaseMayFail => GoneInv)
  BY InitGone
<1>2. /\ Serial => TablesInv
      /\ Serial /\ ~DatabaseMayFail => GoneInv
      /\ [Next]_vars
      => (Serial /\ ~DatabaseMayFail => GoneInv)'
  BY NextGone DEF Serial
<1> QED
  BY <1>1, <1>2, TablesInvariant, PTL DEF Spec

(* Between two requests, with one request at a time, no application        *)
(* restart and a database that does not fail, a deleted page is gone       *)
(* everywhere: it has no content left, and none of the three caches serves *)
(* it.                                                                     *)
THEOREM DeletedPagesStayGone == Spec => []DeletedPagesAreGone
<1>1. /\ Serial /\ ~DatabaseMayFail => PageCacheInv
      /\ Serial /\ ~DatabaseMayFail => ListsInv
      /\ Serial /\ ~DatabaseMayFail => GoneInv
      => DeletedPagesAreGone
  <2> SUFFICES ASSUME Serial, PageCacheInv, ListsInv, GoneInv, Quiet, Never({"recycle"})
               PROVE  /\ \A c \in contents : There(c.pageId)
                      /\ \A e \in pageCache : There(e.id)
                      /\ \A view \in homeCache : There(view.page.id)
                      /\ \A e \in listCache : \A view \in e.views : There(view.page.id)
    BY DEF DeletedPagesAreGone, PageIdsInUse, There
  <2>1. \A t \in Threads : rq[t].pc \in {"idle", "threw"}
    BY DEF Quiet, Between
  <2>2. \A c \in contents : There(c.pageId)
    BY <2>1 DEF GoneInv, In
  <2>3. \A view \in homeCache : There(view.page.id)
    BY <2>1 DEF GoneInv, In, HomeIsToGo
  <2>4. ASSUME NEW e \in pageCache PROVE There(e.id)
    <3>1. PageEntryHolds(e)
      BY <2>1 DEF PageCacheInv, PageEntryIsToGo, In, PageCacheIsToGo, PageIsToGo
    <3>2. CASE e.version = LATEST_VERSION_NUMBER
      BY <3>1, <3>2 DEF PageEntryHolds, IsCurrent, GetPageById, There
    <3>3. CASE e.version # LATEST_VERSION_NUMBER
      BY <2>2, <3>1, <3>3 DEF PageEntryHolds, GetPageContentByPageIdAndVersionNumber,
         FindPageContentsByPageId
    <3> QED
      BY <3>2, <3>3
  <2>5. ASSUME NEW e \in listCache, NEW view \in e.views PROVE There(view.page.id)
    <3>1. ListEntryHolds(e)
      BY <2>1 DEF ListsInv, In, ListsAreToGo
    <3> QED
      BY <3>1, ListedPagesAreThere DEF ListEntryHolds, There
  <2> QED
    BY <2>2, <2>3, <2>4, <2>5
<1> QED
  BY <1>1, PageCacheInvariant, ListsInvariant, GoneInvariant, PTL

-----------------------------------------------------------------------------
(* The search index. *)

LEMMA IndexMove ==
    ASSUME Serial, NEW t \in Threads, IndexKnown(t)',
           \A p \in PageIds : DocumentsHold(p)' \/ (In(t, IndexIsToCome)' /\ rq'[t].id = p)
    PROVE  IndexInv'
BY TheThread DEF IndexInv

LEMMA IndexOnly ==
    ASSUME IndexWorks, IndexInv, Serial, NEW t \in Threads
    PROVE  /\ IndexKnown(t)
           /\ ~In(t, {"idx:contents", "idx:close"}) => ~indexLock
           /\ \A p \in PageIds : DocumentsHold(p) \/ (In(t, IndexIsToCome) /\ rq[t].id = p)
BY TheThread DEF IndexInv, IndexKnown

(* The latest version of p keeps its wording. *)
LatestStays(p) ==
    \A c \in GetLatestPageContent(p) :
       \E d \in GetLatestPageContent(p)' : d.text.body = c.text.body

LEMMA DocumentsStay ==
    ASSUME NEW p, documents'[p] = documents[p], GetPageById(p)' = GetPageById(p),
           LatestStays(p), DocumentsHold(p)
    PROVE  DocumentsHold(p)'
BY DEF DocumentsHold, LatestStays

LEMMA RowsStay ==
    ASSUME UNCHANGED <<pages, contents>>
    PROVE  /\ \A p : GetPageById(p)' = GetPageById(p)
           /\ \A p : GetLatestPageContent(p)' = GetLatestPageContent(p)
           /\ \A p : LatestStays(p)
BY DEF GetPageById, GetLatestPageContent, FindPageContentsByPageId, LatestStays

(* Where something is known of the index. *)
IndexLabels ==
    NewLabels \cup GoneLabels \cup PageIsSaved
      \cup {"upd:page", "upd:unindex", "upd:index", "idx:contents", "idx:close"}

LEMMA IndexUnknown ==
    ASSUME NEW t, ~indexLock', ~In(t, IndexLabels)'
    PROVE  IndexKnown(t)'
<1>1. rq'[t].pc \notin IndexLabels
  BY DEF In
<1>2. /\ rq'[t].pc \notin NewLabels /\ rq'[t].pc \notin GoneLabels
      /\ rq'[t].pc \notin PageIsSaved
      /\ rq'[t].pc \notin {"upd:page", "upd:unindex", "upd:index", "idx:contents",
                            "idx:close"}
  BY <1>1 DEF IndexLabels
<1> QED
  BY <1>2 DEF IndexKnown, In, NewLabels

LEMMA IndexAside ==
    ASSUME IndexWorks, IndexInv, Serial, NEW t \in Threads, UNCHANGED <<pages, contents>>,
           UNCHANGED index, ~In(t, IndexIsToCome), ~In(t, {"idx:contents", "idx:close"}),
           ~In(t, IndexLabels)'
    PROVE  IndexInv'
<1>1. ~indexLock' /\ documents' = documents
  BY IndexOnly DEF index
<1>2. \A p \in PageIds : DocumentsHold(p)'
  BY <1>1, IndexOnly, RowsStay, DocumentsStay
<1> QED
  BY <1>1, <1>2, IndexUnknown, IndexMove

(* The request has yet to index its page, and the others stay as they are. *)
LEMMA IndexComing ==
    ASSUME IndexWorks, IndexInv, Serial, NEW t \in Threads, NEW p,
           p = rq[t].id, p = rq'[t].id, In(t, IndexIsToCome)', IndexKnown(t)',
           \A q \in PageIds \ {p} : documents'[q] = documents[q],
           \A q \in PageIds \ {p} : GetPageById(q)' = GetPageById(q) /\ LatestStays(q)
    PROVE  IndexInv'
<1>1. ASSUME NEW q \in PageIds, q # p PROVE DocumentsHold(q)'
  <2>1. DocumentsHold(q)
    BY <1>1, IndexOnly
  <2> QED
    BY <1>1, <2>1, DocumentsStay
<1> QED
  BY <1>1, IndexMove

LEMMA IndexReads ==
    ASSUME IndexWorks, TablesInv, IndexInv, Serial, NEW t \in Threads, ReadOn(t)
    PROVE  IndexInv'
<1>1. /\ Passes(t, ReadLabels, ReadLabels \cup {"idle", "threw", "tag:next"})
      /\ UNCHANGED <<tables, index>>
  BY ReadOnPasses DEF TablesInv
<1> QED
  BY <1>1, IndexAside DEF tables, Passes, In, ReadLabels, IndexIsToCome, IndexLabels,
     UpdateLabels, ListsHaveGone, NewLabels, GoneLabels, PageIsSaved

(* When no request is cut short, a page lacks its content only while it is *)
(* made or deleted.                                                        *)
LEMMA PageHasLatest ==
    ASSUME TablesInv, Undisturbed, Serial, NEW t \in Threads, ~In(t, WorkLabels),
           NEW p, There(p)
    PROVE  HasLatest(p)
<1>1. ~AtWorkOn(p)
  BY TheThread DEF AtWorkOn, AtWork, In, WorkLabels
<1> QED
  BY <1>1 DEF TablesInv, PagesHaveLatest, There, HasLatest

LEMMA RewrittenBodies ==
    ASSUME TypeOK, KeysInOrder, NEW row, NEW old \in contents, SameVersion(old, row),
           UpdatePageContent(row), NEW q
    PROVE  LatestStays(q)
<1>1. contents' = {IF d.id = row.id THEN row ELSE d : d \in contents}
  BY DEF UpdatePageContent
<1>2. \A d \in contents : d.id = row.id => d = old
  BY DEF SameVersion, KeysInOrder
<1>3. \A d \in contents : \E e \in contents' : SameVersion(d, e)
  BY <1>1, <1>2, SameVersionIsEquivalence
<1>4. \A e \in contents' : \E d \in contents : SameVersion(d, e)
  BY <1>1, <1>2, SameVersionIsEquivalence
<1> SUFFICES ASSUME NEW c \in GetLatestPageContent(q)
             PROVE  \E d \in GetLatestPageContent(q)' : d.text.body = c.text.body
  BY DEF LatestStays
<1>5. c \in contents /\ c.pageId = q /\ \A d \in contents : d.pageId = q
        => d.editedOn <= c.editedOn
  BY DEF GetLatestPageContent, FindPageContentsByPageId
<1>6. PICK e \in contents' : SameVersion(c, e)
  BY <1>3, <1>5
<1>7. \A d \in contents' : d.pageId = q => d.editedOn <= e.editedOn
  BY <1>4, <1>5, <1>6 DEF SameVersion
<1> QED
  BY <1>5, <1>6, <1>7 DEF GetLatestPageContent, FindPageContentsByPageId, SameVersion

(* The page that was saved is still there. *)
LEMMA SavedStays ==
    ASSUME NEW t, In(t, PageIsSaved)', ~indexLock', NEW p, NEW page,
           rq'[t].id = p, rq'[t].page = page, page.id = p, GetPageById(p) = {page},
           pages' = pages
    PROVE  IndexKnown(t)'
<1>1. GetPageById(p)' = {page}
  BY DEF GetPageById
<1> QED
  BY <1>1 DEF IndexKnown, In, PageIsSaved, NewLabels, GoneLabels

(* The page has the one document it should have. *)
LEMMA Indexed ==
    ASSUME NEW p, NEW view, IsToIndex(view, p), UNCHANGED <<pages, contents>>,
           documents'[p] = <<view>>
    PROVE  DocumentsHold(p)'
<1>1. /\ GetPageById(p)' = {view.page}
      /\ \E c \in GetLatestPageContent(p)' : c.text.body = view.text.body
  BY RowsStay DEF IsToIndex
<1>2. DOMAIN documents'[p] = {1} /\ documents'[p][1] = view /\ Len(documents'[p]) = 1
  OBVIOUS
<1>3. {documents'[p][i].page : i \in DOMAIN documents'[p]} = {view.page}
  BY <1>2
<1> QED
  BY <1>1, <1>2, <1>3 DEF DocumentsHold

LEMMA NotIndexed ==
    ASSUME NEW p, GetPageById(p)' = {}, documents'[p] = <<>>
    PROVE  DocumentsHold(p)'
<1>1. DOMAIN documents'[p] = {} /\ Len(documents'[p]) = 0
  OBVIOUS
<1>2. {documents'[p][i].page : i \in DOMAIN documents'[p]} = {}
  BY <1>1
<1> QED
  BY <1>1, <1>2 DEF DocumentsHold

LEMMA NothingIndexed ==
    ASSUME NEW p, DocumentsHold(p), GetPageById(p) = {}, documents[p] \in Seq(View)
    PROVE  documents[p] = <<>>
<1>1. PICK docs \in Seq(View) : docs = documents[p]
  OBVIOUS
<1>2. {docs[i].page : i \in DOMAIN docs} = {}
  BY <1>1 DEF DocumentsHold
<1>3. \A i \in DOMAIN docs : docs[i].page \in {docs[j].page : j \in DOMAIN docs}
  OBVIOUS
<1>4. DOMAIN docs = {}
  BY <1>2, <1>3
<1>5. Len(docs) = 0
  BY <1>4
<1> QED
  BY <1>1, <1>5

LEMMA UpdateOnIndex ==
    ASSUME IndexWorks, TablesInv, IndexInv, Serial, ~DatabaseMayFail,
           NEW t \in Threads, UpdateOn(t)
    PROVE  IndexInv'
<1>t. TypeOK /\ KeysInOrder /\ TablesKnown(t)
  BY DEF TablesInv
<1>k. IndexKnown(t)
  BY IndexOnly
<1>m. /\ rq[t] \in Request
      /\ \A label : Goto(t, label) => rq'[t].pc = label /\ Stays(t)
      /\ Return(t) => rq'[t].pc = "idle"
      /\ Throw(t) => rq'[t].pc = "threw"
  BY <1>t, Moved
<1>p. PICK p, page : p = rq[t].id /\ page = rq[t].page
  OBVIOUS
<1>r. p \in PageIds
  BY <1>m, <1>p DEF Request
<1>w. ~SearchMayFail /\ Undisturbed
  BY DEF IndexWorks, Never, Undisturbed
<1>i. documents \in [PageIds -> Seq(View)]
  BY <1>t DEF TypeOK, IndexTypeOK
<1>l. ~indexLock
  BY IndexOnly DEF In, UpdateOn, UpdatePageLoad, UpdatePageSave, UpdatePageUncache,
     UpdatePageUncacheHome, UpdatePageUncacheLists, UpdatePageMaxVersion, UpdatePageInsert,
     UpdateLinksRead, UpdateLinksRewrite, UpdateLinksClearPages, UpdateLinksClearLists,
     UpdatePageReread, UpdatePageUnindex, UpdatePageIndex, UpdatePageTakeTime, At
<1>f. ~IndexFails
  BY <1>l, <1>w DEF IndexFails
<1>s. In(t, PageIsSaved) => page.id = p /\ GetPageById(p) = {page} /\ HasLatest(p)
  <2> SUFFICES ASSUME In(t, PageIsSaved)
               PROVE  page.id = p /\ GetPageById(p) = {page} /\ HasLatest(p)
    OBVIOUS
  <2>1. page.id = p /\ GetPageById(p) = {page}
    BY <1>k, <1>p DEF IndexKnown
  <2>2. There(p)
    BY <2>1 DEF There, GetPageById
  <2>3. ~In(t, WorkLabels)
    BY DEF In, PageIsSaved, WorkLabels
  <2> QED
    BY <1>w, <2>1, <2>2, <2>3, PageHasLatest
<1> USE DEF In
<1>1. CASE UpdatePageLoad(t)
  <2>1. rq[t].pc = "upd:page" /\ UNCHANGED <<pages, contents>> /\ UNCHANGED index
    BY <1>1 DEF UpdatePageLoad, At, tables
  <2>2. rq'[t].pc \in {"upd:save", "threw"}
    BY <1>1, <1>t, UpdatePageLoadMoves
  <2>3. IndexKnown(t)'
    BY <1>l, <2>1, <2>2, IndexUnknown DEF index, IndexLabels, NewLabels, GoneLabels, PageIsSaved
  <2>4. CASE rq'[t].pc = "upd:save" /\ rq'[t].id = rq[t].id
    BY <1>p, <2>1, <2>3, <2>4, RowsStay, IndexComing DEF index, IndexIsToCome, UpdateLabels
  <2>5. CASE rq'[t].pc = "threw" /\ GetPageById(rq[t].id) = {}
    <3>1. DocumentsHold(p)
      BY <1>k, <1>p, <2>1, <2>5 DEF IndexKnown, There, GetPageById
    <3>2. \A q \in PageIds : DocumentsHold(q)
      BY <1>p, <3>1, IndexOnly
    <3>3. \A q \in PageIds : DocumentsHold(q)'
      BY <2>1, <3>2, RowsStay, DocumentsStay DEF index
    <3> QED
      BY <2>3, <3>3, IndexMove
  <2> QED
    BY <1>1, <1>t, <2>4, <2>5, UpdatePageLoadMoves
<1>2. CASE UpdatePageSave(t)
  <2>1. /\ rq[t].pc = "upd:save" /\ rq'[t].pc = "upd:cache" /\ rq'[t].id = p
        /\ rq'[t].page = page /\ UNCHANGED index
    BY <1>2, <1>m, <1>p DEF UpdatePageSave, At, Stays
  <2>2. There(p) /\ page.id = p
    BY <1>t, <1>p, <2>1 DEF TablesKnown, PageIsThere
  <2>3. pages' = {IF q.id = p THEN page ELSE q : q \in pages} /\ contents' = contents
    BY <1>2, <1>p, <2>2 DEF UpdatePageSave, SaveOrUpdatePage
  <2>4. GetPageById(p)' = {page}
    BY <2>2, <2>3 DEF GetPageById, There
  <2>5. \A q : q # p => GetPageById(q)' = GetPageById(q)
    BY <2>2, <2>3 DEF GetPageById
  <2>6. \A q : LatestStays(q)
    BY <2>3 DEF LatestStays, GetLatestPageContent, FindPageContentsByPageId
  <2>7. IndexKnown(t)'
    BY <1>l, <2>1, <2>2, <2>4 DEF IndexKnown, index, NewLabels, GoneLabels, PageIsSaved
  <2> QED
    BY <1>p, <2>1, <2>5, <2>6, <2>7, IndexComing DEF index, IndexIsToCome, UpdateLabels
<1>3. CASE UpdatePageUncache(t) \/ UpdatePageUncacheHome(t) \/ UpdatePageUncacheLists(t)
           \/ UpdatePageMaxVersion(t) \/ UpdateLinksRead(t) \/ UpdateLinksClearPages(t)
           \/ UpdateLinksClearLists(t) \/ UpdatePageTakeTime(t)
  <2>1. UNCHANGED <<pages, contents>> /\ UNCHANGED index
    BY <1>3, <1>t, UpdatePageTakeTimeMoves DEF rows, UpdatePageUncache, UpdatePageUncacheHome, UpdatePageUncacheLists,
       UpdatePageMaxVersion, UpdateLinksRead, UpdateLinksClearPages, UpdateLinksClearLists,
       tables
  <2>2. In(t, PageIsSaved)
    BY <1>3, <1>t, UpdatePageTakeTimeMoves DEF UpdatePageUncache, UpdatePageUncacheHome, UpdatePageUncacheLists,
       UpdatePageMaxVersion, UpdateLinksRead, UpdateLinksClearPages, UpdateLinksClearLists,
       At, PageIsSaved
  <2>3. /\ rq'[t].pc \in {"upd:home", "upd:lists", "upd:max", "upd:time", "upd:insert",
                          "upd:rewrite", "upd:clearlists", "upd:latest"}
        /\ rq'[t].id = p /\ rq'[t].page = page
    <3>1. CASE UpdatePageMaxVersion(t) \/ UpdateLinksRead(t)
      <4>1. GetLatestPageContent(p) # {}
        BY <1>s, <2>2 DEF HasLatest
      <4> QED
        BY <1>t, <1>p, <3>1, <4>1, UpdatePageMaxVersionMoves, UpdateLinksReadMoves
    <3>2. CASE ~(UpdatePageMaxVersion(t) \/ UpdateLinksRead(t))
      BY <1>3, <1>t, <1>m, <1>p, <3>2, UpdatePageTakeTimeMoves DEF UpdatePageUncache, UpdatePageUncacheHome,
         UpdatePageUncacheLists, UpdateLinksClearPages, UpdateLinksClearLists, Stays
    <3> QED
      BY <3>1, <3>2
  <2>4. IndexKnown(t)'
    BY <1>l, <1>s, <2>1, <2>2, <2>3, SavedStays DEF index, PageIsSaved
  <2> QED
    BY <1>p, <2>1, <2>3, <2>4, RowsStay, IndexComing
    DEF index, IndexIsToCome, UpdateLabels, ListsHaveGone
<1>4. CASE UpdatePageInsert(t)
  <2>1. rq[t].pc = "upd:insert" /\ In(t, PageIsSaved) /\ There(p) /\ rq[t].on = clock
    BY <1>t, <1>4, <1>p DEF UpdatePageInsert, At, TablesKnown, PageIsThere, PageIsSaved
  <2>2. /\ AddNewPageContentVersion(p, rq[t].ver, rq[t].model.text, clock)
        /\ rq'[t].pc \in {"upd:latest", "upd:links"} /\ UNCHANGED index
        /\ rq'[t].id = p /\ rq'[t].page = page
    BY <1>4, <1>m, <1>p, <2>1 DEF UpdatePageInsert, MayReference, GetPageById, There, Stays
  <2>3. PICK v, text : InsertContent(p, v, text, clock)
    BY <2>2 DEF AddNewPageContentVersion
  <2>4. /\ pages' = pages
        /\ \A q : q # p => GetLatestPageContent(q)' = GetLatestPageContent(q)
    BY <1>t, <2>1, <2>3, InsertedInOrder, NewRowNow
  <2>5. IndexKnown(t)'
    BY <1>l, <1>s, <2>1, <2>2, <2>4, SavedStays DEF index, PageIsSaved
  <2> QED
    BY <1>p, <2>2, <2>4, <2>5, IndexComing
    DEF index, IndexIsToCome, UpdateLabels, ListsHaveGone, GetPageById, LatestStays
<1>5. CASE UpdateLinksRewrite(t)
  <2>1. rq[t].pc = "upd:rewrite" /\ In(t, PageIsSaved) /\ UNCHANGED index
    BY <1>5 DEF UpdateLinksRewrite, At, PageIsSaved
  <2>2. /\ rq'[t].pc \in {"upd:rewrite", "upd:clearpages"}
        /\ rq'[t].id = p /\ rq'[t].page = page
    BY <1>5, <1>t, <1>p, <2>1, UpdateLinksRewriteMoves DEF Stays
  <2>3. pages' = pages /\ \A q : LatestStays(q)
    <3>1. CASE UNCHANGED tables
      BY <3>1, RowsStay DEF tables
    <3>2. ASSUME NEW c \in rq[t].rows,
                 UpdatePageContent([c EXCEPT !.text = ReplacePageLinks(@,
                                      rq[t].prev, rq[t].model.page.title)])
          PROVE  pages' = pages /\ \A q : LatestStays(q)
      <4>1. PICK d \in contents : SameVersion(c, d)
        BY <1>t, <2>1 DEF TablesKnown
      <4>2. PICK row : row = [c EXCEPT !.text = ReplacePageLinks(@,
                                      rq[t].prev, rq[t].model.page.title)]
        OBVIOUS
      <4>3. c \in PageContent
        BY <1>m DEF Request
      <4>4. SameVersion(c, row)
        BY <4>2, <4>3 DEF SameVersion, PageContent, Text, ReplacePageLinks
      <4>5. SameVersion(d, row)
        BY <4>1, <4>4 DEF SameVersion
      <4> QED
        BY <1>t, <3>2, <4>2, <4>5, RewrittenBodies DEF UpdatePageContent
    <3> QED
      BY <1>5, <1>t, <3>1, <3>2, UpdateLinksRewriteMoves
  <2>4. IndexKnown(t)'
    BY <1>l, <1>s, <2>1, <2>2, <2>3, SavedStays DEF index, PageIsSaved
  <2> QED
    BY <1>p, <2>1, <2>2, <2>3, <2>4, IndexComing
    DEF index, IndexIsToCome, UpdateLabels, ListsHaveGone, GetPageById
<1>6. CASE UpdatePageReread(t)
  <2>1. /\ In(t, PageIsSaved) /\ UNCHANGED <<pages, contents>> /\ UNCHANGED index
    BY <1>6 DEF UpdatePageReread, At, PageIsSaved, tables
  <2>2. GetLatestPageContent(p) # {}
    BY <1>s, <2>1 DEF HasLatest
  <2>3. PICK c \in GetLatestPageContent(p) :
          /\ rq'[t].pc = "upd:unindex" /\ rq'[t].id = p /\ rq'[t].view = ViewOf(page, c)
    BY <1>6, <1>t, <1>p, <2>2, UpdatePageRereadMoves
  <2>4. PICK view : view = ViewOf(page, c)
    OBVIOUS
  <2>5. view.page = page /\ view.text = c.text
    BY <2>4 DEF ViewOf
  <2>6. IsToIndex(view, p)'
    BY <1>s, <2>1, <2>5, RowsStay DEF IsToIndex
  <2>7. IndexKnown(t)'
    BY <1>l, <2>1, <2>3, <2>4, <2>6 DEF IndexKnown, IsToIndex, index, NewLabels, GoneLabels,
       PageIsSaved
  <2> QED
    BY <1>p, <2>1, <2>3, <2>7, RowsStay, IndexComing
    DEF index, IndexIsToCome, UpdateLabels, ListsHaveGone
<1>7. CASE UpdatePageUnindex(t)
  <2>1. rq[t].pc = "upd:unindex" /\ UNCHANGED <<pages, contents>>
    BY <1>7 DEF UpdatePageUnindex, At, tables
  <2>2. /\ IndexDelete(p) /\ rq'[t].pc = "upd:index" /\ rq'[t].id = p
        /\ rq'[t].view = rq[t].view
    BY <1>7, <1>f, <1>m, <1>p DEF UpdatePageUnindex, IndexThrows, IndexIgnoresError, Stays
  <2>3. /\ documents'[p] = <<>> /\ ~indexLock'
        /\ \A q \in PageIds : q # p => documents'[q] = documents[q]
    BY <1>i, <1>l, <1>r, <2>2 DEF IndexDelete
  <2>4. PICK view : view = rq[t].view
    OBVIOUS
  <2>5. IsToIndex(view, p)
    BY <1>k, <1>p, <2>1, <2>4 DEF IndexKnown
  <2>6. IsToIndex(view, p)'
    BY <2>1, <2>5, RowsStay DEF IsToIndex
  <2>7. IndexKnown(t)'
    BY <2>2, <2>3, <2>4, <2>6 DEF IndexKnown, IsToIndex, NewLabels, GoneLabels, PageIsSaved
  <2> QED
    BY <1>p, <2>1, <2>2, <2>3, <2>7, RowsStay, IndexComing
    DEF IndexIsToCome, UpdateLabels, ListsHaveGone
<1>8. CASE UpdatePageIndex(t)
  <2>1. PICK view : view = rq[t].view
    OBVIOUS
  <2>2. /\ UNCHANGED <<pages, contents>> /\ documents[p] = <<>> /\ IsToIndex(view, p)
    BY <1>k, <1>8, <1>p, <2>1 DEF UpdatePageIndex, At, IndexKnown, tables
  <2>3. IndexAdd(view) /\ rq'[t].pc \in {"tag:next", "idle"}
    BY <1>8, <1>f, <1>m, <2>1 DEF UpdatePageIndex, IndexThrows, IndexIgnoresError
  <2>4. /\ documents'[p] = <<view>> /\ ~indexLock'
        /\ \A q \in PageIds : q # p => documents'[q] = documents[q]
    BY <1>i, <1>l, <1>r, <2>2, <2>3 DEF IndexAdd, IsToIndex
  <2>5. DocumentsHold(p)'
    BY <2>2, <2>4, Indexed
  <2>6. ASSUME NEW q \in PageIds, q # p PROVE DocumentsHold(q)'
    <3>1. DocumentsHold(q)
      BY <1>p, <2>6, IndexOnly
    <3> QED
      BY <2>2, <2>4, <2>6, <3>1, RowsStay, DocumentsStay
  <2>7. IndexKnown(t)'
    BY <2>3, <2>4, IndexUnknown DEF IndexLabels, NewLabels, GoneLabels, PageIsSaved
  <2> QED
    BY <2>5, <2>6, <2>7, IndexMove
<1> QED
  BY <1>1, <1>2, <1>3, <1>4, <1>5, <1>6, <1>7, <1>8 DEF UpdateOn

LEMMA WriteOnIndex ==
    ASSUME IndexWorks, TablesInv, ListsInv, IndexInv, Serial, ~DatabaseMayFail,
           NEW t \in Threads, WriteOn(t)
    PROVE  IndexInv'
<1>t. TypeOK /\ KeysInOrder /\ TablesKnown(t)
  BY DEF TablesInv
<1>k. IndexKnown(t)
  BY IndexOnly
<1>m. /\ rq[t] \in Request
      /\ \A label : Goto(t, label) => rq'[t].pc = label /\ Stays(t)
      /\ Return(t) => rq'[t].pc = "idle"
      /\ Throw(t) => rq'[t].pc = "threw"
  BY <1>t, Moved
<1>p. PICK p, model : p = rq[t].id /\ model = rq[t].model
  OBVIOUS
<1>r. p \in PageIds
  BY <1>m, <1>p DEF Request
<1>w. ~SearchMayFail /\ Undisturbed /\ "clear" \notin Ops
  BY DEF IndexWorks, Never, Undisturbed
<1>i. documents \in [PageIds -> Seq(View)]
  BY <1>t DEF TypeOK, IndexTypeOK
<1>l. ~In(t, {"idx:contents", "idx:close"}) => ~indexLock /\ ~IndexFails
  BY <1>w, IndexOnly DEF IndexFails
<1> USE DEF In
<1>1. CASE AddPageContent(t)
  <2>1. /\ rq[t].pc = "add:content" /\ There(p) /\ \A c \in contents : c.pageId # p
        /\ model.page.id = p /\ GetPageById(p) = {model.page} /\ documents[p] = <<>>
        /\ rq[t].on = clock
    BY <1>t, <1>k, <1>1, <1>p
    DEF AddPageContent, At, TablesKnown, PageIsThere, IndexKnown, NewLabels
  <2>2. /\ InsertContent(p, 1, model.text, clock) /\ rq'[t].pc = "add:lists" /\ rq'[t].id = p
        /\ rq'[t].model = model /\ UNCHANGED index
    BY <1>1, <1>m, <1>p, <2>1 DEF AddPageContent, MayReference, GetPageById, There, Stays
  <2>3. PICK text : text = model.text
    OBVIOUS
  <2>4. InsertContent(p, 1, text, clock)
    BY <2>2, <2>3
  <2>5. PICK row : /\ row.pageId = p /\ row.text = text /\ contents' = contents \cup {row}
                   /\ pages' = pages
    BY <1>t, <2>4, NewRowNow
  <2>6. row \in GetLatestPageContent(p)'
    <3>1. HasLatest(p)'
      BY <1>t, <2>1, <2>4, InsertedInOrder
    <3> QED
      BY <2>1, <2>5, <3>1 DEF HasLatest, GetLatestPageContent, FindPageContentsByPageId
  <2>7. IsToIndex(model, p)'
    BY <2>1, <2>3, <2>5, <2>6 DEF IsToIndex, GetPageById
  <2>8. \A q : q # p => GetLatestPageContent(q)' = GetLatestPageContent(q)
    BY <1>t, <2>1, <2>4, InsertedInOrder
  <2>9. IndexKnown(t)'
    BY <1>l, <2>1, <2>2, <2>7 DEF IndexKnown, IsToIndex, index, NewLabels, GoneLabels,
       PageIsSaved
  <2> QED
    BY <1>p, <2>2, <2>5, <2>8, <2>9, IndexComing
    DEF index, IndexIsToCome, NewLabels, GetPageById, LatestStays
<1>2. CASE AddPageClearLists(t) \/ AddPageClearPages(t)
  <2>1. /\ rq[t].pc \in {"add:lists", "add:pages"} /\ rq'[t].pc \in {"add:pages", "add:index"}
        /\ rq'[t].id = p /\ rq'[t].model = model
        /\ UNCHANGED <<pages, contents>> /\ UNCHANGED index
    BY <1>2, <1>m, <1>p DEF AddPageClearLists, AddPageClearPages, At, Stays, tables
  <2>2. IsToIndex(model, p) /\ documents[p] = <<>>
    BY <1>k, <1>p, <2>1 DEF IndexKnown, NewLabels
  <2>3. IsToIndex(model, p)'
    BY <2>1, <2>2, RowsStay DEF IsToIndex
  <2>4. IndexKnown(t)'
    BY <1>l, <2>1, <2>2, <2>3 DEF IndexKnown, IsToIndex, index, NewLabels, GoneLabels,
       PageIsSaved
  <2> QED
    BY <1>p, <2>1, <2>4, RowsStay, IndexComing DEF index, IndexIsToCome, NewLabels
<1>3. CASE AddPageIndex(t)
  <2>1. rq[t].pc = "add:index" /\ UNCHANGED <<pages, contents>> /\ rq'[t].pc = "idle"
    BY <1>3, <1>m DEF AddPageIndex, At, tables
  <2>2. IsToIndex(model, p) /\ documents[p] = <<>>
    BY <1>k, <1>p, <2>1 DEF IndexKnown, NewLabels
  <2>3. IndexAdd(model)
    BY <1>3, <1>l, <1>p, <2>1 DEF AddPageIndex
  <2>4. /\ documents'[p] = <<model>> /\ ~indexLock'
        /\ \A q \in PageIds : q # p => documents'[q] = documents[q]
    BY <1>i, <1>l, <1>r, <2>1, <2>2, <2>3 DEF IndexAdd, IsToIndex
  <2>5. DocumentsHold(p)'
    BY <2>1, <2>2, <2>4, Indexed
  <2>6. ASSUME NEW q \in PageIds, q # p PROVE DocumentsHold(q)'
    <3>1. DocumentsHold(q)
      BY <1>p, <2>6, IndexOnly
    <3> QED
      BY <2>1, <2>4, <2>6, <3>1, RowsStay, DocumentsStay
  <2>7. IndexKnown(t)'
    BY <2>1, <2>4, IndexUnknown DEF IndexLabels, NewLabels, GoneLabels, PageIsSaved
  <2> QED
    BY <2>5, <2>6, <2>7, IndexMove
<1>4. CASE RevertMaxVersion(t) \/ RevertCache(t) \/ RenameTagNext(t) \/ RenameTagUncache(t)
           \/ DeletePageLatest(t) \/ DeletePageClearLists(t) \/ DeletePageClearPages(t)
           \/ ClearPagesLists(t) \/ ClearPagesPages(t) \/ ClearCacheLists(t)
           \/ RevertTakeTime(t)
  <2>1. UNCHANGED <<pages, contents>> /\ UNCHANGED index
    BY <1>4, <1>t, RevertTakeTimeMoves DEF rows, RevertMaxVersion, RevertCache, RenameTagNext, RenameTagUncache,
       DeletePageLatest, DeletePageClearLists, DeletePageClearPages, ClearPagesLists,
       ClearPagesPages, ClearCacheLists, tables
  <2>2. rq[t].pc \in {"rev:max", "rev:time", "rev:cache", "tag:next", "tag:done",
                      "del:latest", "del:lists", "del:pages", "clr:lists", "clr:pages", "cache:lists"}
    BY <1>4, <1>t, RevertTakeTimeMoves
    DEF RevertMaxVersion, RevertCache, RenameTagNext, RenameTagUncache,
       DeletePageLatest, DeletePageClearLists, DeletePageClearPages, ClearPagesLists,
       ClearPagesPages, ClearCacheLists, At
  <2>3. rq'[t].pc \in {"rev:time", "rev:insert", "tag:unindex", "tag:done", "del:unindex",
                       "del:pages", "clr:pages", "idle", "threw"}
    BY <1>4, <1>t, <1>m, RevertMaxVersionMoves, RevertTakeTimeMoves, RenameTagNextMoves
    DEF RevertCache, RenameTagUncache, DeletePageLatest, DeletePageClearLists,
       DeletePageClearPages, ClearPagesLists, ClearPagesPages, ClearCacheLists
  <2> QED
    BY <2>1, <2>2, <2>3, IndexAside DEF IndexIsToCome, IndexLabels, UpdateLabels,
       ListsHaveGone, NewLabels, GoneLabels, PageIsSaved
<1>5. CASE RevertInsert(t)
  <2>1. /\ rq[t].pc = "rev:insert" /\ "revert" \in Ops /\ rq'[t].pc \in {"rev:cache", "threw"}
    BY <1>5, <1>t, <1>m DEF RevertInsert, At, TablesKnown, CallsKnown
  <2>2. pages' = pages /\ UNCHANGED index
    BY <1>5 DEF RevertInsert, AddNewPageContentVersion, InsertContent, tables
  <2>3. \A q \in PageIds : DocumentsHold(q)
    BY <2>1, IndexOnly DEF IndexIsToCome, UpdateLabels, ListsHaveGone, NewLabels, GoneLabels
  <2>4. ~Never({"revert"})
    BY <2>1 DEF Never
  <2>5. \A q \in PageIds : DocumentsHold(q)'
    BY <2>2, <2>3, <2>4 DEF DocumentsHold, GetPageById, index
  <2>6. IndexKnown(t)'
    BY <1>l, <2>1, <2>2, IndexUnknown DEF index, IndexLabels, NewLabels, GoneLabels, PageIsSaved
  <2> QED
    BY <2>5, <2>6, IndexMove
<1>6. CASE RenameTagUnindex(t)
  <2>1. rq[t].pc = "tag:unindex" /\ UNCHANGED <<pages, contents>>
    BY <1>6 DEF RenameTagUnindex, At, tables
  <2>2. rq'[t].pc = "upd:page" /\ rq'[t].id = p /\ IndexDelete(p)
    BY <1>6, <1>t, <1>l, <1>p, <2>1, RenameTagUnindexMoves DEF IndexThrows, IndexIgnoresError
  <2>3. ~indexLock' /\ \A q \in PageIds : q # p => documents'[q] = documents[q]
    BY <1>i, <1>l, <2>1, <2>2 DEF IndexDelete
  <2>4. There(p)
    BY <1>p, <2>1, ListsOnly DEF ListsKnown
  <2>5. There(p)'
    BY <2>1, <2>4 DEF There
  <2>6. IndexKnown(t)'
    BY <2>2, <2>3, <2>5 DEF IndexKnown, There, NewLabels, GoneLabels, PageIsSaved
  <2> QED
    BY <1>p, <2>1, <2>2, <2>3, <2>6, RowsStay, IndexComing DEF IndexIsToCome, UpdateLabels
<1>7. CASE DeletePageUnindex(t)
  <2>1. rq[t].pc = "del:unindex" /\ UNCHANGED <<pages, contents>>
    BY <1>7 DEF DeletePageUnindex, At, tables
  <2>2. rq'[t].pc = "del:children" /\ rq'[t].id = p /\ IndexDelete(p)
    BY <1>7, <1>l, <1>m, <1>p, <2>1 DEF DeletePageUnindex, Stays
  <2>3. /\ documents'[p] = <<>> /\ ~indexLock'
        /\ \A q \in PageIds : q # p => documents'[q] = documents[q]
    BY <1>i, <1>l, <1>r, <2>1, <2>2 DEF IndexDelete
  <2>4. IndexKnown(t)'
    BY <2>2, <2>3 DEF IndexKnown, NewLabels, GoneLabels, PageIsSaved
  <2> QED
    BY <1>p, <2>1, <2>2, <2>3, <2>4, RowsStay, IndexComing DEF IndexIsToCome, GoneLabels
<1>8. CASE DeletePageChildren(t) \/ DeletePageContents(t)
  <2>1. rq[t].pc \in {"del:children", "del:contents"} /\ UNCHANGED index /\ documents[p] = <<>>
    BY <1>8, <1>k, <1>p DEF DeletePageChildren, DeletePageContents, At, IndexKnown, GoneLabels
  <2>2. rq'[t].pc \in {"del:contents", "del:row"} /\ rq'[t].id = p
    BY <1>8, <1>t, <1>p, DeletePageChildrenMoves, DeletePageContentsMoves
    DEF DeletePageContents, At, Stays
  <2>3. pages' = pages /\ \A q : q # p => GetLatestPageContent(q)' = GetLatestPageContent(q)
    <3>1. CASE UNCHANGED tables
      BY <3>1, RowsStay DEF tables
    <3>2. ASSUME NEW c \in rq[t].rows, DeletePageContents(t), DeletePageContent(c)
          PROVE  pages' = pages
                 /\ \A q : q # p => GetLatestPageContent(q)' = GetLatestPageContent(q)
      <4>1. c \in contents /\ c.pageId = p
        BY <1>t, <1>p, <3>2 DEF DeletePageContents, At, TablesKnown
      <4>2. contents' = {d \in contents : d.id # c.id} /\ pages' = pages
        BY <3>2 DEF DeletePageContent
      <4>3. \A d \in contents \ contents' : d.pageId = p
        BY <1>t, <4>1, <4>2 DEF KeysInOrder
      <4> QED
        BY <4>2, <4>3, LatestKept
    <3> QED
      BY <1>8, <1>t, <3>1, <3>2, DeletePageContentsMoves DEF DeletePageChildren
  <2>4. IndexKnown(t)'
    BY <1>l, <2>1, <2>2 DEF IndexKnown, index, NewLabels, GoneLabels, PageIsSaved
  <2> QED
    BY <1>p, <2>1, <2>2, <2>3, <2>4, IndexComing
    DEF index, IndexIsToCome, GoneLabels, GetPageById, LatestStays
<1>9. CASE DeletePageRow(t)
  <2>1. /\ rq[t].pc = "del:row" /\ rq'[t].pc = "del:lists" /\ DeletePage(p)
        /\ UNCHANGED index /\ documents[p] = <<>>
    BY <1>9, <1>k, <1>m, <1>p DEF DeletePageRow, At, IndexKnown, GoneLabels
  <2>2. /\ pages' = {pg \in pages : pg.id # p}
        /\ contents' = {c \in contents : c.pageId # p}
    BY <2>1 DEF DeletePage, FindPageContentsByPageId
  <2>3. DocumentsHold(p)'
    BY <2>1, <2>2, NotIndexed DEF GetPageById, index
  <2>4. ASSUME NEW q \in PageIds, q # p PROVE DocumentsHold(q)'
    <3>1. GetPageById(q)' = GetPageById(q) /\ GetLatestPageContent(q)' = GetLatestPageContent(q)
      BY <2>2, <2>4, LatestKept DEF GetPageById
    <3>2. DocumentsHold(q) /\ documents'[q] = documents[q]
      BY <1>p, <2>1, <2>4, IndexOnly DEF index
    <3> QED
      BY <3>1, <3>2, DocumentsStay DEF LatestStays
  <2>5. IndexKnown(t)'
    BY <1>l, <2>1, IndexUnknown DEF index, IndexLabels, NewLabels, GoneLabels, PageIsSaved
  <2> QED
    BY <2>3, <2>4, <2>5, IndexMove
<1>10. CASE ClearPagesContents(t)
  BY <1>10, <1>t, <1>w DEF ClearPagesContents, At, TablesKnown, CallsKnown
<1>11. CASE CreateIndexContent(t)
  <2>1. /\ rq[t].pc = "idx:contents" /\ UNCHANGED <<pages, contents>>
        /\ {view.page : view \in rq[t].views} \cup rq[t].todo = pages
        /\ \A view \in rq[t].views : IsCurrent(view)
    BY <1>11, <1>k DEF CreateIndexContent, At, IndexKnown, tables
  <2>2. \A q \in PageIds : DocumentsHold(q)
    BY <2>1, IndexOnly DEF IndexIsToCome, UpdateLabels, ListsHaveGone, NewLabels, GoneLabels
  <2>3. ASSUME UNCHANGED index PROVE \A q \in PageIds : DocumentsHold(q)'
    BY <2>1, <2>2, <2>3, RowsStay, DocumentsStay DEF index
  <2>4. \A view : IsCurrent(view) => IsCurrent(view)'
    BY <2>1, RowsStay DEF IsCurrent
  <2>5. \A pg \in rq[t].todo : GetLatestPageContent(pg.id) # {}
    BY <1>w, <2>1, PageHasLatest DEF There, HasLatest, WorkLabels
  <2>6. CASE rq[t].todo = {} /\ rq'[t].pc = "idx:close" /\ Stays(t) /\ UNCHANGED index
    <3>1. rq'[t].views = rq[t].views
      BY <2>6 DEF Stays
    <3>2. IndexKnown(t)'
      BY <2>1, <2>4, <2>6, <3>1 DEF IndexKnown, IsCurrent, NewLabels, GoneLabels, PageIsSaved
    <3> QED
      BY <2>3, <2>6, <3>2, IndexMove
  <2>7. ASSUME NEW pg \in rq[t].todo, NEW c \in GetLatestPageContent(pg.id),
               rq'[t].pc = rq[t].pc, rq'[t].todo = rq[t].todo \ {pg},
               rq'[t].views = rq[t].views \cup {ViewOf(pg, c)}, UNCHANGED index
        PROVE  IndexInv'
    <3>1. PICK view, views, todo :
            view = ViewOf(pg, c) /\ views = rq[t].views /\ todo = rq[t].todo
      OBVIOUS
    <3>2. view.page = pg /\ pg \in pages
      BY <2>1, <3>1 DEF ViewOf
    <3>3. IsCurrent(view)
      BY <3>1, <3>2 DEF IsCurrent, GetPageById
    <3>4. /\ rq'[t].views = views \cup {view} /\ rq'[t].todo = todo \ {pg}
          /\ {v.page : v \in views \cup {view}} \cup (todo \ {pg}) = pages
      BY <2>1, <2>7, <3>1, <3>2
    <3>5. \A v \in views \cup {view} : IsCurrent(v)'
      BY <2>1, <2>4, <3>1, <3>3
    <3>6. IndexKnown(t)'
      BY <2>1, <2>7, <3>4, <3>5 DEF IndexKnown, IsCurrent, NewLabels, GoneLabels, PageIsSaved
    <3> QED
      BY <2>3, <2>7, <3>6, IndexMove
  <2> QED
    BY <1>11, <1>t, <2>5, <2>6, <2>7, CreateIndexContentMoves
<1>12. CASE CreateIndexClose(t)
  <2>1. PICK views : views = rq[t].views
    OBVIOUS
  <2>2. /\ UNCHANGED <<pages, contents>> /\ {view.page : view \in views} = pages
        /\ \A view \in views : IsCurrent(view)
    BY <1>12, <1>k, <2>1 DEF CreateIndexClose, At, IndexKnown, tables
  <2>3. IndexReplace(views) /\ rq'[t].pc = "idle"
    BY <1>12, <1>m, <1>w, <2>1 DEF CreateIndexClose, IndexAbandon
  <2>4. ASSUME NEW q \in PageIds PROVE DocumentsHold(q)'
    <3>1. CASE \E v \in views : v.page.id = q
      <4>1. PICK view : view = CHOOSE v \in views : v.page.id = q
        OBVIOUS
      <4>2. view \in views /\ view.page.id = q
        BY <3>1, <4>1
      <4>3. documents'[q] = <<view>>
        BY <2>3, <3>1, <4>1 DEF IndexReplace
      <4>4. view.page \in pages
        BY <2>2, <4>2
      <4>5. GetPageById(q) = {view.page}
        BY <1>t, <4>2, <4>4 DEF GetPageById, KeysInOrder
      <4>6. PICK c \in GetLatestPageContent(view.page.id) : \E pg : view = ViewOf(pg, c)
        BY <2>2, <4>2 DEF IsCurrent
      <4>7. view.text = c.text
        BY <4>6 DEF ViewOf
      <4>8. IsToIndex(view, q)
        BY <4>2, <4>5, <4>6, <4>7 DEF IsToIndex
      <4> QED
        BY <2>2, <4>3, <4>8, Indexed
    <3>2. CASE ~\E v \in views : v.page.id = q
      <4>1. documents'[q] = <<>>
        BY <2>3, <3>2 DEF IndexReplace
      <4>2. GetPageById(q)' = {}
        BY <2>2, <3>2 DEF GetPageById
      <4> QED
        BY <4>1, <4>2, NotIndexed
    <3> QED
      BY <3>1, <3>2
  <2>5. IndexKnown(t)'
    BY <2>3, IndexUnknown DEF IndexReplace, IndexLabels, NewLabels, GoneLabels, PageIsSaved
  <2> QED
    BY <2>4, <2>5, IndexMove
<1> QED
  BY <1>1, <1>2, <1>3, <1>4, <1>5, <1>6, <1>7, <1>8, <1>9, <1>10, <1>11, <1>12
  DEF WriteOn, WriteStep, DatabaseFails

LEMMA ArriveIndex ==
    ASSUME IndexWorks, TablesInv, IndexInv, Serial, NEW t \in Threads, Arrives(t)
    PROVE  IndexInv'
<1>t. TypeOK /\ KeysInOrder
  BY DEF TablesInv
<1>i. /\ rq[t].pc \in {"idle", "threw"} /\ ~In(t, IndexIsToCome)
      /\ ~In(t, {"idx:contents", "idx:close"})
  BY <1>t, ArriveIdle DEF In, IndexIsToCome, UpdateLabels, ListsHaveGone, NewLabels, GoneLabels
<1>l. ~indexLock /\ ~IndexFails
  BY <1>i, IndexOnly DEF IndexWorks, IndexFails
<1>k. \A p \in PageIds : DocumentsHold(p)
  BY <1>i, IndexOnly
<1> USE DEF In
<1>1. CASE GetByIdMiss(t) \/ HomePageMiss(t) \/ ListMiss(t) \/ CompareMiss(t)
           \/ RevertVersion(t) \/ RenameTagFind(t) \/ DeletePageLoad(t) \/ ClearCachePages(t)
  <2>1. UNCHANGED <<pages, contents>> /\ UNCHANGED index
    BY <1>1 DEF GetByIdMiss, HomePageMiss, ListMiss, CompareMiss, RevertVersion,
       RenameTagFind, DeletePageLoad, ClearCachePages, tables
  <2>2. rq'[t].pc \in {"get:page", "home:any", "home:content", "list:pages",
                       "cmp:previous", "rev:max", "tag:next", "del:latest", "cache:lists"}
    BY <1>1, <1>t, ReadArrivals, RevertVersionMoves, RenameTagFindMoves, OtherArrivals
  <2> QED
    BY <1>i, <2>1, <2>2, IndexAside DEF IndexLabels, NewLabels, GoneLabels, PageIsSaved
<1>2. CASE AddPageRow(t)
  <2>1. PICK page \in Page, text \in TypedTexts :
          /\ rq'[t].pc = "add:content" /\ rq'[t].id = nextPage
          /\ rq'[t].model = [page |-> page, text |-> text, version |-> 1]
          /\ page.id = nextPage /\ nextPage \in PageIds
          /\ pages' = pages \cup {page} /\ contents' = contents
    BY <1>2, <1>t, AddPageRowMoves
  <2>2. UNCHANGED index
    BY <1>2 DEF AddPageRow
  <2>3. PICK p : p = nextPage
    OBVIOUS
  <2>4. GetPageById(p) = {}
    BY <1>t, <2>3, RowFacts DEF GetPageById
  <2>5. documents[p] = <<>>
    <3>1. DocumentsHold(p) /\ documents[p] \in Seq(View)
      BY <1>t, <1>k, <2>1, <2>3 DEF TypeOK, IndexTypeOK
    <3> QED
      BY <2>4, <3>1, NothingIndexed
  <2>6. GetPageById(p)' = {page}
    BY <2>1, <2>3, <2>4 DEF GetPageById
  <2>7. IndexKnown(t)'
    BY <1>l, <2>1, <2>2, <2>3, <2>5, <2>6
    DEF IndexKnown, index, NewLabels, GoneLabels, PageIsSaved
  <2>8. ASSUME NEW q \in PageIds, q # p PROVE DocumentsHold(q)'
    <3>1. GetPageById(q)' = GetPageById(q) /\ GetLatestPageContent(q)' = GetLatestPageContent(q)
      BY <2>1, <2>3, <2>8 DEF GetPageById, GetLatestPageContent, FindPageContentsByPageId
    <3> QED
      BY <1>k, <2>2, <2>8, <3>1, DocumentsStay DEF index, LatestStays
  <2> QED
    BY <2>1, <2>3, <2>7, <2>8, IndexMove DEF IndexIsToCome, NewLabels
<1>3. CASE UpdateForm(t)
  <2>1. UNCHANGED <<pages, contents>> /\ UNCHANGED index
    BY <1>3 DEF UpdateForm, tables
  <2>2. rq'[t].pc = "upd:page"
    BY <1>3, <1>t, UpdateFormMoves
  <2>3. \A q \in PageIds : DocumentsHold(q)'
    BY <1>k, <2>1, RowsStay, DocumentsStay DEF index
  <2>4. PICK p : p = rq'[t].id
    OBVIOUS
  <2>5. p \in PageIds
    BY <1>3, <1>t, <2>4, UpdateFormMoves DEF TypeOK, Form, View, Page
  <2>6. DocumentsHold(p)'
    BY <2>3, <2>5
  <2>7. IndexKnown(t)'
    BY <1>l, <2>1, <2>2, <2>4, <2>6 DEF IndexKnown, DocumentsHold, index, NewLabels, GoneLabels,
       PageIsSaved
  <2> QED
    BY <2>3, <2>7, IndexMove
<1>4. CASE ClearPagesRows(t)
  <2>1. "clear" \notin Ops
    BY DEF IndexWorks, Never
  <2>2. rq'[t].pc = "threw" /\ UNCHANGED tables
    BY <1>4, <1>t, <2>1, OtherArrivals
  <2>3. UNCHANGED index
    BY <1>4 DEF ClearPagesRows
  <2> QED
    BY <1>i, <2>2, <2>3, IndexAside DEF tables, IndexLabels, NewLabels, GoneLabels, PageIsSaved
<1>5. CASE CreateIndexPages(t)
  <2>1. UNCHANGED <<pages, contents>>
    BY <1>5 DEF CreateIndexPages, tables
  <2>2. rq'[t].pc = "idx:contents" /\ rq'[t].views = {} /\ rq'[t].todo = pages /\ IndexOpen
    BY <1>5, <1>t, <1>l, OtherArrivals
  <2>3. \A q \in PageIds : DocumentsHold(q)'
    BY <1>k, <2>1, <2>2, RowsStay, DocumentsStay DEF IndexOpen
  <2>4. IndexKnown(t)'
    BY <2>1, <2>2 DEF IndexKnown, NewLabels, GoneLabels, PageIsSaved
  <2> QED
    BY <2>3, <2>4, IndexMove
<1> QED
  BY <1>1, <1>2, <1>3, <1>4, <1>5 DEF Arrives, Arrive

LEMMA NextIndex ==
    ASSUME TablesInv, ListsInv, IndexInv, Serial, ~DatabaseMayFail, [Next]_vars
    PROVE  IndexInv'
<1> SUFFICES ASSUME IndexWorks PROVE IndexInv'
  BY DEF IndexInv, IndexWorks, Never
<1>1. ASSUME NEW t \in Threads, Arrives(t) \/ GoOn(t)
      PROVE  IndexInv'
  BY <1>1, ArriveIndex, IndexReads, UpdateOnIndex, WriteOnIndex DEF GoOn
<1>2. CASE Recycle
  BY <1>2 DEF Recycle, IndexWorks, Never
<1>3. CASE UNCHANGED site
  <2>1. UNCHANGED <<pages, contents, documents, indexLock, rq>>
    BY <1>3 DEF site, tables, index
  <2>2. /\ \A q \in PageIds : DocumentsHold(q) => DocumentsHold(q)'
        /\ \A view : IsCurrent(view) => IsCurrent(view)'
    BY <2>1, RowsStay, DocumentsStay DEF IsCurrent
  <2>3. \A view, p : IsToIndex(view, p) => IsToIndex(view, p)'
    BY <2>1, RowsStay DEF IsToIndex
  <2>4. \A t : IndexKnown(t) => IndexKnown(t)'
    BY <2>1, <2>2, <2>3 DEF IndexKnown, In, There, DocumentsHold, IsToIndex, IsCurrent, GetPageById,
       GetLatestPageContent, FindPageContentsByPageId
  <2> QED
    BY <2>1, <2>2, <2>4 DEF IndexInv, In
<1> QED
  BY <1>1, <1>2, <1>3, SiteSteps DEF TablesInv

LEMMA InitIndex == Init => IndexInv
<1> SUFFICES ASSUME Init PROVE IndexInv
  OBVIOUS
<1>1. indexLock = FALSE /\ \A t \in Threads : rq[t].pc = "idle"
  BY DEF Init, IndexInit, Idle
<1>2. \A t \in Threads : IndexKnown(t)
  BY <1>1 DEF IndexKnown, In, NewLabels, GoneLabels, PageIsSaved
<1>3. ASSUME NEW p \in PageIds PROVE DocumentsHold(p)
  <2>1. /\ pages = {Seed[i].page : i \in DOMAIN Seed}
        /\ contents = {[id |-> i, pageId |-> i, version |-> 1,
                        text |-> Seed[i].text, editedOn |-> 0] : i \in DOMAIN Seed}
    BY DEF Init, TablesInit
  <2>2. \A i \in DOMAIN Seed : Seed[i].page.id = i
    BY RepositoryAssumption
  <2>3. CASE p \in DOMAIN Seed
    <3>1. PICK view : view = [page |-> Seed[p].page, text |-> Seed[p].text, version |-> 1]
      OBVIOUS
    <3>2. documents[p] = <<view>>
      BY <2>3, <3>1 DEF Init, IndexInit
    <3>3. GetPageById(p) = {view.page}
      BY <2>1, <2>2, <2>3, <3>1 DEF GetPageById
    <3>4. PICK c : c = [id |-> p, pageId |-> p, version |-> 1,
                        text |-> Seed[p].text, editedOn |-> 0]
      OBVIOUS
    <3>5. c \in contents /\ c.text = view.text /\ \A d \in contents : d.editedOn = 0
      BY <2>1, <2>3, <3>1, <3>4
    <3>6. c \in GetLatestPageContent(p)
      BY <3>4, <3>5 DEF GetLatestPageContent, FindPageContentsByPageId
    <3>7. DOMAIN documents[p] = {1} /\ documents[p][1] = view /\ Len(documents[p]) = 1
      BY <3>2
    <3>8. {documents[p][i].page : i \in DOMAIN documents[p]} = {view.page}
      BY <3>7
    <3> QED
      BY <3>3, <3>5, <3>6, <3>7, <3>8 DEF DocumentsHold
  <2>4. CASE p \notin DOMAIN Seed
    <3>1. documents[p] = <<>>
      BY <2>4 DEF Init, IndexInit
    <3>2. GetPageById(p) = {}
      BY <2>1, <2>2, <2>4 DEF GetPageById
    <3>3. DOMAIN documents[p] = {} /\ Len(documents[p]) = 0
      BY <3>1
    <3>4. {documents[p][i].page : i \in DOMAIN documents[p]} = {}
      BY <3>3
    <3> QED
      BY <3>2, <3>3, <3>4 DEF DocumentsHold
  <2> QED
    BY <2>3, <2>4
<1> QED
  BY <1>2, <1>3 DEF IndexInv

(* A page has the one document it should have, or it is the page of the    *)
(* only request, which has taken the document out, or is about to, and     *)
(* will put the right one back (IndexIsToCome, IsToIndex).                 *)
THEOREM IndexInvariant == Spec => [](Serial /\ ~DatabaseMayFail => IndexInv)
<1>1. Init => (Serial /\ ~DatabaseMayFail => IndexInv)
  BY InitIndex
<1>2. /\ Serial => TablesInv
      /\ Serial /\ ~DatabaseMayFail => ListsInv
      /\ Serial /\ ~DatabaseMayFail => IndexInv
      /\ [Next]_vars
      => (Serial /\ ~DatabaseMayFail => IndexInv)'
  BY NextIndex DEF Serial
<1> QED
  BY <1>1, <1>2, TablesInvariant, ListsInvariant, PTL DEF Spec

(* Between two requests, with one request at a time, a search engine and a *)
(* database that work, no ClearPages and no restart, the index has exactly *)
(* one document for each page and none for any other, with the page as it  *)
(* is stored and, where nothing is reverted, the wording of its latest     *)
(* version.                                                                *)
THEOREM IndexStaysTrue == Spec => []IndexNamesEachPageOnce
<1>1. (Serial /\ ~DatabaseMayFail => IndexInv) => IndexNamesEachPageOnce
  <2> SUFFICES ASSUME Serial, Quiet, IndexInv, IndexWorks, NEW p \in PageIds
               PROVE  DocumentsHold(p)
    BY DEF IndexNamesEachPageOnce, DocumentsHold, IndexWorks
  <2> QED
    BY DEF IndexInv, In, Quiet, Between, IndexIsToCome, UpdateLabels, ListsHaveGone,
       NewLabels, GoneLabels
<1> QED
  BY <1>1, IndexInvariant, PTL

-----------------------------------------------------------------------------
(* Links. *)

LEMMA LinksMove ==
    ASSUME Serial, NEW t \in Threads, LinksKnown(t)',
           \A c \in contents' : c.text.links \subseteq PageTitles' \/ In(t, LinksAreToChange)',
           \A e \in listCache' : \A view \in e.views :
              ViewLinksHold(view)' \/ In(t, {"upd:cache", "upd:home", "upd:lists"})'
    PROVE  LinksInv'
BY TheThread DEF LinksInv

LEMMA LinksOnly ==
    ASSUME NoNewLinks, LinksInv, Serial, NEW t \in Threads
    PROVE  /\ LinksKnown(t)
           /\ ~In(t, LinksAreToChange) =>
                \A c \in contents : c.text.links \subseteq PageTitles
           /\ ~In(t, {"upd:cache", "upd:home", "upd:lists"}) =>
                \A e \in listCache : \A view \in e.views : ViewLinksHold(view)
BY TheThread DEF LinksInv

(* The titles depend on the pages alone. *)
LEMMA TitlesStay ==
    ASSUME pages' = pages
    PROVE  /\ PageTitles' = PageTitles
           /\ \A page : TitleHolds(page)' <=> TitleHolds(page)
           /\ \A view : ViewLinksHold(view)' <=> ViewLinksHold(view)
<1>1. PageTitles' = PageTitles
  BY DEF PageTitles
<1>2. \A page : TitleHolds(page)' <=> TitleHolds(page)
  BY DEF TitleHolds
<1> QED
  BY <1>1, <1>2 DEF ViewLinksHold

LEMMA TitleOfPageHolds ==
    ASSUME KeysInOrder, NEW pg \in pages
    PROVE  TitleHolds(pg)
BY DEF KeysInOrder, TitleHolds

(* Where something is known of the links. *)
LinksLabels ==
    {"add:content", "rev:max", "rev:time", "rev:insert", "list:contents", "list:cache",
     "tag:next"} \cup UpdateLabels

LEMMA LinksUnknown ==
    ASSUME NEW t, ~In(t, LinksLabels)'
    PROVE  LinksKnown(t)'
BY DEF LinksKnown, LinksLabels, UpdateLabels, ListsHaveGone, TitleIsToChange,
       LinksAreToChange, In

(* Nothing happens to the links. *)
LEMMA LinksStay ==
    ASSUME NoNewLinks, LinksInv, Serial, NEW t \in Threads, pages' = pages,
           listCache' \subseteq listCache, ~In(t, LinksAreToChange), LinksKnown(t)',
           \A d \in contents' : d \in contents \/ d.text.links \subseteq PageTitles
    PROVE  LinksInv'
<1>1. ~In(t, {"upd:cache", "upd:home", "upd:lists"})
  BY DEF In, LinksAreToChange
<1>2. \A e \in listCache' : \A view \in e.views : ViewLinksHold(view)'
  BY <1>1, LinksOnly, TitlesStay
<1>3. \A c \in contents' : c.text.links \subseteq PageTitles'
  BY LinksOnly, TitlesStay
<1> QED
  BY <1>2, <1>3, LinksMove

LEMMA LinksAside ==
    ASSUME NoNewLinks, LinksInv, Serial, NEW t \in Threads, UNCHANGED <<pages, contents>>,
           listCache' \subseteq listCache, ~In(t, LinksAreToChange), ~In(t, LinksLabels)'
    PROVE  LinksInv'
BY LinksUnknown, LinksStay

(* UpdatePage has put the links right. *)
LinksAreRight ==
    {"upd:clearpages", "upd:clearlists", "upd:latest", "upd:unindex", "upd:index"}

LEMMA LinksPutRight ==
    ASSUME NoNewLinks, LinksInv, Serial, NEW t \in Threads, pages' = pages,
           listCache' \subseteq listCache, In(t, UpdateLabels),
           ~In(t, {"upd:cache", "upd:home", "upd:lists"}),
           \A c \in contents' : c.text.links \subseteq PageTitles,
           In(t, LinksAreRight)', rq'[t].model = rq[t].model, rq'[t].prev = rq[t].prev,
           rq'[t].views = rq[t].views, rq'[t].todo = rq[t].todo
    PROVE  LinksInv'
<1>1. \A c \in contents' : c.text.links \subseteq PageTitles'
  BY TitlesStay
<1>2. \A e \in listCache' : \A view \in e.views : ViewLinksHold(view)'
  BY LinksOnly, TitlesStay
<1>3. LinksKnown(t)
  BY LinksOnly
<1>4. /\ \A view \in rq[t].views : ViewLinksHold(view)'
      /\ \A pg \in rq[t].todo : TitleHolds(pg)'
      /\ rq[t].model.page.title = rq[t].prev \/ (rq[t].views = {} /\ rq[t].todo = {})
  BY <1>3, TitlesStay DEF LinksKnown, In
<1>5. LinksKnown(t)'
  BY <1>4 DEF LinksKnown, In, LinksAreRight, TitleIsToChange, LinksAreToChange,
     ViewLinksHold, TitleHolds, PageTitles
<1> QED
  BY <1>1, <1>2, <1>5, LinksMove

(* UpdatePage has saved the title and has yet to write the links. *)
LEMMA LinksChanging ==
    ASSUME NoNewLinks, LinksInv, Serial, NEW t \in Threads, pages' = pages,
           In(t, LinksAreToChange), In(t, LinksAreToChange)',
           \A c \in contents' : c.text.links \subseteq PageTitles \cup {rq[t].prev},
           rq'[t].model = rq[t].model, rq'[t].prev = rq[t].prev,
           rq'[t].views = rq[t].views, rq'[t].todo = rq[t].todo,
           listCache' = {} \/ In(t, {"upd:cache", "upd:home", "upd:lists"})',
           In(t, {"upd:rewrite"})' =>
             /\ \A c \in rq'[t].rows : c.text.links \subseteq PageTitles \cup {rq[t].prev}
             /\ \A c \in contents' : rq[t].prev \in c.text.links =>
                   rq[t].prev \in PageTitles \/ \E d \in rq'[t].rows : d.id = c.id
    PROVE  LinksInv'
<1>1. LinksKnown(t) /\ In(t, UpdateLabels)
  BY LinksOnly DEF In, LinksAreToChange, UpdateLabels, ListsHaveGone
<1>2. /\ \A view \in rq[t].views : ViewLinksHold(view)'
      /\ \A pg \in rq[t].todo : TitleHolds(pg)'
      /\ rq[t].model.page.title = rq[t].prev \/ (rq[t].views = {} /\ rq[t].todo = {})
      /\ rq[t].model.page.title \in PageTitles
      /\ rq[t].model.text.links \subseteq PageTitles \cup {rq[t].prev}
  BY <1>1, TitlesStay DEF LinksKnown, In
<1>3. PageTitles' = PageTitles
  BY TitlesStay
<1>4. LinksKnown(t)'
  <2>1. /\ ~In(t, TitleIsToChange)'
        /\ ~In(t, {"add:content", "rev:max", "rev:time", "rev:insert", "upd:save"})'
    BY DEF In, TitleIsToChange, LinksAreToChange
  <2>2. /\ \A view \in rq'[t].views : ViewLinksHold(view)'
        /\ \A pg \in rq'[t].todo : TitleHolds(pg)'
        /\ rq'[t].model.page.title = rq'[t].prev \/ (rq'[t].views = {} /\ rq'[t].todo = {})
        /\ rq'[t].model.page.title \in PageTitles'
        /\ rq'[t].model.text.links \subseteq PageTitles' \cup {rq'[t].prev}
        /\ \A c \in contents' : c.text.links \subseteq PageTitles' \cup {rq'[t].prev}
    BY <1>2, <1>3
  <2>3. In(t, {"upd:rewrite"})' =>
          /\ \A c \in rq'[t].rows : c.text.links \subseteq PageTitles' \cup {rq'[t].prev}
          /\ \A c \in contents' : rq'[t].prev \in c.text.links =>
                rq'[t].prev \in PageTitles' \/ \E d \in rq'[t].rows : d.id = c.id
    BY <1>3
  <2> QED
    BY <2>1, <2>2, <2>3 DEF LinksKnown, In, TitleIsToChange, ViewLinksHold, TitleHolds,
       PageTitles
<1> QED
  BY <1>4, LinksMove

LEMMA ReadOnLinks ==
    ASSUME NoNewLinks, TablesInv, ListsInv, LinksInv, Serial, NEW t \in Threads, ReadOn(t)
    PROVE  LinksInv'
<1>t. TypeOK /\ KeysInOrder
  BY DEF TablesInv
<1>p. /\ Passes(t, ReadLabels, ReadLabels \cup {"idle", "threw", "tag:next"})
      /\ UNCHANGED tables
  BY <1>t, ReadOnPasses
<1>u. UNCHANGED <<pages, contents>> /\ ~In(t, LinksAreToChange)
  BY <1>p DEF tables, Passes, In, ReadLabels, LinksAreToChange
<1>k. /\ LinksKnown(t) /\ ListsKnown(t)
      /\ \A c \in contents : c.text.links \subseteq PageTitles
  BY <1>u, LinksOnly, ListsOnly
<1>v. \A e \in listCache : \A view \in e.views : ViewLinksHold(view)
  BY <1>u, LinksOnly DEF In, LinksAreToChange
<1>s. /\ PageTitles' = PageTitles
      /\ \A page : TitleHolds(page)' <=> TitleHolds(page)
      /\ \A view : ViewLinksHold(view)' <=> ViewLinksHold(view)
  BY <1>u, TitlesStay
<1>m. /\ \A label : Goto(t, label) => rq'[t].pc = label /\ Stays(t)
      /\ Return(t) => rq'[t].pc = "idle"
  BY <1>t, Moved
<1> USE DEF In
(* What is built of a list. *)
<1>l. ASSUME rq'[t].pc \in {"list:contents", "list:cache", "tag:next"},
             \A view \in rq'[t].views : ViewLinksHold(view),
             \A pg \in rq'[t].todo : TitleHolds(pg)
      PROVE  LinksKnown(t)'
  <2>1. /\ \A view \in rq'[t].views : ViewLinksHold(view)'
        /\ \A pg \in rq'[t].todo : TitleHolds(pg)'
    BY <1>s, <1>l
  <2> QED
    BY <1>l, <2>1 DEF LinksKnown, UpdateLabels, ListsHaveGone, TitleIsToChange,
       LinksAreToChange, ViewLinksHold, TitleHolds, PageTitles
<1>1. CASE ListPages(t)
  <2>1. listCache' = listCache /\ rq[t].views = {} /\ rq[t].todo = {}
    BY <1>1, <1>k DEF ListPages, At, ListsKnown, caches
  <2>2. \A pg \in pages : TitleHolds(pg)
    BY <1>t, TitleOfPageHolds
  <2>3. CASE /\ rq'[t].pc = "list:contents"
             /\ rq'[t].todo = ListedPages(rq[t].key) /\ rq'[t].views = rq[t].views
    <3>1. \A pg \in rq'[t].todo : TitleHolds(pg)
      BY <2>2, <2>3, ListedPagesAreThere
    <3>2. LinksKnown(t)'
      BY <1>l, <2>1, <2>3, <3>1
    <3> QED
      BY <1>u, <2>1, <3>2, LinksStay
  <2>4. CASE /\ rq'[t].pc = "list:cache" /\ rq'[t].todo = rq[t].todo
             /\ rq'[t].views = {PageOnly(pg) : pg \in pages}
    <3>1. \A pg \in pages : ViewLinksHold(PageOnly(pg))
      <4> SUFFICES ASSUME NEW pg \in pages PROVE ViewLinksHold(PageOnly(pg))
        OBVIOUS
      <4>1. PICK view : view = PageOnly(pg)
        OBVIOUS
      <4>2. view.page = pg /\ view.text.links = {}
        BY <4>1 DEF PageOnly, BlankView
      <4> QED
        BY <2>2, <4>1, <4>2 DEF ViewLinksHold
    <3>2. LinksKnown(t)'
      BY <1>l, <2>1, <2>4, <3>1
    <3> QED
      BY <1>u, <2>1, <3>2, LinksStay
  <2> QED
    BY <1>1, <1>t, <2>3, <2>4, ListPagesMoves
<1>2. CASE ListContent(t)
  <2>1. listCache' = listCache /\ rq[t].pc = "list:contents"
    BY <1>2 DEF ListContent, At, caches
  <2>2. /\ \A view \in rq[t].views : ViewLinksHold(view)
        /\ \A pg \in rq[t].todo : TitleHolds(pg)
    BY <1>k, <2>1 DEF LinksKnown
  <2>3. CASE rq'[t].pc = "threw"
    BY <1>u, <2>1, <2>3, LinksAside DEF LinksLabels, UpdateLabels, ListsHaveGone
  <2>4. CASE rq'[t].pc = "list:cache" /\ Stays(t)
    <3>1. LinksKnown(t)'
      BY <1>l, <2>2, <2>4 DEF Stays
    <3> QED
      BY <1>u, <2>1, <3>1, LinksStay
  <2>5. ASSUME NEW pg \in rq[t].todo, NEW c \in GetLatestPageContent(pg.id),
               rq'[t].pc = rq[t].pc, rq'[t].todo = rq[t].todo \ {pg},
               rq'[t].views = rq[t].views \cup {ViewOf(pg, c)}
        PROVE  LinksInv'
    <3>1. PICK view : view = ViewOf(pg, c)
      OBVIOUS
    <3>2. view.page = pg /\ view.text = c.text /\ c \in contents
      BY <3>1 DEF ViewOf, GetLatestPageContent, FindPageContentsByPageId
    <3>3. ViewLinksHold(view)
      BY <1>k, <2>2, <3>2 DEF ViewLinksHold
    <3>4. LinksKnown(t)'
      BY <1>l, <2>1, <2>2, <2>5, <3>1, <3>3
    <3> QED
      BY <1>u, <2>1, <3>4, LinksStay
  <2> QED
    BY <1>2, <1>t, <2>3, <2>4, <2>5, ListContentMoves
<1>3. CASE ListCacheAdd(t)
  <2>1. PICK key, views : key = rq[t].key /\ views = rq[t].views
    OBVIOUS
  <2>2. CacheList(key, views) /\ \A view \in views : ViewLinksHold(view)
    BY <1>3, <1>k, <2>1 DEF ListCacheAdd, At, LinksKnown
  <2>3. \A e \in listCache' : \A view \in e.views : ViewLinksHold(view)
    BY <1>v, <2>2 DEF CacheList
  <2>4. LinksKnown(t)'
    <3>1. CASE rq'[t].pc = "idle"
      BY <3>1, LinksUnknown DEF LinksLabels, UpdateLabels, ListsHaveGone
    <3>2. CASE /\ rq'[t].pc = "tag:next" /\ rq'[t].views = {}
               /\ rq'[t].todo = {v.page : v \in rq[t].views}
      <4>1. \A pg \in rq'[t].todo : TitleHolds(pg)
        BY <2>1, <2>2, <3>2 DEF ViewLinksHold
      <4> QED
        BY <1>l, <3>2, <4>1
    <3> QED
      BY <1>3, <1>t, <3>1, <3>2, ListCacheAddMoves
  <2>5. \A e \in listCache' : \A view \in e.views : ViewLinksHold(view)'
    BY <1>s, <2>3
  <2>6. \A c \in contents' : c.text.links \subseteq PageTitles'
    BY <1>k, <1>s, <1>u
  <2> QED
    BY <2>4, <2>5, <2>6, LinksMove
<1>4. CASE GetByIdPage(t) \/ GetByIdContent(t) \/ GetByIdCache(t) \/ HomePageAny(t)
           \/ HomePageContent(t) \/ HomePageCache(t) \/ ComparePrevious(t) \/ CompareCache(t)
  <2>1. listCache' = listCache
    BY <1>4 DEF GetByIdPage, GetByIdContent, GetByIdCache, HomePageAny, HomePageContent,
       HomePageCache, ComparePrevious, CompareCache, CachePage, CacheHomePage, caches
  <2>2. rq'[t].pc \in {"idle", "threw", "get:content", "get:cache", "home:content",
                       "home:cache", "cmp:cache"}
    BY <1>4, <1>t, <1>m, GetByIdPageMoves, GetByIdContentMoves, HomePageAnyMoves,
       HomePageContentMoves, ComparePreviousMoves
    DEF GetByIdCache, HomePageCache, CompareCache
  <2> QED
    BY <1>u, <2>1, <2>2, LinksAside DEF LinksLabels, UpdateLabels, ListsHaveGone
<1> QED
  BY <1>1, <1>2, <1>3, <1>4 DEF ReadOn

(* UpdatePage saves the page. *)
LEMMA SaveOnLinks ==
    ASSUME NoNewLinks, TablesInv, LinksInv, Serial, NEW t \in Threads, UpdatePageSave(t)
    PROVE  LinksInv'
<1>t. TypeOK /\ TablesKnown(t)
  BY DEF TablesInv
<1> USE DEF In
<1>p. PICK p, page, prev, title :
        p = rq[t].id /\ page = rq[t].page /\ prev = rq[t].prev /\ title = rq[t].model.page.title
  OBVIOUS
<1>1. rq[t].pc = "upd:save"
  BY DEF UpdatePageSave, At
<1>2. /\ LinksKnown(t)
      /\ \A c \in contents : c.text.links \subseteq PageTitles
      /\ \A e \in listCache : \A view \in e.views : ViewLinksHold(view)
  BY <1>1, LinksOnly DEF LinksAreToChange
<1>3. /\ \A view \in rq[t].views : ViewLinksHold(view)
      /\ \A pg \in rq[t].todo : TitleHolds(pg)
      /\ title = prev \/ (rq[t].views = {} /\ rq[t].todo = {})
      /\ \A pg \in pages : pg.id = p => pg.title = prev
      /\ rq[t].model.text.links \subseteq PageTitles
      /\ page.title = title
  BY <1>1, <1>2, <1>p DEF LinksKnown, TitleIsToChange, UpdateLabels
<1>4. rq'[t].pc = "upd:cache" /\ Stays(t)
  BY <1>t, Moved DEF UpdatePageSave
<1>5. page.id = p /\ There(p)
  BY <1>t, <1>1, <1>p DEF TablesKnown, PageIsThere
<1>6. /\ pages' = {IF q.id = p THEN page ELSE q : q \in pages}
      /\ contents' = contents /\ listCache' = listCache
  BY <1>5, <1>p DEF UpdatePageSave, SaveOrUpdatePage, caches
<1>7. title \in PageTitles' /\ PageTitles \subseteq PageTitles' \cup {prev}
  BY <1>3, <1>5, <1>6 DEF PageTitles, There
<1>8. ASSUME title = prev
      PROVE  /\ \A pg : TitleHolds(pg) => TitleHolds(pg)'
             /\ \A view : ViewLinksHold(view) => ViewLinksHold(view)'
  <2>1. \A pg : TitleHolds(pg) => TitleHolds(pg)'
    BY <1>3, <1>5, <1>6, <1>8 DEF TitleHolds, There
  <2> QED
    BY <1>7, <1>8, <2>1 DEF ViewLinksHold
<1>9. /\ \A view \in rq'[t].views : ViewLinksHold(view)'
      /\ \A pg \in rq'[t].todo : TitleHolds(pg)'
      /\ rq'[t].model.page.title = rq'[t].prev \/ (rq'[t].views = {} /\ rq'[t].todo = {})
      /\ rq'[t].model.page.title \in PageTitles'
      /\ rq'[t].model.text.links \subseteq PageTitles' \cup {rq'[t].prev}
      /\ \A c \in contents' : c.text.links \subseteq PageTitles' \cup {rq'[t].prev}
  BY <1>2, <1>3, <1>4, <1>6, <1>7, <1>8, <1>p DEF Stays
<1>10. LinksKnown(t)'
  BY <1>4, <1>9 DEF LinksKnown, TitleIsToChange, ViewLinksHold, TitleHolds, PageTitles
<1> QED
  BY <1>4, <1>10, LinksMove DEF LinksAreToChange

(* UpdateLinksToPage writes one version back. *)
LEMMA RewriteOnLinks ==
    ASSUME NoNewLinks, TablesInv, ListsInv, LinksInv, Serial, NEW t \in Threads,
           rq[t].pc = "upd:rewrite", rq'[t].pc = "upd:rewrite",
           rq'[t].model = rq[t].model, rq'[t].prev = rq[t].prev,
           rq'[t].views = rq[t].views, rq'[t].todo = rq[t].todo, listCache' = listCache,
           NEW c \in rq[t].rows, rq'[t].rows = rq[t].rows \ {c},
           UpdatePageContent([c EXCEPT !.text = ReplacePageLinks(@,
                                 rq[t].prev, rq[t].model.page.title)])
    PROVE  LinksInv'
<1>t. TypeOK
  BY DEF TablesInv
<1> USE DEF In
<1>p. PICK prev, title, linking :
        prev = rq[t].prev /\ title = rq[t].model.page.title /\ linking = rq[t].rows
  OBVIOUS
<1>1. LinksKnown(t) /\ listCache = {}
  BY LinksOnly, ListsOnly DEF ListsKnown, ListsHaveGone
<1>2. /\ title \in PageTitles
      /\ \A d \in contents : d.text.links \subseteq PageTitles \cup {prev}
      /\ \A d \in linking : d.text.links \subseteq PageTitles \cup {prev}
      /\ \A d \in contents : prev \in d.text.links =>
            prev \in PageTitles \/ \E e \in linking : e.id = d.id
  BY <1>1, <1>p DEF LinksKnown, LinksAreToChange
<1>3. PICK row : row = [c EXCEPT !.text = ReplacePageLinks(@, prev, title)]
  OBVIOUS
<1>4. c \in PageContent
  BY <1>t, Moved DEF Request
<1>5. row.id = c.id /\ row.text.links = (c.text.links \ {prev}) \cup {title}
  BY <1>3, <1>4 DEF PageContent, Text, ReplacePageLinks
<1>6. /\ contents' = {IF d.id = c.id THEN row ELSE d : d \in contents}
      /\ pages' = pages
  BY <1>3, <1>5, <1>p DEF UpdatePageContent
<1>7. \A d \in contents' : d.text.links \subseteq PageTitles \cup {prev}
  BY <1>2, <1>5, <1>6, <1>p
<1>8. \A d \in rq'[t].rows : d.text.links \subseteq PageTitles \cup {prev}
  BY <1>2, <1>p
<1>9. ASSUME NEW d \in contents', prev \in d.text.links
      PROVE  prev \in PageTitles \/ \E e \in rq'[t].rows : e.id = d.id
  <2>1. CASE d = row
    BY <1>2, <1>5, <1>9, <2>1
  <2>2. CASE d \in contents /\ d.id # c.id
    BY <1>2, <1>9, <1>p, <2>2
  <2> QED
    BY <1>6, <2>1, <2>2
<1> QED
  BY <1>1, <1>6, <1>7, <1>8, <1>9, <1>p, LinksChanging DEF LinksAreToChange

LEMMA UpdateOnLinks ==
    ASSUME NoNewLinks, TablesInv, ListsInv, LinksInv, Serial, ~DatabaseMayFail,
           NEW t \in Threads, UpdateOn(t)
    PROVE  LinksInv'
<1>t. TypeOK /\ KeysInOrder /\ TablesKnown(t)
  BY DEF TablesInv
<1>k. LinksKnown(t) /\ ListsKnown(t)
  BY LinksOnly, ListsOnly
<1>c. ~In(t, LinksAreToChange) => \A c \in contents : c.text.links \subseteq PageTitles
  BY LinksOnly
<1>m. /\ \A label : Goto(t, label) => rq'[t].pc = label /\ Stays(t)
      /\ Return(t) => rq'[t].pc = "idle"
      /\ Throw(t) => rq'[t].pc = "threw"
  BY <1>t, Moved
<1>s. pages' = pages =>
        /\ PageTitles' = PageTitles
        /\ \A page : TitleHolds(page)' <=> TitleHolds(page)
        /\ \A view : ViewLinksHold(view)' <=> ViewLinksHold(view)
  BY TitlesStay
<1> USE DEF In
<1>p. PICK p, prev, title, links :
        /\ p = rq[t].id /\ prev = rq[t].prev /\ title = rq[t].model.page.title
        /\ links = rq[t].model.text.links
  OBVIOUS
<1>h. In(t, UpdateLabels) =>
        /\ \A view \in rq[t].views : ViewLinksHold(view)
        /\ \A pg \in rq[t].todo : TitleHolds(pg)
        /\ title = prev \/ (rq[t].views = {} /\ rq[t].todo = {})
  BY <1>k, <1>p DEF LinksKnown
<1>a. In(t, LinksAreToChange) =>
        /\ title \in PageTitles /\ links \subseteq PageTitles \cup {prev}
        /\ \A c \in contents : c.text.links \subseteq PageTitles \cup {prev}
  BY <1>k, <1>p DEF LinksKnown
<1>1. CASE UpdatePageLoad(t)
  <2>1. rq[t].pc = "upd:page" /\ UNCHANGED <<pages, contents, listCache>>
    BY <1>1 DEF UpdatePageLoad, At, tables, caches
  <2>2. CASE rq'[t].pc = "threw"
    BY <2>1, <2>2, LinksAside DEF LinksLabels, UpdateLabels, ListsHaveGone, LinksAreToChange
  <2> SUFFICES ASSUME rq'[t].pc # "threw" PROVE LinksInv'
    BY <2>2
  <2>3. /\ rq'[t].pc = "upd:save" /\ rq'[t].id = p /\ rq'[t].model = rq[t].model
        /\ rq'[t].prev = prev /\ rq'[t].views = rq[t].views /\ rq'[t].todo = rq[t].todo
        /\ rq'[t].page.title = title
    BY <1>1, <1>t, <1>p, UpdatePageLoadMoves
  <2>4. /\ \A pg \in pages : pg.id = p => pg.title = prev
        /\ links \subseteq PageTitles
    BY <1>k, <1>p, <2>1 DEF LinksKnown, TitleIsToChange
  <2>5. /\ \A view \in rq'[t].views : ViewLinksHold(view)'
        /\ \A pg \in rq'[t].todo : TitleHolds(pg)'
        /\ rq'[t].model.page.title = rq'[t].prev \/ (rq'[t].views = {} /\ rq'[t].todo = {})
        /\ \A pg \in pages' : pg.id = rq'[t].id => pg.title = rq'[t].prev
        /\ rq'[t].model.text.links \subseteq PageTitles'
        /\ rq'[t].page.title = rq'[t].model.page.title
    BY <1>h, <1>p, <1>s, <2>1, <2>3, <2>4 DEF UpdateLabels
  <2>6. LinksKnown(t)'
    BY <2>3, <2>5 DEF LinksKnown, LinksAreToChange, ViewLinksHold, TitleHolds, PageTitles
  <2> QED
    BY <2>1, <2>6, LinksStay DEF LinksAreToChange
<1>2. CASE UpdatePageSave(t)
  BY <1>2, SaveOnLinks
<1>3. CASE UpdatePageUncache(t) \/ UpdatePageUncacheHome(t) \/ UpdatePageUncacheLists(t)
           \/ UpdatePageMaxVersion(t) \/ UpdatePageTakeTime(t)
  <2>1. UNCHANGED <<pages, contents>>
    BY <1>3, <1>t, UpdatePageTakeTimeMoves DEF rows, UpdatePageUncache, UpdatePageUncacheHome, UpdatePageUncacheLists,
       UpdatePageMaxVersion, tables
  <2>2. rq[t].pc \in {"upd:cache", "upd:home", "upd:lists", "upd:max", "upd:time"}
    BY <1>3, <1>t, UpdatePageTakeTimeMoves DEF UpdatePageUncache, UpdatePageUncacheHome, UpdatePageUncacheLists,
       UpdatePageMaxVersion, At
  <2>3. GetLatestPageContent(p) # {}
    <3>1. There(p) /\ ~In(t, WorkLabels) /\ Undisturbed
      BY <1>t, <1>p, <2>2 DEF TablesKnown, PageIsThere, WorkLabels, NoNewLinks, Undisturbed,
         Never
    <3> QED
      BY <3>1, PageHasLatest DEF HasLatest
  <2>4. /\ rq'[t].model = rq[t].model /\ rq'[t].prev = rq[t].prev
        /\ rq'[t].views = rq[t].views /\ rq'[t].todo = rq[t].todo
        /\ \/ rq'[t].pc \in {"upd:home", "upd:lists"}
           \/ rq'[t].pc \in {"upd:max", "upd:time", "upd:insert"} /\ listCache' = {}
    <3>1. CASE UpdatePageMaxVersion(t)
      <4>1. rq[t].pc = "upd:max" /\ listCache' = listCache
        BY <3>1 DEF UpdatePageMaxVersion, At, caches
      <4>2. listCache' = {}
        BY <1>k, <4>1 DEF ListsKnown, ListsHaveGone
      <4> QED
        BY <1>t, <1>p, <2>3, <3>1, <4>2, UpdatePageMaxVersionMoves
    <3>2. CASE UpdatePageTakeTime(t)
      <4>1. rq[t].pc = "upd:time" /\ rq'[t].pc = "upd:insert" /\ listCache' = listCache
        BY <1>t, <3>2, UpdatePageTakeTimeMoves DEF caches
      <4>2. listCache' = {}
        BY <1>k, <4>1 DEF ListsKnown, ListsHaveGone
      <4> QED
        BY <1>t, <3>2, <4>1, <4>2, UpdatePageTakeTimeMoves DEF Stays
    <3>3. CASE UpdatePageUncache(t) \/ UpdatePageUncacheHome(t) \/ UpdatePageUncacheLists(t)
      BY <1>m, <3>3 DEF UpdatePageUncache, UpdatePageUncacheHome,
         UpdatePageUncacheLists, UncacheAllLists, Stays
    <3> QED
      BY <1>3, <3>1, <3>2, <3>3
  <2> QED
    BY <1>a, <1>p, <2>1, <2>2, <2>4, LinksChanging DEF LinksAreToChange
<1>4. CASE UpdatePageInsert(t)
  <2>1. rq[t].pc = "upd:insert" /\ There(p) /\ listCache' = listCache /\ rq[t].on = clock
    BY <1>t, <1>4, <1>p DEF UpdatePageInsert, At, TablesKnown, PageIsThere, caches
  <2>2. listCache' = {}
    BY <1>k, <2>1 DEF ListsKnown, ListsHaveGone
  <2>3. PICK text : text = rq[t].model.text
    OBVIOUS
  <2>4. /\ AddNewPageContentVersion(p, rq[t].ver, text, clock)
        /\ rq'[t].pc = IF prev = title THEN "upd:latest" ELSE "upd:links"
        /\ rq'[t].model = rq[t].model /\ rq'[t].prev = rq[t].prev
        /\ rq'[t].views = rq[t].views /\ rq'[t].todo = rq[t].todo
    BY <1>4, <1>m, <1>p, <2>1, <2>3 DEF UpdatePageInsert, MayReference, GetPageById, There,
       Stays
  <2>5. PICK v : InsertContent(p, v, text, clock)
    BY <2>4 DEF AddNewPageContentVersion
  <2>6. PICK row : /\ row.text = text /\ contents' = contents \cup {row} /\ pages' = pages
    BY <1>t, <2>5, NewRowNow
  <2>7. \A c \in contents' : c.text.links \subseteq PageTitles \cup {prev}
    BY <1>a, <1>p, <2>1, <2>3, <2>6 DEF LinksAreToChange
  <2>8. CASE prev = title
    <3>1. prev \in PageTitles
      BY <1>a, <2>1, <2>8 DEF LinksAreToChange
    <3>2. \A c \in contents' : c.text.links \subseteq PageTitles
      BY <2>7, <3>1
    <3> QED
      BY <2>1, <2>4, <2>6, <2>8, <3>2, LinksPutRight
      DEF UpdateLabels, ListsHaveGone, LinksAreRight
  <2>9. CASE prev # title
    BY <1>p, <2>1, <2>2, <2>4, <2>6, <2>7, <2>9, LinksChanging DEF LinksAreToChange
  <2> QED
    BY <2>8, <2>9
<1>5. CASE UpdateLinksRead(t)
  <2>1. /\ rq[t].pc = "upd:links" /\ UNCHANGED <<pages, contents>> /\ listCache' = listCache
    BY <1>5 DEF UpdateLinksRead, At, tables, caches
  <2>2. listCache' = {}
    BY <1>k, <2>1 DEF ListsKnown, ListsHaveGone
  <2>3. /\ rq'[t].model = rq[t].model /\ rq'[t].prev = rq[t].prev
        /\ rq'[t].views = rq[t].views /\ rq'[t].todo = rq[t].todo
        /\ rq'[t].rows = {c \in contents : prev \in c.text.links}
        /\ \/ rq'[t].pc = "upd:latest" /\ rq'[t].rows = {}
           \/ rq'[t].pc = "upd:rewrite"
    BY <1>5, <1>t, <1>p, UpdateLinksReadMoves
  <2>4. \A c \in contents : c.text.links \subseteq PageTitles \cup {prev}
    BY <1>a, <2>1 DEF LinksAreToChange
  <2>5. CASE rq'[t].pc = "upd:latest" /\ rq'[t].rows = {}
    <3>1. \A c \in contents : c.text.links \subseteq PageTitles
      BY <2>3, <2>4, <2>5
    <3> QED
      BY <2>1, <2>3, <2>5, <3>1, LinksPutRight DEF UpdateLabels, ListsHaveGone, LinksAreRight
  <2>6. CASE rq'[t].pc = "upd:rewrite"
    <3>1. /\ \A c \in rq'[t].rows : c.text.links \subseteq PageTitles \cup {prev}
          /\ \A c \in contents' : prev \in c.text.links =>
                prev \in PageTitles \/ \E d \in rq'[t].rows : d.id = c.id
      BY <2>1, <2>3, <2>4
    <3> QED
      BY <1>p, <2>1, <2>2, <2>3, <2>4, <2>6, <3>1, LinksChanging DEF LinksAreToChange
  <2> QED
    BY <2>3, <2>5, <2>6
<1>6. CASE UpdateLinksRewrite(t)
  <2>1. rq[t].pc = "upd:rewrite" /\ listCache' = listCache
    BY <1>6 DEF UpdateLinksRewrite, At, caches
  <2>2. CASE rq[t].rows = {} /\ rq'[t].pc = "upd:clearpages" /\ Stays(t) /\ UNCHANGED tables
    <3>1. \A c \in contents : prev \in c.text.links => prev \in PageTitles
      BY <1>k, <1>p, <2>1, <2>2 DEF LinksKnown
    <3>2. \A c \in contents : c.text.links \subseteq PageTitles
      BY <1>a, <2>1, <3>1 DEF LinksAreToChange
    <3>3. UNCHANGED <<pages, contents>>
      BY <2>2 DEF tables
    <3> QED
      BY <2>1, <2>2, <3>2, <3>3, LinksPutRight
      DEF UpdateLabels, ListsHaveGone, LinksAreRight, Stays
  <2> QED
    BY <1>6, <1>t, <2>1, <2>2, UpdateLinksRewriteMoves, RewriteOnLinks
<1>7. CASE UpdateLinksClearPages(t) \/ UpdateLinksClearLists(t) \/ UpdatePageReread(t)
           \/ UpdatePageUnindex(t)
  <2>1. UNCHANGED <<pages, contents>> /\ listCache' \subseteq listCache
    BY <1>7 DEF UpdateLinksClearPages, UpdateLinksClearLists, UpdatePageReread,
       UpdatePageUnindex, UncacheAllPages, UncacheAllLists, tables, caches
  <2>2. rq[t].pc \in LinksAreRight /\ ~In(t, LinksAreToChange) /\ In(t, UpdateLabels)
    BY <1>7 DEF UpdateLinksClearPages, UpdateLinksClearLists, UpdatePageReread,
       UpdatePageUnindex, At, LinksAreRight, LinksAreToChange, UpdateLabels, ListsHaveGone
  <2>3. \/ rq'[t].pc = "threw"
        \/ /\ rq'[t].pc \in LinksAreRight
           /\ rq'[t].model = rq[t].model /\ rq'[t].prev = rq[t].prev
           /\ rq'[t].views = rq[t].views /\ rq'[t].todo = rq[t].todo
    <3>1. CASE UpdatePageReread(t)
      BY <1>t, <3>1, UpdatePageRereadMoves DEF LinksAreRight
    <3>2. CASE ~UpdatePageReread(t)
      BY <1>7, <1>m, <3>2 DEF UpdateLinksClearPages, UpdateLinksClearLists,
         UpdatePageUnindex, Stays, LinksAreRight
    <3> QED
      BY <3>1, <3>2
  <2>4. CASE rq'[t].pc = "threw"
    BY <2>1, <2>2, <2>4, LinksAside DEF LinksLabels, UpdateLabels, ListsHaveGone
  <2>5. CASE rq'[t].pc \in LinksAreRight
    <3>1. rq'[t].pc # "threw" /\ rq[t].pc \notin {"upd:cache", "upd:home", "upd:lists"}
      BY <2>2, <2>5 DEF LinksAreRight
    <3> QED
      BY <1>c, <2>1, <2>2, <2>3, <3>1, LinksPutRight
  <2> QED
    BY <2>3, <2>4, <2>5
<1>8. CASE UpdatePageIndex(t)
  <2>1. rq[t].pc = "upd:index" /\ UNCHANGED <<pages, contents, listCache>>
    BY <1>8 DEF UpdatePageIndex, At, tables, caches
  <2>2. CASE rq'[t].pc \in {"idle", "threw"}
    BY <2>1, <2>2, LinksAside DEF LinksLabels, UpdateLabels, ListsHaveGone, LinksAreToChange
  <2>3. CASE rq'[t].pc = "tag:next" /\ Stays(t)
    <3>1. /\ \A view \in rq'[t].views : ViewLinksHold(view)'
          /\ \A pg \in rq'[t].todo : TitleHolds(pg)'
      BY <1>h, <1>s, <2>1, <2>3 DEF UpdateLabels, ListsHaveGone, Stays
    <3>2. LinksKnown(t)'
      BY <2>3, <3>1 DEF LinksKnown, UpdateLabels, ListsHaveGone, TitleIsToChange,
         LinksAreToChange, ViewLinksHold, TitleHolds, PageTitles
    <3> QED
      BY <2>1, <3>2, LinksStay DEF LinksAreToChange
  <2> QED
    BY <1>8, <1>m, <2>2, <2>3 DEF UpdatePageIndex
<1> QED
  BY <1>1, <1>2, <1>3, <1>4, <1>5, <1>6, <1>7, <1>8 DEF UpdateOn

LEMMA WriteOnLinks ==
    ASSUME NoNewLinks, TablesInv, LinksInv, Serial, ~DatabaseMayFail,
           NEW t \in Threads, WriteOn(t)
    PROVE  LinksInv'
<1>t. TypeOK /\ KeysInOrder /\ TablesKnown(t)
  BY DEF TablesInv
<1> USE DEF In
<1>l. rq[t].pc \notin LinksAreToChange
  BY DEF WriteOn, WriteStep, DatabaseFails, AddPageContent, AddPageClearLists, AddPageClearPages,
     AddPageIndex, RevertMaxVersion, RevertTakeTime, RevertInsert, RevertCache, RenameTagNext, RenameTagUnindex,
     RenameTagUncache, DeletePageLatest, DeletePageUnindex, DeletePageChildren,
     DeletePageContents, DeletePageRow, DeletePageClearLists, DeletePageClearPages,
     ClearPagesContents, ClearPagesLists, ClearPagesPages, ClearCacheLists,
     CreateIndexContent, CreateIndexClose, At, LinksAreToChange
<1>k. /\ LinksKnown(t)
      /\ \A c \in contents : c.text.links \subseteq PageTitles
  BY <1>l, LinksOnly
<1>v. \A e \in listCache : \A view \in e.views : ViewLinksHold(view)
  BY <1>l, LinksOnly DEF LinksAreToChange
<1>m. /\ \A label : Goto(t, label) => rq'[t].pc = label /\ Stays(t)
      /\ Return(t) => rq'[t].pc = "idle"
      /\ Throw(t) => rq'[t].pc = "threw"
  BY <1>t, Moved
<1>s. pages' = pages =>
        /\ PageTitles' = PageTitles
        /\ \A page : TitleHolds(page)' <=> TitleHolds(page)
        /\ \A view : ViewLinksHold(view)' <=> ViewLinksHold(view)
  BY TitlesStay
<1>1. CASE AddPageContent(t)
  <2>1. PICK p, text : p = rq[t].id /\ text = rq[t].model.text
    OBVIOUS
  <2>2. There(p) /\ text.links = {} /\ rq[t].on = clock
    BY <1>t, <1>k, <1>1, <2>1 DEF AddPageContent, At, TablesKnown, PageIsThere, LinksKnown
  <2>3. InsertContent(p, 1, text, clock) /\ rq'[t].pc = "add:lists" /\ listCache' = listCache
    BY <1>1, <1>m, <2>1, <2>2 DEF AddPageContent, MayReference, GetPageById, There, caches
  <2>4. PICK row : row.text = text /\ contents' = contents \cup {row} /\ pages' = pages
    BY <1>t, <2>3, NewRowNow
  <2>5. LinksKnown(t)'
    BY <2>3, LinksUnknown DEF LinksLabels, UpdateLabels, ListsHaveGone
  <2> QED
    BY <1>l, <2>2, <2>3, <2>4, <2>5, LinksStay
<1>2. CASE AddPageClearLists(t) \/ AddPageClearPages(t) \/ AddPageIndex(t)
           \/ RevertCache(t) \/ RenameTagUncache(t) \/ ClearCacheLists(t)
           \/ CreateIndexContent(t) \/ CreateIndexClose(t)
  <2>1. UNCHANGED <<pages, contents>> /\ listCache' \subseteq listCache
    BY <1>2 DEF AddPageClearLists, AddPageClearPages, AddPageIndex, RevertCache,
       RenameTagUncache, ClearCacheLists, CreateIndexContent, CreateIndexClose,
       UncacheAllPages, UncacheAllLists, UncachePage, UncacheList, tables, caches
  <2>2. rq'[t].pc \in {"add:pages", "add:index", "idx:contents", "idx:close", "idle", "threw"}
    BY <1>2, <1>t, <1>m, CreateIndexContentMoves
    DEF AddPageClearLists, AddPageClearPages, AddPageIndex, RevertCache, RenameTagUncache,
       ClearCacheLists, CreateIndexContent, CreateIndexClose, At
  <2> QED
    BY <1>l, <2>1, <2>2, LinksAside DEF LinksLabels, UpdateLabels, ListsHaveGone
<1>3. CASE RevertMaxVersion(t) \/ RevertTakeTime(t)
  <2>1. /\ rq[t].pc \in {"rev:max", "rev:time"}
        /\ UNCHANGED <<pages, contents>> /\ listCache' = listCache
    BY <1>3, <1>t, RevertTakeTimeMoves DEF RevertMaxVersion, At, tables, rows, caches
  <2>2. rq[t].view.text.links \subseteq PageTitles
    BY <1>k, <2>1 DEF LinksKnown
  <2>3. \/ rq'[t].pc = "threw"
        \/ rq'[t].pc \in {"rev:time", "rev:insert"} /\ rq'[t].view = rq[t].view
    BY <1>3, <1>t, RevertMaxVersionMoves, RevertTakeTimeMoves DEF Stays
  <2>4. rq'[t].pc # "threw" => rq'[t].view.text.links \subseteq PageTitles'
    BY <1>s, <2>1, <2>2, <2>3
  <2>5. LinksKnown(t)'
    BY <2>3, <2>4 DEF LinksKnown, UpdateLabels, ListsHaveGone, TitleIsToChange,
       LinksAreToChange, PageTitles
  <2> QED
    BY <1>k, <1>l, <2>1, <2>5, LinksStay
<1>4. CASE RevertInsert(t)
  <2>1. PICK p, text : p = rq[t].id /\ text = rq[t].view.text
    OBVIOUS
  <2>2. There(p) /\ text.links \subseteq PageTitles /\ rq[t].on = clock
    BY <1>t, <1>k, <1>4, <2>1 DEF RevertInsert, At, TablesKnown, PageIsThere, LinksKnown
  <2>3. /\ AddNewPageContentVersion(p, rq[t].ver, text, clock)
        /\ rq'[t].pc = "rev:cache" /\ listCache' = listCache
    BY <1>4, <1>m, <2>1, <2>2 DEF RevertInsert, MayReference, GetPageById, There, caches
  <2>4. PICK v : InsertContent(p, v, text, clock)
    BY <2>3 DEF AddNewPageContentVersion
  <2>5. PICK row : row.text = text /\ contents' = contents \cup {row} /\ pages' = pages
    BY <1>t, <2>4, NewRowNow
  <2>6. LinksKnown(t)'
    BY <2>3, LinksUnknown DEF LinksLabels, UpdateLabels, ListsHaveGone
  <2> QED
    BY <1>l, <2>2, <2>3, <2>5, <2>6, LinksStay
<1>5. CASE RenameTagNext(t)
  <2>1. rq[t].pc = "tag:next" /\ UNCHANGED <<pages, contents>> /\ listCache' = listCache
    BY <1>5 DEF RenameTagNext, At, tables, caches
  <2>2. /\ \A view \in rq[t].views : ViewLinksHold(view)
        /\ \A pg \in rq[t].todo : TitleHolds(pg)
    BY <1>k, <2>1 DEF LinksKnown
  <2>3. CASE rq'[t].pc \in {"threw", "tag:done"}
    BY <1>l, <2>1, <2>3, LinksAside DEF LinksLabels, UpdateLabels, ListsHaveGone
  <2>4. ASSUME NEW view, ViewLinksHold(view), rq'[t].pc = "tag:unindex",
               rq'[t].id = view.page.id, rq'[t].prev = view.page.title, rq'[t].model = view,
               rq'[t].views = rq[t].views, rq'[t].todo \subseteq rq[t].todo
        PROVE  LinksInv'
    <3>1. /\ \A v \in rq'[t].views : ViewLinksHold(v)'
          /\ \A pg \in rq'[t].todo : TitleHolds(pg)'
      BY <1>s, <2>1, <2>2, <2>4
    <3>2. /\ \A pg \in pages' : pg.id = view.page.id => pg.title = view.page.title
          /\ view.text.links \subseteq PageTitles'
      BY <1>s, <2>1, <2>4 DEF ViewLinksHold, TitleHolds
    <3>3. LinksKnown(t)'
      BY <2>4, <3>1, <3>2 DEF LinksKnown, UpdateLabels, ListsHaveGone, TitleIsToChange,
         LinksAreToChange, ViewLinksHold, TitleHolds, PageTitles
    <3> QED
      BY <1>k, <1>l, <2>1, <3>3, LinksStay
  <2>5. ASSUME NEW pg \in rq[t].todo, NEW c \in GetLatestPageContent(pg.id),
               rq'[t].pc = "tag:unindex", rq'[t].id = pg.id, rq'[t].prev = pg.title,
               rq'[t].model = ViewOf(pg, c), rq'[t].views = rq[t].views,
               rq'[t].todo = rq[t].todo \ {pg}
        PROVE  LinksInv'
    <3>1. PICK view : view = ViewOf(pg, c)
      OBVIOUS
    <3>2. view.page = pg /\ view.text = c.text /\ c \in contents
      BY <3>1 DEF ViewOf, GetLatestPageContent, FindPageContentsByPageId
    <3>3. ViewLinksHold(view)
      BY <1>k, <2>2, <3>2 DEF ViewLinksHold
    <3> QED
      BY <2>4, <2>5, <3>1, <3>2, <3>3
  <2> QED
    BY <1>5, <1>t, <2>2, <2>3, <2>4, <2>5, RenameTagNextMoves
<1>6. CASE RenameTagUnindex(t)
  <2>1. UNCHANGED <<pages, contents>> /\ rq[t].pc = "tag:unindex"
    BY <1>6 DEF RenameTagUnindex, At, tables
  <2>2. CASE rq'[t].pc = "threw" /\ UNCHANGED caches
    BY <1>l, <2>1, <2>2, LinksAside DEF LinksLabels, UpdateLabels, ListsHaveGone, caches
  <2>3. CASE /\ rq'[t].pc = "upd:page" /\ rq'[t].id = rq[t].id /\ rq'[t].prev = rq[t].prev
             /\ rq'[t].model.page.title = rq[t].model.page.title
             /\ rq'[t].model.text = rq[t].model.text
             /\ rq'[t].views = rq[t].views \ {rq[t].model} /\ rq'[t].todo = rq[t].todo
             /\ RetagCached(t)
    <3>1. PICK model, new, views :
            model = rq[t].model /\ new = Retagged(t) /\ views = rq[t].views
      OBVIOUS
    <3>2. /\ \A view \in views : ViewLinksHold(view)
          /\ \A pg \in rq[t].todo : TitleHolds(pg)
          /\ model.page.title = rq[t].prev \/ (views = {} /\ rq[t].todo = {})
          /\ \A pg \in pages : pg.id = rq[t].id => pg.title = rq[t].prev
          /\ model.text.links \subseteq PageTitles
      BY <1>k, <2>1, <3>1 DEF LinksKnown, UpdateLabels, TitleIsToChange
    <3>3. /\ new.page.id = model.page.id /\ new.page.title = model.page.title
          /\ new.text = model.text
      BY <1>t, <3>1, RetaggedKeeps
    <3>4. ViewLinksHold(model) => ViewLinksHold(new)
      BY <3>3 DEF ViewLinksHold, TitleHolds
    <3>5. ASSUME NEW e \in listCache', NEW view \in e.views PROVE ViewLinksHold(view)
      <4>1. PICK d \in listCache :
              \/ e = d
              \/ model \in views \cap d.views /\ e = [d EXCEPT !.views = (@ \ {model}) \cup {new}]
        BY <2>3, <3>1 DEF RetagCached
      <4>2. view \in d.views \/ (view = new /\ model \in views)
        <5>1. d \in [key : ListKey, views : SUBSET View]
          BY <1>t DEF TypeOK, CachesTypeOK
        <5> QED
          BY <4>1, <5>1
      <4> QED
        BY <1>v, <3>2, <3>4, <4>2
    <3>6. \A e \in listCache' : \A view \in e.views : ViewLinksHold(view)'
      BY <1>s, <2>1, <3>5
    <3>7. /\ \A view \in rq'[t].views : ViewLinksHold(view)'
          /\ \A pg \in rq'[t].todo : TitleHolds(pg)'
          /\ rq'[t].model.page.title = rq'[t].prev \/ (rq'[t].views = {} /\ rq'[t].todo = {})
          /\ \A pg \in pages' : pg.id = rq'[t].id => pg.title = rq'[t].prev
          /\ rq'[t].model.text.links \subseteq PageTitles'
      BY <1>s, <2>1, <2>3, <3>1, <3>2
    <3>8. LinksKnown(t)'
      BY <2>3, <3>7 DEF LinksKnown, UpdateLabels, ListsHaveGone, TitleIsToChange,
         LinksAreToChange, ViewLinksHold, TitleHolds, PageTitles
    <3>9. \A c \in contents' : c.text.links \subseteq PageTitles'
      BY <1>k, <1>s, <2>1
    <3> QED
      BY <3>6, <3>8, <3>9, LinksMove
  <2> QED
    BY <1>6, <1>t, <2>2, <2>3, RenameTagUnindexMoves
(* Nobody deletes pages. *)
<1>7. CASE DeletePageLatest(t) \/ DeletePageUnindex(t) \/ DeletePageChildren(t)
           \/ DeletePageContents(t) \/ DeletePageRow(t) \/ DeletePageClearLists(t)
           \/ DeletePageClearPages(t) \/ ClearPagesContents(t) \/ ClearPagesLists(t)
           \/ ClearPagesPages(t)
  <2>1. rq[t].pc \in DeletePageLabels \cup {"clr:contents", "clr:lists", "clr:pages"}
    BY <1>7 DEF DeletePageLatest, DeletePageUnindex, DeletePageChildren, DeletePageContents,
       DeletePageRow, DeletePageClearLists, DeletePageClearPages, ClearPagesContents,
       ClearPagesLists, ClearPagesPages, At, DeletePageLabels
  <2>2. "delete" \in Ops \/ "clear" \in Ops
    BY <1>t, <2>1 DEF TablesKnown, CallsKnown
  <2> QED
    BY <2>2 DEF NoNewLinks, Never
<1> QED
  BY <1>1, <1>2, <1>3, <1>4, <1>5, <1>6, <1>7 DEF WriteOn, WriteStep, DatabaseFails

LEMMA ArriveLinks ==
    ASSUME NoNewLinks, TablesInv, ListsInv, LinksInv, Serial,
           NEW t \in Threads, Arrives(t)
    PROVE  outdated' \/ LinksInv'
<1>t. TypeOK /\ KeysInOrder
  BY DEF TablesInv
<1>i. /\ rq[t].pc \in {"idle", "threw"} /\ rq[t].pc \notin LinksAreToChange
      /\ rq[t].pc \notin ListsAreToGo
  BY <1>t, ArriveIdle DEF LinksAreToChange, ListsAreToGo
<1> USE DEF In
<1>k. /\ \A c \in contents : c.text.links \subseteq PageTitles
      /\ \A e \in listCache : \A view \in e.views : ViewLinksHold(view)
      /\ \A e \in listCache : ListEntryHolds(e)
  BY <1>i, LinksOnly, ListsOnly
<1>s. pages' = pages =>
        /\ PageTitles' = PageTitles
        /\ \A page : TitleHolds(page)' <=> TitleHolds(page)
        /\ \A view : ViewLinksHold(view)' <=> ViewLinksHold(view)
  BY TitlesStay
<1>1. CASE GetByIdMiss(t) \/ HomePageMiss(t) \/ ListMiss(t) \/ CompareMiss(t)
           \/ ClearCachePages(t) \/ CreateIndexPages(t)
  <2>1. UNCHANGED <<pages, contents>> /\ listCache' = listCache
    BY <1>1 DEF GetByIdMiss, HomePageMiss, ListMiss, CompareMiss, ClearCachePages,
       CreateIndexPages, UncacheAllPages, tables, caches
  <2>2. rq'[t].pc \in {"get:page", "home:any", "home:content", "list:pages",
                       "cmp:previous", "cache:lists", "idx:contents", "threw"}
    BY <1>1, <1>t, ReadArrivals, OtherArrivals
  <2> QED
    BY <1>i, <2>1, <2>2, LinksAside DEF LinksLabels, UpdateLabels, ListsHaveGone
(* The new page has a key of its own, and links to nothing. *)
<1>2. CASE AddPageRow(t)
  <2>1. PICK page \in Page, text \in TypedTexts :
          /\ rq'[t].pc = "add:content"
          /\ rq'[t].model = [page |-> page, text |-> text, version |-> 1]
          /\ page.id = nextPage /\ pages' = pages \cup {page} /\ contents' = contents
    BY <1>2, <1>t, AddPageRowMoves
  <2>2. listCache' = listCache
    BY <1>2 DEF AddPageRow, caches
  <2>3. text.links = {}
    BY <2>1 DEF TypedTexts, NoNewLinks
  <2>4. PageTitles \subseteq PageTitles'
    BY <2>1 DEF PageTitles
  <2>5. ASSUME NEW e \in listCache, NEW view \in e.views PROVE ViewLinksHold(view)'
    <3>1. view.page \in pages /\ ViewLinksHold(view)
      BY <1>k, ListedPagesAreThere DEF ListEntryHolds
    <3>2. view.page.id # page.id
      BY <1>t, <2>1, <3>1, RowFacts
    <3>3. TitleHolds(view.page)'
      BY <2>1, <3>1, <3>2 DEF ViewLinksHold, TitleHolds
    <3> QED
      BY <2>4, <3>1, <3>3 DEF ViewLinksHold
  <2>6. LinksKnown(t)'
    BY <2>1, <2>3 DEF LinksKnown, UpdateLabels, ListsHaveGone, TitleIsToChange,
       LinksAreToChange
  <2>7. \A c \in contents' : c.text.links \subseteq PageTitles'
    BY <1>k, <2>1, <2>4
  <2> QED
    BY <2>2, <2>5, <2>6, <2>7, LinksMove
<1>3. CASE UpdateForm(t)
  <2>1. UNCHANGED <<pages, contents, listCache>>
    BY <1>3 DEF UpdateForm, tables, caches
  <2>2. PICK form \in forms :
          /\ rq'[t].pc = "upd:page"
          /\ rq'[t].id = form.view.page.id /\ rq'[t].prev = form.view.page.title
          /\ rq'[t].model \in Edited(form.view, form.admin)
          /\ rq'[t].views = {} /\ rq'[t].todo = {}
          /\ outdated' = (outdated \/ ~UpToDate(form.view))
    BY <1>3, <1>t, UpdateFormMoves
  <2> SUFFICES ASSUME UpToDate(form.view) PROVE LinksInv'
    BY <2>2 DEF TypeOK
  <2>3. PICK view, model : view = form.view /\ model = rq'[t].model
    OBVIOUS
  <2>4. PICK pg \in GetPageById(view.page.id) : pg.title = view.page.title
    BY <2>3 DEF UpToDate
  <2>5. \A q \in pages : q.id = view.page.id => q.title = view.page.title
    BY <1>t, <2>4 DEF KeysInOrder, GetPageById
  <2>6. view.text.links \subseteq PageTitles
    BY <2>3 DEF UpToDate, PageTitles
  <2>7. model.text.links \subseteq PageTitles
    <3>1. model.text \in TypedTexts \cup {view.text}
      BY <2>2, <2>3 DEF Edited
    <3> QED
      BY <2>6, <3>1 DEF TypedTexts, NoNewLinks
  <2>8. LinksKnown(t)'
    BY <1>s, <2>1, <2>2, <2>3, <2>5, <2>7 DEF LinksKnown, UpdateLabels, ListsHaveGone,
       TitleIsToChange, LinksAreToChange, ViewLinksHold, TitleHolds, PageTitles
  <2> QED
    BY <1>i, <1>k, <2>1, <2>8, LinksStay
<1>4. CASE RevertVersion(t)
  <2>1. UNCHANGED <<pages, contents, listCache>>
    BY <1>4 DEF RevertVersion, tables, caches
  <2>2. PICK c \in contents, pg \in pages : rq'[t].pc = "rev:max" /\ rq'[t].view = ViewOf(pg, c)
    BY <1>4, <1>t, RevertVersionMoves DEF GetPageById
  <2>3. rq'[t].view.text.links \subseteq PageTitles
    BY <1>k, <2>2 DEF ViewOf
  <2>4. LinksKnown(t)'
    BY <1>s, <2>1, <2>2, <2>3 DEF LinksKnown, UpdateLabels, ListsHaveGone,
       TitleIsToChange, LinksAreToChange, PageTitles
  <2> QED
    BY <1>i, <1>k, <2>1, <2>4, LinksStay
<1>5. CASE RenameTagFind(t)
  <2>1. UNCHANGED <<pages, contents, listCache>>
    BY <1>5 DEF RenameTagFind, tables, caches
  <2>2. CASE rq'[t].pc = "list:pages"
    BY <1>i, <2>1, <2>2, LinksAside DEF LinksLabels, UpdateLabels, ListsHaveGone
  <2>3. ASSUME NEW e \in listCache, rq'[t].pc = "tag:next", rq'[t].views = e.views,
               rq'[t].todo = {}
        PROVE  LinksInv'
    <3>1. \A view \in rq'[t].views : ViewLinksHold(view)'
      BY <1>k, <1>s, <2>1, <2>3
    <3>2. LinksKnown(t)'
      BY <2>3, <3>1 DEF LinksKnown, UpdateLabels, ListsHaveGone, TitleIsToChange,
         LinksAreToChange, ViewLinksHold, TitleHolds, PageTitles
    <3> QED
      BY <1>i, <1>k, <2>1, <3>2, LinksStay
  <2> QED
    BY <1>5, <1>t, <2>2, <2>3, RenameTagFindMoves
(* Nobody deletes pages. *)
<1>6. CASE DeletePageLoad(t) \/ ClearPagesRows(t)
  <2>1. ClearPagesRows(t) /\ rq'[t].pc = "threw" /\ UNCHANGED tables
    BY <1>6, <1>t, OtherArrivals DEF NoNewLinks, Never
  <2>2. UNCHANGED <<pages, contents, listCache>>
    BY <2>1 DEF ClearPagesRows, tables, caches
  <2> QED
    BY <1>i, <2>1, <2>2, LinksAside DEF LinksLabels, UpdateLabels, ListsHaveGone
<1> QED
  BY <1>1, <1>2, <1>3, <1>4, <1>5, <1>6 DEF Arrives, Arrive

LEMMA OutdatedStays ==
    ASSUME outdated, [Next]_vars
    PROVE  outdated'
BY DEF Next, browsers, UpdateForm, OpenLoadedForm, OpenCachedForm, OpenForm, Recycle,
       Finished, vars

LEMMA NextLinks ==
    ASSUME TablesInv, ListsInv, outdated \/ LinksInv, Serial, ~DatabaseMayFail, [Next]_vars
    PROVE  outdated' \/ LinksInv'
<1> SUFFICES ASSUME LinksInv PROVE outdated' \/ LinksInv'
  BY OutdatedStays
<1> SUFFICES ASSUME NoNewLinks PROVE outdated' \/ LinksInv'
  BY DEF LinksInv, NoNewLinks, Never
<1>1. ASSUME NEW t \in Threads, Arrives(t) \/ GoOn(t)
      PROVE  outdated' \/ LinksInv'
  BY <1>1, ArriveLinks, ReadOnLinks, UpdateOnLinks, WriteOnLinks DEF GoOn
<1>2. CASE Recycle
  BY <1>2 DEF Recycle, NoNewLinks, Never
<1>3. CASE UNCHANGED site
  <2>1. UNCHANGED <<pages, contents, listCache, rq>>
    BY <1>3 DEF site, tables, caches
  <2>2. /\ PageTitles' = PageTitles
        /\ \A page : TitleHolds(page)' <=> TitleHolds(page)
        /\ \A view : ViewLinksHold(view)' <=> ViewLinksHold(view)
    BY <2>1, TitlesStay
  <2>3. \A t : LinksKnown(t) => LinksKnown(t)'
    BY <2>1, <2>2 DEF LinksKnown, In, ViewLinksHold, TitleHolds, PageTitles
  <2> QED
    BY <2>1, <2>2, <2>3 DEF LinksInv, In
<1> QED
  BY <1>1, <1>2, <1>3, SiteSteps DEF TablesInv

LEMMA InitLinks == Init => LinksInv
<1> SUFFICES ASSUME Init, NoNewLinks PROVE LinksInv
  BY DEF LinksInv
<1>1. listCache = {} /\ \A t \in Threads : rq[t].pc = "idle"
  BY DEF Init, CachesInit, Idle
<1>2. \A t \in Threads : LinksKnown(t)
  BY <1>1 DEF LinksKnown, In, UpdateLabels, ListsHaveGone, TitleIsToChange, LinksAreToChange
<1>3. PageTitles = SeedTitles
  BY DEF Init, TablesInit, PageTitles, SeedTitles
<1>4. \A c \in contents : c.text.links \subseteq PageTitles
  BY <1>3 DEF Init, TablesInit, NoNewLinks
<1> QED
  BY <1>1, <1>2, <1>4 DEF LinksInv

(* Each link leads to a page, or UpdatePage has saved a new title and has  *)
(* yet to rewrite the links to the old one; the rows it still has to write *)
(* are all that link there.  What RenameTag saves has the title the page   *)
(* has, so that it changes none.  It is so until a form is posted that     *)
(* shows a title from before a renaming.                                   *)
THEOREM LinksInvariant == Spec => [](Serial /\ ~DatabaseMayFail => outdated \/ LinksInv)
<1>1. Init => (Serial /\ ~DatabaseMayFail => outdated \/ LinksInv)
  BY InitLinks
<1>2. /\ Serial => TablesInv
      /\ Serial /\ ~DatabaseMayFail => ListsInv
      /\ Serial /\ ~DatabaseMayFail => outdated \/ LinksInv
      /\ [Next]_vars
      => (Serial /\ ~DatabaseMayFail => outdated \/ LinksInv)'
  BY NextLinks DEF Serial
<1> QED
  BY <1>1, <1>2, TablesInvariant, ListsInvariant, PTL DEF Spec

(* Between two requests, with one request at a time, no page deleted, no   *)
(* link typed, a database that does not fail and no outdated form posted,  *)
(* every link in every version still leads to a page: when UpdatePage      *)
(* changes a title it rewrites the old title wherever it is linked to, in  *)
(* the old versions too, and the text it has just saved.  Forms may be     *)
(* posted long after they were opened, and again.                          *)
THEOREM LinksStayResolved == Spec => []LinksResolve
<1>1. (Serial /\ ~DatabaseMayFail => outdated \/ LinksInv) => LinksResolve
  <2> SUFFICES ASSUME Serial, Quiet, NoNewLinks, LinksInv, NEW c \in contents
               PROVE  c.text.links \subseteq PageTitles
    BY DEF LinksResolve, NoNewLinks, PageTitles
  <2> QED
    BY DEF LinksInv, In, Quiet, Between, LinksAreToChange
<1> QED
  BY <1>1, LinksInvariant, PTL

=============================================================================
