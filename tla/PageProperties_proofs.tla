------------------------- MODULE PageProperties_proofs -------------------------
(***************************************************************************)
(* What readers are shown, however stale, has been saved; the page service *)
(* implements VersionedPages; and what leaves a page without content:      *)
(* proofs, for any number of threads, requests, pages and users.           *)
(*                                                                         *)
(* TextsInv follows a text on its way from the rows to a cache or to the   *)
(* index, through the local variables of a request.  That the rows keep    *)
(* what has been read from them is HistoryInv's part.                      *)
(***************************************************************************)
EXTENDS PageHistory_proofs

-----------------------------------------------------------------------------
(* What is known of the texts. *)

IsSaved(view) ==
    \E c \in contents : /\ c.pageId = view.page.id
                        /\ c.version = view.version
                        /\ c.text.body = view.text.body

AllSaved(views) == \A view \in views : IsSaved(view)

IsLive(p) == \E pg \in pages : pg.id = p

(* Where a request has built a view model, from a row it has read.         *)
ViewLabels == {"get:cache", "home:cache", "cmp:cache", "upd:unindex", "upd:index"}

(* Where it has read the page it is about.                                 *)
PageLabels ==
    {"get:content", "home:content", "cmp:previous", "upd:save", "upd:cache", "upd:home",
     "upd:lists", "upd:max", "upd:time", "upd:insert", "upd:links", "upd:rewrite",
     "upd:clearpages", "upd:clearlists", "upd:latest"}

(* Where it is about to add a version to a page that is there.             *)
SaveLabels ==
    {"add:content", "rev:max", "rev:time", "rev:insert", "upd:save", "upd:cache", "upd:home",
     "upd:lists", "upd:max", "upd:time", "upd:insert"}

AddLabels == {"add:lists", "add:pages", "add:index"}

ListLabels == {"list:pages", "list:contents", "list:cache"}

(* What a request at each place has in its hands.                          *)
Sound(r) ==
    /\ r.pc \in ViewLabels => IsSaved(r.view)
    /\ r.pc \in PageLabels => r.page.id = r.id
    /\ r.pc \in SaveLabels => IsLive(r.id)
    /\ r.pc = "add:content" => r.model.page.id = r.id /\ r.model.version = 1
    /\ r.pc \in AddLabels => IsSaved(r.model)
    /\ r.pc \in ListLabels /\ WithContent(r.key) => AllSaved(r.views)
    /\ r.pc \in {"idx:contents", "idx:close"} => AllSaved(r.views)

CachesSaved ==
    /\ \A e \in pageCache : IsSaved(e.view)
    /\ AllSaved(homeCache)
    /\ \A e \in listCache : WithContent(e.key) => AllSaved(e.views)

IndexSaved == \A p \in PageIds : \A i \in DOMAIN documents[p] : IsSaved(documents[p][i])

(* Pages are numbered in the order they come in.                           *)
PagesAreNumbered == \A pg \in pages : pg.id < nextPage

TextsInv ==
    /\ HistoryInv
    /\ PagesAreNumbered
    /\ CachesSaved
    /\ IndexSaved
    /\ \A t \in Threads : Sound(rq[t])

-----------------------------------------------------------------------------
(* What is known of the rows, whatever the requests do. *)

(* Where a request is about to store or to delete the content of a page.   *)
WorkLabels == {"add:content", "del:contents", "del:row"}

(* Rows with the same id are of the same page.                             *)
SameRows(found, others) ==
    \A c \in found : \A d \in others : d.id = c.id => d.pageId = c.pageId

RowsAreOld(found) == \A c \in found : c.id < nextRow

(* A row that a request has read is of the page it was of then.            *)
RowsStay ==
    /\ RowsAreOld(contents) /\ SameRows(contents, contents)
    /\ \A t \in Threads :
         /\ RowsAreOld(rq[t].rows) /\ SameRows(rq[t].rows, contents)
         /\ rq[t].pc = "del:contents" => \A c \in rq[t].rows : c.pageId = rq[t].id

FlightInv == TypeOK /\ RowsStay

-----------------------------------------------------------------------------
(* What is saved stays saved, and a page that is there stays. *)

PagesStay == \A pg \in pages : \E q \in pages' : q.id = pg.id

LEMMA SavedLater ==
    ASSUME RowsAreKept, NEW view, IsSaved(view)
    PROVE  IsSaved(view)'
BY DEF RowsAreKept, IsSaved, SameVersion

LEMMA AllSavedLater ==
    ASSUME RowsAreKept, NEW views, AllSaved(views)
    PROVE  AllSaved(views)'
<1>1. \A view \in views : IsSaved(view)'
  BY SavedLater DEF AllSaved
<1> QED
  BY <1>1 DEF AllSaved

LEMMA LiveLater ==
    ASSUME PagesStay, NEW p, IsLive(p)
    PROVE  IsLive(p)'
BY DEF PagesStay, IsLive

(* What a request has in its hands is as good after a step of another.     *)
LEMMA SoundLater ==
    ASSUME RowsAreKept, PagesStay, NEW r, Sound(r)
    PROVE  Sound(r)'
<1>1. /\ r.pc \in ViewLabels => IsSaved(r.view)'
      /\ r.pc \in SaveLabels => IsLive(r.id)'
      /\ r.pc \in AddLabels => IsSaved(r.model)'
  BY SavedLater, LiveLater DEF Sound
<1>2. /\ r.pc \in ListLabels /\ WithContent(r.key) => AllSaved(r.views)'
      /\ r.pc \in {"idx:contents", "idx:close"} => AllSaved(r.views)'
  BY AllSavedLater DEF Sound
<1> QED
  BY <1>1, <1>2 DEF Sound

(* The view model that is built from a row, and the page it is read for.   *)
LEMMA ViewIsSaved ==
    ASSUME NEW pg, NEW c \in contents, c.pageId = pg.id
    PROVE  IsSaved(ViewOf(pg, c))
BY DEF IsSaved, ViewOf

LEMMA LatestIsSaved ==
    ASSUME NEW pg, NEW c \in GetLatestPageContent(pg.id)
    PROVE  IsSaved(ViewOf(pg, c))
BY ViewIsSaved DEF GetLatestPageContent, FindPageContentsByPageId

-----------------------------------------------------------------------------
(* What happens to the tables, the caches and the index. *)

LEMMA TablesAside ==
    ASSUME PagesAreNumbered, UNCHANGED tables \/ UNCHANGED rows
    PROVE  PagesAreNumbered' /\ PagesStay
BY DEF PagesAreNumbered, PagesStay, tables, rows

LEMMA CachesAside ==
    ASSUME CachesSaved, RowsAreKept, UNCHANGED caches
    PROVE  CachesSaved'
<1>1. pageCache' = pageCache /\ homeCache' = homeCache /\ listCache' = listCache
  BY DEF caches
<1>2. \A e \in pageCache : IsSaved(e.view)'
  BY SavedLater DEF CachesSaved
<1>3. AllSaved(homeCache)'
  BY <1>1, SavedLater DEF CachesSaved, AllSaved
<1>4. \A e \in listCache : WithContent(e.key) => AllSaved(e.views)'
  BY AllSavedLater DEF CachesSaved
<1> QED
  BY <1>1, <1>2, <1>3, <1>4 DEF CachesSaved

LEMMA CachesShrink ==
    ASSUME CachesSaved, RowsAreKept, pageCache' \subseteq pageCache,
           homeCache' \subseteq homeCache, listCache' \subseteq listCache
    PROVE  CachesSaved'
<1>1. \A e \in pageCache : IsSaved(e.view)'
  BY SavedLater DEF CachesSaved
<1>2. \A view \in homeCache : IsSaved(view)'
  BY SavedLater DEF CachesSaved, AllSaved
<1>3. \A e \in listCache : WithContent(e.key) => AllSaved(e.views)'
  BY AllSavedLater DEF CachesSaved
<1> QED
  BY <1>1, <1>2, <1>3 DEF CachesSaved, AllSaved

LEMMA Uncached ==
    ASSUME CachesSaved, RowsAreKept,
           \/ UncacheHomePage \/ UncacheAllPages \/ UncacheAllLists
           \/ \E p, v : UncachePage(p, v)
           \/ \E key : UncacheList(key)
    PROVE  CachesSaved'
BY CachesShrink DEF UncacheHomePage, UncacheAllPages, UncacheAllLists, UncachePage, UncacheList

LEMMA CachedPageSaved ==
    ASSUME CachesSaved, RowsAreKept, NEW p, NEW v, NEW view, IsSaved(view),
           CachePage(p, v, view)
    PROVE  CachesSaved'
<1>1. pageCache' \subseteq pageCache \cup {[id |-> p, version |-> v, view |-> view]}
      /\ homeCache' = homeCache /\ listCache' = listCache
  BY DEF CachePage
<1>2. \A e \in pageCache : IsSaved(e.view)'
  BY SavedLater DEF CachesSaved
<1>3. IsSaved(view)'
  BY SavedLater
<1>4. AllSaved(homeCache)'
  BY <1>1, SavedLater DEF CachesSaved, AllSaved
<1>5. \A e \in listCache : WithContent(e.key) => AllSaved(e.views)'
  BY AllSavedLater DEF CachesSaved
<1>6. \A e \in pageCache' : IsSaved(e.view)'
  BY <1>1, <1>2, <1>3
<1> QED
  BY <1>1, <1>4, <1>5, <1>6 DEF CachesSaved

LEMMA CachedHomeSaved ==
    ASSUME CachesSaved, RowsAreKept, NEW view, IsSaved(view), CacheHomePage(view)
    PROVE  CachesSaved'
<1>1. homeCache' \subseteq homeCache \cup {view} /\ pageCache' = pageCache
      /\ listCache' = listCache
  BY DEF CacheHomePage
<1>2. \A e \in pageCache : IsSaved(e.view)'
  BY SavedLater DEF CachesSaved
<1>3. \A v \in homeCache \cup {view} : IsSaved(v)'
  BY SavedLater DEF CachesSaved, AllSaved
<1>4. \A e \in listCache : WithContent(e.key) => AllSaved(e.views)'
  BY AllSavedLater DEF CachesSaved
<1>5. AllSaved(homeCache)'
  BY <1>1, <1>3 DEF AllSaved
<1> QED
  BY <1>1, <1>2, <1>4, <1>5 DEF CachesSaved

(* Lists without content are stored under keys without content.            *)
LEMMA CachedListSaved ==
    ASSUME CachesSaved, RowsAreKept, NEW key \in ListKey, NEW views,
           WithContent(key) => AllSaved(views), CacheList(key, views)
    PROVE  CachesSaved'
<1> DEFINE stored == [key |-> StoredKey(key), views |-> views]
<1>1. listCache' \subseteq listCache \cup {stored}
      /\ pageCache' = pageCache /\ homeCache' = homeCache
  BY DEF CacheList
<1>2. WithContent(stored.key) = WithContent(key) /\ stored.views = views
  BY DEF StoredKey, WithContent, ListKey
<1> HIDE DEF stored
<1>3. \A e \in pageCache : IsSaved(e.view)'
  BY SavedLater DEF CachesSaved
<1>4. AllSaved(homeCache)'
  BY <1>1, SavedLater DEF CachesSaved, AllSaved
<1>5. \A e \in listCache : WithContent(e.key) => AllSaved(e.views)'
  BY AllSavedLater DEF CachesSaved
<1>6. WithContent(stored.key) => AllSaved(stored.views)'
  <2>1. WithContent(key) => AllSaved(views)'
    BY AllSavedLater
  <2>2. PICK of : of = stored.views
    OBVIOUS
  <2>3. AllSaved(of)' <=> AllSaved(views)'
    BY <1>2, <2>2
  <2> QED
    BY <1>2, <2>1
<1> QED
  BY <1>1, <1>3, <1>4, <1>5, <1>6 DEF CachesSaved

LEMMA IndexAside ==
    ASSUME IndexSaved, RowsAreKept, UNCHANGED documents
    PROVE  IndexSaved'
<1>1. \A p \in PageIds : \A i \in DOMAIN documents[p] : IsSaved(documents[p][i])'
  <2> SUFFICES ASSUME NEW p \in PageIds, NEW i \in DOMAIN documents[p]
               PROVE  IsSaved(documents[p][i])'
    OBVIOUS
  <2>1. PICK view : view = documents[p][i]
    OBVIOUS
  <2>2. IsSaved(view)'
    BY <2>1, SavedLater DEF IndexSaved
  <2> QED
    BY <2>1, <2>2 DEF IsSaved
<1> QED
  BY <1>1 DEF IndexSaved

LEMMA IndexHolds ==
    ASSUME \A p \in PageIds : \A i \in DOMAIN documents'[p] :
              \E view : view = documents'[p][i] /\ IsSaved(view)'
    PROVE  IndexSaved'
BY DEF IndexSaved, IsSaved

LEMMA IndexedViewSaved ==
    ASSUME IndexSaved, RowsAreKept, documents \in [PageIds -> Seq(View)],
           NEW view \in View, IsSaved(view), IndexAdd(view)
    PROVE  IndexSaved'
<1>1. /\ documents' = [documents EXCEPT ![view.page.id] = Append(@, view)]
      /\ view.page.id \in PageIds
  BY DEF IndexAdd, View, Page
<1> SUFFICES ASSUME NEW p \in PageIds, NEW i \in DOMAIN documents'[p]
             PROVE  \E v : v = documents'[p][i] /\ IsSaved(v)'
  BY IndexHolds
<1>2. PICK old : old = documents[p]
  OBVIOUS
<1>3. old \in Seq(View) /\ DOMAIN old = 1..Len(old) /\ Len(old) \in Nat
  BY <1>2
<1>4. PICK shown : shown = documents'[p][i]
  OBVIOUS
<1>5. shown = view \/ \E j \in DOMAIN old : shown = old[j]
  BY <1>1, <1>2, <1>3, <1>4
<1>6. \A j \in DOMAIN old : IsSaved(old[j])
  BY <1>2 DEF IndexSaved
<1>7. IsSaved(shown)
  BY <1>5, <1>6
<1>8. IsSaved(shown)'
  BY <1>7, SavedLater
<1> QED
  BY <1>4, <1>8

LEMMA Unindexed ==
    ASSUME IndexSaved, RowsAreKept, documents \in [PageIds -> Seq(View)],
           NEW p \in PageIds, IndexDelete(p)
    PROVE  IndexSaved'
<1>1. documents' = [documents EXCEPT ![p] = <<>>]
  BY DEF IndexDelete
<1> SUFFICES ASSUME NEW q \in PageIds, NEW i \in DOMAIN documents'[q]
             PROVE  \E v : v = documents'[q][i] /\ IsSaved(v)'
  BY IndexHolds
<1>2. documents'[q] = documents[q]
  BY <1>1
<1>3. PICK shown : shown = documents[q][i]
  OBVIOUS
<1>4. IsSaved(shown)
  BY <1>2, <1>3 DEF IndexSaved
<1>5. IsSaved(shown)'
  BY <1>4, SavedLater
<1> QED
  BY <1>2, <1>3, <1>5

LEMMA ReplacedIndexSaved ==
    ASSUME RowsAreKept, NEW views, AllSaved(views), IndexReplace(views)
    PROVE  IndexSaved'
<1> SUFFICES ASSUME NEW p \in PageIds, NEW i \in DOMAIN documents'[p]
             PROVE  \E v : v = documents'[p][i] /\ IsSaved(v)'
  BY IndexHolds
<1>1. documents'[p] = IF \E v \in views : v.page.id = p
                      THEN <<CHOOSE v \in views : v.page.id = p>> ELSE <<>>
  BY DEF IndexReplace
<1>2. \E v \in views : v.page.id = p
  BY <1>1
<1>3. PICK shown : shown = CHOOSE v \in views : v.page.id = p
  OBVIOUS
<1>4. shown \in views
  BY <1>2, <1>3
<1>5. documents'[p] = <<shown>> /\ documents'[p][i] = shown
  BY <1>1, <1>2, <1>3
<1>6. IsSaved(shown)'
  BY <1>4, SavedLater DEF AllSaved
<1> QED
  BY <1>5, <1>6

-----------------------------------------------------------------------------
(* What happens to the requests. *)

(* Where a request has nothing in its hands that matters here. *)
Busy ==
    ViewLabels \cup PageLabels \cup SaveLabels \cup AddLabels
      \cup ListLabels \cup {"idx:contents", "idx:close"}

LEMMA Harmless ==
    ASSUME NEW r, r.pc \notin Busy
    PROVE  Sound(r)
BY DEF Busy, Sound, SaveLabels

StaysSound(t) == \E r : rq' = [rq EXCEPT ![t] = r] /\ Sound(r)

LEMMA Ends ==
    ASSUME NEW t \in Threads, Return(t) \/ Throw(t)
    PROVE  StaysSound(t)
<1>1. Sound(Idle)
  BY DEF Sound, Idle, ViewLabels, PageLabels, SaveLabels, AddLabels, ListLabels
<1>2. \A op : Sound([Idle EXCEPT !.pc = "threw", !.op = op])
  BY DEF Sound, Idle, ViewLabels, PageLabels, SaveLabels, AddLabels, ListLabels
<1> QED
  BY <1>1, <1>2 DEF StaysSound, Return, Throw

LEMMA BecomesSound ==
    ASSUME NEW t \in Threads, NEW r, Become(t, r) \/ Begin(t, r), Sound(r)
    PROVE  StaysSound(t)
BY DEF StaysSound, Become, Begin

(* A request goes on with what it has. *)
LEMMA GoesOn ==
    ASSUME NEW t \in Threads, rq[t] \in Request, Sound(rq[t]), NEW label \in Labels, Goto(t, label),
           label \in ViewLabels => rq[t].pc \in ViewLabels,
           label \in PageLabels => rq[t].pc \in PageLabels,
           label \in SaveLabels => rq[t].pc \in SaveLabels,
           label \in AddLabels => rq[t].pc \in AddLabels,
           label # "add:content",
           label \in ListLabels => rq[t].pc \in ListLabels,
           label \in {"idx:contents", "idx:close"} => rq[t].pc \in {"idx:contents", "idx:close"}
    PROVE  StaysSound(t)
<1>1. PICK r : r = [rq[t] EXCEPT !.pc = label]
  OBVIOUS
<1>2. /\ r.pc = label /\ r.view = rq[t].view /\ r.page = rq[t].page /\ r.id = rq[t].id
      /\ r.model = rq[t].model /\ r.key = rq[t].key /\ r.views = rq[t].views
  BY <1>1 DEF Request
<1>3. Sound(r)
  BY <1>2 DEF Sound
<1>4. rq' = [rq EXCEPT ![t] = r]
  BY <1>1 DEF Goto
<1> QED
  BY <1>3, <1>4 DEF StaysSound

-----------------------------------------------------------------------------
(* What every step of a request is to be shown to do. *)
KeepsTexts(t) ==
    /\ PagesAreNumbered' /\ PagesStay /\ CachesSaved' /\ IndexSaved'
    /\ \E r : rq' = [rq EXCEPT ![t] = r] /\ Sound(r)'

LEMMA MovesLater ==
    ASSUME RowsAreKept, PagesStay, NEW t, StaysSound(t)
    PROVE  \E r : rq' = [rq EXCEPT ![t] = r] /\ Sound(r)'
<1>1. PICK r : rq' = [rq EXCEPT ![t] = r] /\ Sound(r)
  BY DEF StaysSound
<1>2. Sound(r)'
  BY <1>1, SoundLater
<1> QED
  BY <1>1, <1>2

LEMMA StepReads ==
    ASSUME TextsInv, RowsAreKept, NEW t, UNCHANGED <<tables, caches, index>>, StaysSound(t)
    PROVE  KeepsTexts(t)
BY TablesAside, CachesAside, IndexAside, MovesLater DEF TextsInv, KeepsTexts, index

LEMMA StepCaches ==
    ASSUME TextsInv, RowsAreKept, NEW t, UNCHANGED <<tables, index>>, CachesSaved', StaysSound(t)
    PROVE  KeepsTexts(t)
BY TablesAside, IndexAside, MovesLater DEF TextsInv, KeepsTexts, index

LEMMA StepIndexes ==
    ASSUME TextsInv, RowsAreKept, NEW t, UNCHANGED <<tables, caches>>, IndexSaved', StaysSound(t)
    PROVE  KeepsTexts(t)
BY TablesAside, CachesAside, MovesLater DEF TextsInv, KeepsTexts

LEMMA StepWrites ==
    ASSUME TextsInv, RowsAreKept, NEW t, UNCHANGED <<caches, index>>, PagesAreNumbered', PagesStay,
           \E r : rq' = [rq EXCEPT ![t] = r] /\ Sound(r)'
    PROVE  KeepsTexts(t)
BY CachesAside, IndexAside DEF TextsInv, KeepsTexts, index

LEMMA IndexFailed ==
    ASSUME IndexSaved, RowsAreKept, IndexFails \/ IndexThrows \/ IndexIgnoresError
    PROVE  IndexSaved'
BY IndexAside DEF IndexFails, IndexThrows, IndexIgnoresError, index

-----------------------------------------------------------------------------
(* The steps of the requests that read. *)

LEMMA InHand ==
    ASSUME TextsInv, NEW t \in Threads
    PROVE  /\ rq[t] \in Request /\ Sound(rq[t]) /\ TablesTypeOK
           /\ documents \in [PageIds -> Seq(View)]
BY DEF TextsInv, HistoryInv, TypeOK, IndexTypeOK

(* A view model is built from a page in hand and one of its rows, to be    *)
(* cached or indexed.                                                      *)
LEMMA ViewBuilt ==
    ASSUME NEW t \in Threads, rq[t] \in Request, rq[t].page.id = rq[t].id,
           NEW label \in ViewLabels, NEW c \in contents, c.pageId = rq[t].id,
           Become(t, [rq[t] EXCEPT !.pc = label, !.view = ViewOf(rq[t].page, c)])
    PROVE  StaysSound(t)
<1>1. PICK view, r : view = ViewOf(rq[t].page, c)
                     /\ r = [rq[t] EXCEPT !.pc = label, !.view = view]
  OBVIOUS
<1>2. r.pc = label /\ r.view = view
  BY <1>1 DEF Request
<1>3. IsSaved(view)
  BY <1>1, ViewIsSaved
<1>4. Sound(r)
  BY <1>2, <1>3 DEF Sound, ViewLabels, PageLabels, SaveLabels, AddLabels, ListLabels
<1> QED
  BY <1>1, <1>4, BecomesSound

(* A document is added to the new index.                                   *)
LEMMA ItemAdded ==
    ASSUME NEW t \in Threads, rq[t] \in Request, Sound(rq[t]),
           rq[t].pc = "idx:contents",
           NEW pg, NEW c \in GetLatestPageContent(pg.id),
           Become(t, [rq[t] EXCEPT !.todo = @ \ {pg}, !.views = @ \cup {ViewOf(pg, c)}])
    PROVE  StaysSound(t)
<1>1. PICK view : view = ViewOf(pg, c)
  OBVIOUS
<1>2. PICK r : r = [rq[t] EXCEPT !.todo = @ \ {pg}, !.views = @ \cup {view}]
  OBVIOUS
<1>3. r.pc = rq[t].pc /\ r.key = rq[t].key /\ r.views = rq[t].views \cup {view}
  BY <1>2 DEF Request
<1>4. IsSaved(view)
  BY <1>1, LatestIsSaved
<1>5. AllSaved(rq[t].views)
  BY DEF Sound, ListLabels
<1>6. AllSaved(r.views)
  BY <1>3, <1>4, <1>5 DEF AllSaved
<1>7. Sound(r)
  BY <1>3, <1>6 DEF Sound, ViewLabels, PageLabels, SaveLabels, AddLabels, ListLabels
<1>8. Become(t, r)
  BY <1>1, <1>2
<1> QED
  BY <1>7, <1>8, BecomesSound

LEMMA ReadOnTexts ==
    ASSUME TextsInv, RowsAreKept, NEW t \in Threads, ReadOn(t)
    PROVE  KeepsTexts(t)
<1>r. /\ rq[t] \in Request /\ Sound(rq[t]) /\ TablesTypeOK
      /\ documents \in [PageIds -> Seq(View)]
  BY InHand
<1>1. CASE GetByIdPage(t)
  <2>1. ASSUME NEW pg \in GetPageById(rq[t].id),
               Become(t, [rq[t] EXCEPT !.pc = "get:content", !.page = pg])
        PROVE  StaysSound(t)
    <3>1. PICK r : r = [rq[t] EXCEPT !.pc = "get:content", !.page = pg]
      OBVIOUS
    <3>2. r.pc = "get:content" /\ r.page.id = r.id
      BY <1>r, <2>1, <3>1 DEF Request, GetPageById
    <3>3. Sound(r)
      BY <3>2 DEF Sound, ViewLabels, SaveLabels, AddLabels, ListLabels
    <3> QED
      BY <2>1, <3>1, <3>3, BecomesSound
  <2>2. StaysSound(t)
    BY <1>1, <2>1, Ends DEF GetByIdPage
  <2> QED
    BY <1>1, <2>2, StepReads DEF GetByIdPage
<1>2. CASE GetByIdContent(t)
  <2>1. rq[t].page.id = rq[t].id
    BY <1>2, <1>r DEF GetByIdContent, At, Sound, PageLabels
  <2>2. StaysSound(t)
    BY <1>2, <1>r, <2>1, ViewBuilt, Ends DEF GetByIdContent, ViewLabels,
       GetLatestPageContent, FindPageContentsByPageId
  <2> QED
    BY <1>2, <2>2, StepReads DEF GetByIdContent
<1>3. CASE GetByIdCache(t)
  <2>1. IsSaved(rq[t].view)
    BY <1>3, <1>r DEF GetByIdCache, At, Sound, ViewLabels
  <2>2. CachesSaved'
    BY <1>3, <2>1, CachedPageSaved DEF GetByIdCache, TextsInv
  <2>3. StaysSound(t)
    BY <1>3, Ends DEF GetByIdCache
  <2> QED
    BY <1>3, <2>2, <2>3, StepCaches DEF GetByIdCache
<1>4. CASE HomePageAny(t)
  <2>1. ASSUME NEW pg,
               Become(t, [rq[t] EXCEPT !.pc = "home:content", !.id = pg.id, !.page = pg])
        PROVE  StaysSound(t)
    <3>1. PICK r : r = [rq[t] EXCEPT !.pc = "home:content", !.id = pg.id, !.page = pg]
      OBVIOUS
    <3>2. r.pc = "home:content" /\ r.page.id = r.id
      BY <1>r, <3>1 DEF Request
    <3>3. Sound(r)
      BY <3>2 DEF Sound, ViewLabels, SaveLabels, AddLabels, ListLabels
    <3> QED
      BY <2>1, <3>1, <3>3, BecomesSound
  <2>2. StaysSound(t)
    BY <1>4, <2>1, Ends DEF HomePageAny
  <2> QED
    BY <1>4, <2>2, StepReads DEF HomePageAny
<1>5. CASE HomePageContent(t)
  <2>1. rq[t].page.id = rq[t].id
    BY <1>5, <1>r DEF HomePageContent, At, Sound, PageLabels
  <2>2. StaysSound(t)
    BY <1>5, <1>r, <2>1, ViewBuilt, Ends DEF HomePageContent, ViewLabels,
       GetLatestPageContent, FindPageContentsByPageId
  <2> QED
    BY <1>5, <2>2, StepReads DEF HomePageContent
<1>6. CASE HomePageCache(t)
  <2>1. IsSaved(rq[t].view)
    BY <1>6, <1>r DEF HomePageCache, At, Sound, ViewLabels
  <2>2. CachesSaved'
    BY <1>6, <2>1, CachedHomeSaved DEF HomePageCache, TextsInv
  <2>3. StaysSound(t)
    BY <1>6, Ends DEF HomePageCache
  <2> QED
    BY <1>6, <2>2, <2>3, StepCaches DEF HomePageCache
<1>7. CASE ListPages(t)
  <2>l. rq[t].pc = "list:pages"
    BY <1>7 DEF ListPages, At
  <2>1. ASSUME WithContent(rq[t].key) PROVE StaysSound(t)
    <3>1. PICK r : r = [rq[t] EXCEPT !.pc = "list:contents",
                                     !.todo = ListedPages(rq[t].key)]
      OBVIOUS
    <3>2. r.pc = "list:contents" /\ r.key = rq[t].key /\ r.views = rq[t].views
      BY <1>r, <3>1 DEF Request
    <3>3. AllSaved(r.views)
      BY <1>r, <2>l, <2>1, <3>2 DEF Sound, ListLabels
    <3>4. Sound(r)
      BY <3>2, <3>3 DEF Sound, ViewLabels, PageLabels, SaveLabels, AddLabels
    <3>5. Become(t, r)
      BY <1>7, <2>1, <3>1 DEF ListPages
    <3> QED
      BY <3>4, <3>5, BecomesSound
  <2>2. ASSUME ~WithContent(rq[t].key) PROVE StaysSound(t)
    <3>1. PICK r : r = [rq[t] EXCEPT !.pc = "list:cache",
                                     !.views = {PageOnly(pg) : pg \in pages}]
      OBVIOUS
    <3>2. r.pc = "list:cache" /\ r.key = rq[t].key
      BY <1>r, <3>1 DEF Request
    <3>3. Sound(r)
      BY <2>2, <3>2 DEF Sound, ViewLabels, PageLabels, SaveLabels, AddLabels
    <3>4. Become(t, r)
      BY <1>7, <2>2, <3>1 DEF ListPages
    <3> QED
      BY <3>3, <3>4, BecomesSound
  <2>3. StaysSound(t)
    BY <2>1, <2>2
  <2> QED
    BY <1>7, <2>3, StepReads DEF ListPages
<1>8. CASE ListContent(t)
  <2>l. rq[t].pc = "list:contents"
    BY <1>8 DEF ListContent, At
  <2>1. ASSUME Goto(t, "list:cache") PROVE StaysSound(t)
    <3> QED
      BY <1>r, <2>l, <2>1, GoesOn DEF Labels, ViewLabels, PageLabels, SaveLabels, AddLabels,
         ListLabels
  <2>2. ASSUME NEW pg, NEW c \in GetLatestPageContent(pg.id),
               Become(t, [rq[t] EXCEPT !.todo = @ \ {pg}, !.views = @ \cup {ViewOf(pg, c)}])
        PROVE  StaysSound(t)
    <3>1. PICK view : view = ViewOf(pg, c)
      OBVIOUS
    <3>2. PICK r : r = [rq[t] EXCEPT !.todo = @ \ {pg}, !.views = @ \cup {view}]
      OBVIOUS
    <3>3. r.pc = rq[t].pc /\ r.key = rq[t].key /\ r.views = rq[t].views \cup {view}
      BY <1>r, <3>2 DEF Request
    <3>4. IsSaved(view)
      BY <3>1, LatestIsSaved
    <3>5. WithContent(rq[t].key) => AllSaved(r.views)
      BY <1>r, <2>l, <3>3, <3>4 DEF AllSaved, Sound, ListLabels
    <3>6. Sound(r)
      BY <2>l, <3>3, <3>5 DEF Sound, ViewLabels, PageLabels, SaveLabels, AddLabels
    <3>7. Become(t, r)
      BY <2>2, <3>1, <3>2
    <3> QED
      BY <3>6, <3>7, BecomesSound
  <2>3. StaysSound(t)
    BY <1>8, <2>1, <2>2, Ends DEF ListContent
  <2> QED
    BY <1>8, <2>3, StepReads DEF ListContent
<1>9. CASE ListCacheAdd(t)
  <2>l. rq[t].pc = "list:cache"
    BY <1>9 DEF ListCacheAdd, At
  <2>1. rq[t].key \in ListKey /\ (WithContent(rq[t].key) => AllSaved(rq[t].views))
    BY <1>r, <2>l DEF Sound, ListLabels, Request
  <2>2. CachesSaved'
    BY <1>9, <2>1, CachedListSaved DEF ListCacheAdd, TextsInv
  <2>3. ASSUME Become(t, [rq[t] EXCEPT !.pc = "tag:next", !.views = {},
                                       !.todo = {v.page : v \in rq[t].views}])
        PROVE  StaysSound(t)
    <3>1. PICK r : r = [rq[t] EXCEPT !.pc = "tag:next", !.views = {},
                                     !.todo = {v.page : v \in rq[t].views}]
      OBVIOUS
    <3>2. r.pc = "tag:next"
      BY <1>r, <3>1 DEF Request
    <3>3. Sound(r)
      BY <3>2, Harmless DEF Busy, ViewLabels, PageLabels, SaveLabels, AddLabels, ListLabels
    <3> QED
      BY <2>3, <3>1, <3>3, BecomesSound
  <2>4. StaysSound(t)
    BY <1>9, <2>3, Ends DEF ListCacheAdd
  <2> QED
    BY <1>9, <2>2, <2>4, StepCaches DEF ListCacheAdd
<1>10. CASE ComparePrevious(t)
  <2>1. rq[t].page.id = rq[t].id
    BY <1>10, <1>r DEF ComparePrevious, At, Sound, PageLabels
  <2>2. StaysSound(t)
    BY <1>10, <1>r, <2>1, ViewBuilt, Ends DEF ComparePrevious, ViewLabels,
       GetPageContentByPageIdAndVersionNumber, FindPageContentsByPageId
  <2> QED
    BY <1>10, <2>2, StepReads DEF ComparePrevious
<1>11. CASE CompareCache(t)
  <2>1. IsSaved(rq[t].view)
    BY <1>11, <1>r DEF CompareCache, At, Sound, ViewLabels
  <2>2. CachesSaved'
    BY <1>11, <2>1, CachedPageSaved DEF CompareCache, TextsInv
  <2>3. StaysSound(t)
    BY <1>11, Ends DEF CompareCache
  <2> QED
    BY <1>11, <2>2, <2>3, StepCaches DEF CompareCache
<1> QED
  BY <1>1, <1>2, <1>3, <1>4, <1>5, <1>6, <1>7, <1>8, <1>9, <1>10, <1>11 DEF ReadOn

-----------------------------------------------------------------------------
(* The steps of UpdatePage. *)

LEMMA PageSaved ==
    ASSUME PagesAreNumbered, NEW pg, IsLive(pg.id), SaveOrUpdatePage(pg)
    PROVE  PagesAreNumbered' /\ PagesStay
<1>1. /\ pages' = {IF q.id = pg.id THEN pg ELSE q : q \in pages}
      /\ nextPage' = nextPage
  BY DEF SaveOrUpdatePage
<1>2. \A q \in pages : \E s \in pages' : s.id = q.id
  BY <1>1
<1>3. \A s \in pages' : \E q \in pages : s.id = q.id
  BY <1>1
<1> QED
  BY <1>1, <1>2, <1>3 DEF PagesAreNumbered, PagesStay

LEMMA VersionInserted ==
    ASSUME PagesAreNumbered, NEW p, NEW v, NEW text, NEW on, InsertContent(p, v, text, on)
    PROVE  PagesAreNumbered' /\ PagesStay
BY DEF InsertContent, PagesAreNumbered, PagesStay

LEMMA RowWrittenBack ==
    ASSUME PagesAreNumbered, NEW row, UpdatePageContent(row)
    PROVE  PagesAreNumbered' /\ PagesStay
BY DEF UpdatePageContent, PagesAreNumbered, PagesStay

(* A request that has read its page goes on with it. *)
LEMMA StaysAtPage ==
    ASSUME NEW t \in Threads, Sound(rq[t]), rq[t].pc \in PageLabels,
           NEW r, Become(t, r), r.page = rq[t].page, r.id = rq[t].id, r.pc \in PageLabels,
           r.pc \in SaveLabels => rq[t].pc \in SaveLabels
    PROVE  StaysSound(t)
<1>1. Sound(r)
  BY DEF Sound, ViewLabels, PageLabels, SaveLabels, AddLabels, ListLabels
<1> QED
  BY <1>1, BecomesSound

LEMMA GoesOnWithPage ==
    ASSUME NEW t \in Threads, rq[t] \in Request, Sound(rq[t]), rq[t].pc \in PageLabels,
           NEW label \in PageLabels, Goto(t, label),
           label \in SaveLabels => rq[t].pc \in SaveLabels
    PROVE  StaysSound(t)
<1>1. PICK r : r = [rq[t] EXCEPT !.pc = label]
  OBVIOUS
<1>2. r.page = rq[t].page /\ r.id = rq[t].id /\ r.pc = label
  BY <1>1 DEF Request
<1>3. Become(t, r)
  BY <1>1 DEF Goto, Become
<1> QED
  BY <1>2, <1>3, StaysAtPage

LEMMA UpdateOnTexts ==
    ASSUME TextsInv, RowsAreKept, NEW t \in Threads, UpdateOn(t)
    PROVE  KeepsTexts(t)
<1>r. /\ rq[t] \in Request /\ Sound(rq[t]) /\ TablesTypeOK
      /\ documents \in [PageIds -> Seq(View)]
  BY InHand
<1>i. /\ HistoryInv /\ PagesAreNumbered /\ CachesSaved /\ IndexSaved
  BY DEF TextsInv
<1>1. CASE UpdatePageLoad(t)
  <2>1. ASSUME NEW pg \in GetPageById(rq[t].id), NEW page, page.id = pg.id,
               Become(t, [rq[t] EXCEPT !.pc = "upd:save", !.page = page])
        PROVE  StaysSound(t)
    <3>1. PICK r : r = [rq[t] EXCEPT !.pc = "upd:save", !.page = page]
      OBVIOUS
    <3>2. r.pc = "upd:save" /\ r.page.id = r.id /\ IsLive(r.id)
      BY <1>r, <2>1, <3>1 DEF Request, GetPageById, IsLive
    <3>3. Sound(r)
      BY <3>2 DEF Sound, ViewLabels, AddLabels, ListLabels
    <3> QED
      BY <2>1, <3>1, <3>3, BecomesSound
  <2>2. \A pg : [rq[t].model.page EXCEPT !.id = pg.id, !.createdBy = pg.createdBy,
                   !.locked = IF rq[t].admin THEN @ ELSE pg.locked].id = pg.id
    BY <1>r DEF Request, View, Page
  <2>3. StaysSound(t)
    BY <1>1, <2>1, <2>2, Ends DEF UpdatePageLoad
  <2> QED
    BY <1>1, <2>3, StepReads DEF UpdatePageLoad
<1>2. CASE UpdatePageSave(t)
  <2>1. rq[t].pc = "upd:save" /\ rq[t].page.id = rq[t].id /\ IsLive(rq[t].page.id)
    BY <1>2, <1>r DEF UpdatePageSave, At, Sound, PageLabels, SaveLabels
  <2>2. PagesAreNumbered' /\ PagesStay
    BY <1>2, <1>i, <2>1, PageSaved DEF UpdatePageSave
  <2>3. StaysSound(t)
    BY <1>2, <1>r, <2>1, GoesOnWithPage DEF UpdatePageSave, PageLabels, SaveLabels
  <2> QED
    BY <1>2, <2>2, <2>3, MovesLater, StepWrites DEF UpdatePageSave
<1>3. CASE UpdatePageUncache(t)
  <2>1. CachesSaved'
    BY <1>3, <1>i, Uncached DEF UpdatePageUncache
  <2>2. StaysSound(t)
    BY <1>3, <1>r, GoesOnWithPage DEF UpdatePageUncache, At, PageLabels, SaveLabels
  <2> QED
    BY <1>3, <2>1, <2>2, StepCaches DEF UpdatePageUncache
<1>4. CASE UpdatePageUncacheHome(t)
  <2>1. CachesSaved'
    BY <1>4, <1>i, Uncached DEF UpdatePageUncacheHome
  <2>2. StaysSound(t)
    BY <1>4, <1>r, GoesOnWithPage DEF UpdatePageUncacheHome, At, PageLabels, SaveLabels
  <2> QED
    BY <1>4, <2>1, <2>2, StepCaches DEF UpdatePageUncacheHome
<1>5. CASE UpdatePageUncacheLists(t)
  <2>1. CachesSaved'
    BY <1>5, <1>i, Uncached DEF UpdatePageUncacheLists
  <2>2. StaysSound(t)
    BY <1>5, <1>r, GoesOnWithPage DEF UpdatePageUncacheLists, At, PageLabels, SaveLabels
  <2> QED
    BY <1>5, <2>1, <2>2, StepCaches DEF UpdatePageUncacheLists
<1>6. CASE UpdatePageMaxVersion(t)
  <2>1. ASSUME NEW v, Become(t, [rq[t] EXCEPT !.pc = "upd:time", !.ver = v])
        PROVE  StaysSound(t)
    <3>1. PICK r : r = [rq[t] EXCEPT !.pc = "upd:time", !.ver = v]
      OBVIOUS
    <3>2. r.pc = "upd:time" /\ r.page = rq[t].page /\ r.id = rq[t].id
      BY <1>r, <3>1 DEF Request
    <3>3. rq[t].pc = "upd:max" /\ Become(t, r)
      BY <1>6, <2>1, <3>1 DEF UpdatePageMaxVersion, At
    <3> QED
      BY <1>r, <3>2, <3>3, StaysAtPage DEF PageLabels, SaveLabels
  <2>2. StaysSound(t)
    BY <1>6, <2>1, Ends DEF UpdatePageMaxVersion
  <2> QED
    BY <1>6, <2>2, StepReads DEF UpdatePageMaxVersion
<1>7. CASE UpdatePageInsert(t)
  <2>1. PagesAreNumbered' /\ PagesStay
    BY <1>7, <1>i, VersionInserted, TablesAside DEF UpdatePageInsert,
       AddNewPageContentVersion
  <2>2. StaysSound(t)
    BY <1>7, <1>r, GoesOnWithPage, Ends DEF UpdatePageInsert, At, PageLabels, SaveLabels
  <2> QED
    BY <1>7, <2>1, <2>2, MovesLater, StepWrites DEF UpdatePageInsert
<1>8. CASE UpdateLinksRead(t)
  <2>1. ASSUME NEW linking, NEW label \in {"upd:latest", "upd:rewrite"},
               Become(t, [rq[t] EXCEPT !.rows = linking, !.pc = label])
        PROVE  StaysSound(t)
    <3>1. PICK r : r = [rq[t] EXCEPT !.rows = linking, !.pc = label]
      OBVIOUS
    <3>2. r.pc = label /\ r.page = rq[t].page /\ r.id = rq[t].id
      BY <1>r, <3>1 DEF Request
    <3>3. rq[t].pc = "upd:links" /\ Become(t, r)
      BY <1>8, <2>1, <3>1 DEF UpdateLinksRead, At
    <3> QED
      BY <1>r, <3>2, <3>3, StaysAtPage DEF PageLabels, SaveLabels
  <2>2. StaysSound(t)
    BY <1>8, <2>1 DEF UpdateLinksRead
  <2> QED
    BY <1>8, <2>2, StepReads DEF UpdateLinksRead
<1>9. CASE UpdateLinksRewrite(t)
  <2>l. rq[t].pc = "upd:rewrite"
    BY <1>9 DEF UpdateLinksRewrite, At
  <2>1. ASSUME Goto(t, "upd:clearpages"), UNCHANGED tables
        PROVE  KeepsTexts(t)
    <3>1. StaysSound(t)
      BY <1>r, <2>1, <2>l, GoesOnWithPage DEF PageLabels, SaveLabels
    <3> QED
      BY <1>9, <1>i, <2>1, <3>1, TablesAside, MovesLater, StepWrites DEF UpdateLinksRewrite
  <2>2. ASSUME NEW c \in rq[t].rows,
               UpdatePageContent([c EXCEPT !.text = ReplacePageLinks(@,
                                    rq[t].prev, rq[t].model.page.title)]),
               Become(t, [rq[t] EXCEPT !.rows = @ \ {c}])
        PROVE  KeepsTexts(t)
    <3>1. PICK r : r = [rq[t] EXCEPT !.rows = @ \ {c}]
      OBVIOUS
    <3>2. r.pc = rq[t].pc /\ r.page = rq[t].page /\ r.id = rq[t].id
      BY <1>r, <3>1 DEF Request
    <3>3. StaysSound(t)
      BY <1>r, <2>2, <2>l, <3>1, <3>2, StaysAtPage DEF PageLabels, SaveLabels
    <3>4. PagesAreNumbered' /\ PagesStay
      BY <1>i, <2>2, RowWrittenBack
    <3> QED
      BY <1>9, <3>3, <3>4, MovesLater, StepWrites DEF UpdateLinksRewrite
  <2> QED
    BY <1>9, <2>1, <2>2 DEF UpdateLinksRewrite
<1>10. CASE UpdateLinksClearPages(t)
  <2>1. CachesSaved'
    BY <1>10, <1>i, Uncached DEF UpdateLinksClearPages
  <2>2. StaysSound(t)
    BY <1>10, <1>r, GoesOnWithPage DEF UpdateLinksClearPages, At, PageLabels, SaveLabels
  <2> QED
    BY <1>10, <2>1, <2>2, StepCaches DEF UpdateLinksClearPages
<1>11. CASE UpdateLinksClearLists(t)
  <2>1. CachesSaved'
    BY <1>11, <1>i, Uncached DEF UpdateLinksClearLists
  <2>2. StaysSound(t)
    BY <1>11, <1>r, GoesOnWithPage DEF UpdateLinksClearLists, At, PageLabels, SaveLabels
  <2> QED
    BY <1>11, <2>1, <2>2, StepCaches DEF UpdateLinksClearLists
<1>12. CASE UpdatePageReread(t)
  <2>1. rq[t].page.id = rq[t].id
    BY <1>12, <1>r DEF UpdatePageReread, At, Sound, PageLabels
  <2>2. StaysSound(t)
    BY <1>12, <1>r, <2>1, ViewBuilt, Ends DEF UpdatePageReread, ViewLabels,
       GetLatestPageContent, FindPageContentsByPageId
  <2> QED
    BY <1>12, <2>2, StepReads DEF UpdatePageReread
<1>13. CASE UpdatePageUnindex(t)
  <2>1. IndexSaved'
    BY <1>13, <1>r, <1>i, Unindexed, IndexFailed DEF UpdatePageUnindex, Request
  <2>2. StaysSound(t)
    BY <1>13, <1>r, GoesOn, Ends DEF UpdatePageUnindex, At, Labels, ViewLabels, PageLabels,
       SaveLabels, AddLabels, ListLabels
  <2> QED
    BY <1>13, <2>1, <2>2, StepIndexes DEF UpdatePageUnindex
<1>14. CASE UpdatePageIndex(t)
  <2>l. rq[t].pc = "upd:index" /\ IsSaved(rq[t].view) /\ rq[t].view \in View
    BY <1>14, <1>r DEF UpdatePageIndex, At, Sound, ViewLabels, Request
  <2>1. IndexSaved'
    BY <1>14, <1>r, <1>i, <2>l, IndexedViewSaved, IndexFailed DEF UpdatePageIndex
  <2>2. StaysSound(t)
    BY <1>14, <1>r, <2>l, GoesOn, Ends DEF UpdatePageIndex, Labels, ViewLabels, PageLabels,
       SaveLabels, AddLabels, ListLabels
  <2> QED
    BY <1>14, <2>1, <2>2, StepIndexes DEF UpdatePageIndex
<1>15. CASE UpdatePageTakeTime(t)
  <2>1. PagesAreNumbered' /\ PagesStay
    BY <1>15, <1>i, TablesAside DEF UpdatePageTakeTime
  <2>2. StaysSound(t)
    <3>1. PICK on : Become(t, [rq[t] EXCEPT !.pc = "upd:insert", !.on = on])
      BY <1>15 DEF UpdatePageTakeTime
    <3>2. PICK r : r = [rq[t] EXCEPT !.pc = "upd:insert", !.on = on]
      OBVIOUS
    <3>3. r.pc = "upd:insert" /\ r.page = rq[t].page /\ r.id = rq[t].id
      BY <1>r, <3>2 DEF Request
    <3>4. rq[t].pc = "upd:time" /\ Become(t, r)
      BY <1>15, <3>1, <3>2 DEF UpdatePageTakeTime, At
    <3> QED
      BY <1>r, <3>3, <3>4, StaysAtPage DEF PageLabels, SaveLabels
  <2> QED
    BY <1>15, <2>1, <2>2, MovesLater, StepWrites DEF UpdatePageTakeTime
<1> QED
  BY <1>1, <1>2, <1>3, <1>4, <1>5, <1>6, <1>7, <1>8, <1>9, <1>10, <1>11, <1>12, <1>13, <1>14,
     <1>15 DEF UpdateOn

-----------------------------------------------------------------------------
(* The other steps of the requests that write. *)

(* A view model whose tags are replaced keeps its text. *)
LEMMA RetaggedSaved ==
    ASSUME NEW t, rq[t].model \in View, IsSaved(rq[t].model)
    PROVE  IsSaved(Retagged(t))
<1>1. PICK retagged : retagged = Retagged(t)
  OBVIOUS
<1>2. /\ retagged.page.id = rq[t].model.page.id /\ retagged.version = rq[t].model.version
      /\ retagged.text = rq[t].model.text
  BY <1>1 DEF Retagged, View, Page
<1> QED
  BY <1>1, <1>2 DEF IsSaved

LEMMA RetaggedListSaved ==
    ASSUME CachesSaved, CachesTypeOK, RowsAreKept, NEW t, rq[t].model \in View,
           RetagCached(t)
    PROVE  CachesSaved'
<1>1. PICK view, retagged : view = rq[t].model /\ retagged = Retagged(t)
  OBVIOUS
<1>2. IsSaved(view) => IsSaved(retagged)
  BY <1>1, RetaggedSaved
<1>3. /\ listCache' = {IF view \in rq[t].views \cap e.views /\ e.key = LookupKey(rq[t].key)
                       THEN [e EXCEPT !.views = (@ \ {view}) \cup {retagged}]
                       ELSE e : e \in listCache}
      /\ UNCHANGED <<pageCache, homeCache>>
  BY <1>1 DEF RetagCached
<1>4. \A f \in listCache' : \E e \in listCache :
         f = e \/ (view \in e.views /\ f = [e EXCEPT !.views = (@ \ {view}) \cup {retagged}])
  BY <1>3
<1>5. ASSUME NEW f \in listCache', WithContent(f.key)
      PROVE  AllSaved(f.views)
  <2>1. PICK e \in listCache :
         f = e \/ (view \in e.views /\ f = [e EXCEPT !.views = (@ \ {view}) \cup {retagged}])
    BY <1>4
  <2>2. e \in [key : ListKey, views : SUBSET View]
    BY DEF CachesTypeOK
  <2>3. f.key = e.key
    BY <2>1, <2>2
  <2>4. AllSaved(e.views)
    BY <1>5, <2>3 DEF CachesSaved
  <2>5. f.views = e.views \/ (view \in e.views /\ f.views = (e.views \ {view}) \cup {retagged})
    BY <2>1, <2>2
  <2> QED
    BY <1>2, <2>4, <2>5 DEF AllSaved
<1>6. \A f \in listCache' : WithContent(f.key) => AllSaved(f.views)'
  BY <1>5, AllSavedLater
<1>7. \A e \in pageCache : IsSaved(e.view)'
  BY SavedLater DEF CachesSaved
<1>8. AllSaved(homeCache)'
  BY <1>3, SavedLater DEF CachesSaved, AllSaved
<1> QED
  BY <1>3, <1>6, <1>7, <1>8 DEF CachesSaved

(* The model that is to be indexed is a version from now on. *)
LEMMA FirstVersionSaved ==
    ASSUME NEW view, NEW p, view.page.id = p, view.version = 1,
           NEW on, InsertContent(p, 1, view.text, on)
    PROVE  IsSaved(view)'
<1>1. contents' = contents \cup
         {[id |-> nextRow, pageId |-> p, version |-> 1, text |-> view.text,
           editedOn |-> on]}
  BY DEF InsertContent
<1>2. PICK row : row = [id |-> nextRow, pageId |-> p, version |-> 1, text |-> view.text,
                        editedOn |-> on]
  OBVIOUS
<1>3. row \in contents' /\ row.pageId = p /\ row.version = 1 /\ row.text = view.text
  BY <1>1, <1>2
<1> QED
  BY <1>3 DEF IsSaved

LEMMA WriteOnTexts ==
    ASSUME TextsInv, RowsAreKept, NEW t \in Threads, WriteOn(t)
    PROVE  KeepsTexts(t)
<1>r. /\ rq[t] \in Request /\ Sound(rq[t]) /\ TablesTypeOK
      /\ documents \in [PageIds -> Seq(View)]
  BY InHand
<1>i. /\ HistoryInv /\ PagesAreNumbered /\ CachesSaved /\ IndexSaved /\ CachesTypeOK
  BY DEF TextsInv, HistoryInv, TypeOK
<1>1. CASE AddPageContent(t)
  <2>l. /\ rq[t].pc = "add:content"
        /\ rq[t].model.page.id = rq[t].id /\ rq[t].model.version = 1
    BY <1>1, <1>r DEF AddPageContent, At, Sound
  <2>1. CASE Throw(t) /\ UNCHANGED tables
    <3>1. PagesAreNumbered' /\ PagesStay
      BY <1>i, <2>1, TablesAside
    <3>2. StaysSound(t)
      BY <2>1, Ends
    <3> QED
      BY <1>1, <3>1, <3>2, MovesLater, StepWrites DEF AddPageContent
  <2>2. CASE InsertContent(rq[t].id, 1, rq[t].model.text, rq[t].on) /\ Goto(t, "add:lists")
    <3>1. PagesAreNumbered' /\ PagesStay
      BY <1>i, <2>2, VersionInserted
    <3>2. PICK r : r = [rq[t] EXCEPT !.pc = "add:lists"]
      OBVIOUS
    <3>3. r.pc = "add:lists" /\ r.model = rq[t].model
      BY <1>r, <3>2 DEF Request
    <3>4. IsSaved(r.model)'
      BY <2>l, <2>2, <3>3, FirstVersionSaved
    <3>5. Sound(r)'
      BY <3>3, <3>4 DEF Sound, ViewLabels, PageLabels, SaveLabels, ListLabels
    <3>6. rq' = [rq EXCEPT ![t] = r]
      BY <2>2, <3>2 DEF Goto
    <3> QED
      BY <1>1, <3>1, <3>5, <3>6, StepWrites DEF AddPageContent
  <2> QED
    BY <1>1, <2>1, <2>2 DEF AddPageContent
<1>2. CASE AddPageClearLists(t)
  <2>1. CachesSaved'
    BY <1>2, <1>i, Uncached DEF AddPageClearLists
  <2>2. StaysSound(t)
    BY <1>2, <1>r, GoesOn DEF AddPageClearLists, At, Labels, ViewLabels, PageLabels,
       SaveLabels, AddLabels, ListLabels
  <2> QED
    BY <1>2, <2>1, <2>2, StepCaches DEF AddPageClearLists
<1>3. CASE AddPageClearPages(t)
  <2>1. CachesSaved'
    BY <1>3, <1>i, Uncached DEF AddPageClearPages
  <2>2. StaysSound(t)
    BY <1>3, <1>r, GoesOn DEF AddPageClearPages, At, Labels, ViewLabels, PageLabels,
       SaveLabels, AddLabels, ListLabels
  <2> QED
    BY <1>3, <2>1, <2>2, StepCaches DEF AddPageClearPages
<1>4. CASE AddPageIndex(t)
  <2>l. IsSaved(rq[t].model) /\ rq[t].model \in View
    BY <1>4, <1>r DEF AddPageIndex, At, Sound, AddLabels, Request
  <2>1. IndexSaved'
    BY <1>4, <1>r, <1>i, <2>l, IndexedViewSaved, IndexFailed DEF AddPageIndex
  <2>2. StaysSound(t)
    BY <1>4, Ends DEF AddPageIndex
  <2> QED
    BY <1>4, <2>1, <2>2, StepIndexes DEF AddPageIndex
<1>5. CASE RevertMaxVersion(t)
  <2>l. rq[t].pc = "rev:max" /\ IsLive(rq[t].id)
    BY <1>5, <1>r DEF RevertMaxVersion, At, Sound, SaveLabels
  <2>1. ASSUME NEW v, Become(t, [rq[t] EXCEPT !.pc = "rev:time", !.ver = v])
        PROVE  StaysSound(t)
    <3>1. PICK r : r = [rq[t] EXCEPT !.pc = "rev:time", !.ver = v]
      OBVIOUS
    <3>2. r.pc = "rev:time" /\ r.id = rq[t].id
      BY <1>r, <3>1 DEF Request
    <3>3. Sound(r)
      BY <2>l, <3>2 DEF Sound, ViewLabels, PageLabels, AddLabels, ListLabels
    <3> QED
      BY <2>1, <3>1, <3>3, BecomesSound
  <2>2. StaysSound(t)
    BY <1>5, <2>1, Ends DEF RevertMaxVersion
  <2> QED
    BY <1>5, <2>2, StepReads DEF RevertMaxVersion
<1>6. CASE RevertInsert(t)
  <2>1. PagesAreNumbered' /\ PagesStay
    BY <1>6, <1>i, VersionInserted, TablesAside DEF RevertInsert,
       AddNewPageContentVersion
  <2>2. StaysSound(t)
    BY <1>6, <1>r, GoesOn, Ends DEF RevertInsert, Labels, ViewLabels, PageLabels, SaveLabels,
       AddLabels, ListLabels
  <2> QED
    BY <1>6, <2>1, <2>2, MovesLater, StepWrites DEF RevertInsert
<1>7. CASE RevertCache(t)
  <2>1. CachesSaved'
    BY <1>7, <1>i, Uncached DEF RevertCache
  <2>2. StaysSound(t)
    BY <1>7, Ends DEF RevertCache
  <2> QED
    BY <1>7, <2>1, <2>2, StepCaches DEF RevertCache
<1>8. CASE RenameTagNext(t)
  <2>2. ASSUME NEW r, r.pc = "tag:unindex", Become(t, r)
        PROVE  StaysSound(t)
    <3>1. Sound(r)
      BY <2>2, Harmless DEF Busy, ViewLabels, PageLabels, SaveLabels, AddLabels, ListLabels
    <3> QED
      BY <2>2, <3>1, BecomesSound
  <2>3. \A view : NextRenamed(t, view).pc = "tag:unindex"
    BY <1>r DEF NextRenamed, Request
  <2>4. \A view, pg : [NextRenamed(t, view) EXCEPT !.todo = @ \ {pg}].pc = "tag:unindex"
    BY <1>r DEF NextRenamed, Request
  <2>5. ASSUME NEW view \in rq[t].views, Become(t, NextRenamed(t, view))
        PROVE  StaysSound(t)
    BY <2>2, <2>3, <2>5
  <2>6. ASSUME NEW pg \in rq[t].todo, RenameTagQueried(t, pg)
        PROVE  StaysSound(t)
    BY <2>2, <2>4, <2>6, Ends DEF RenameTagQueried
  <2>7. ASSUME Goto(t, "tag:done")
        PROVE  StaysSound(t)
    BY <1>r, <2>7, GoesOn DEF Labels, ViewLabels, PageLabels, SaveLabels, AddLabels, ListLabels
  <2>8. StaysSound(t)
    BY <1>8, <2>5, <2>6, <2>7 DEF RenameTagNext
  <2> QED
    BY <1>8, <2>8, StepReads DEF RenameTagNext
<1>9. CASE RenameTagUnindex(t)
  <2>1. IndexSaved'
    BY <1>9, <1>r, <1>i, Unindexed, IndexFailed DEF RenameTagUnindex, Request
  <2>2. CachesSaved'
    <3>1. CASE RetagCached(t)
      BY <1>r, <1>i, <3>1, RetaggedListSaved DEF Request
    <3>2. CASE UNCHANGED caches
      BY <1>i, <3>2, CachesAside
    <3> QED
      BY <1>9, <3>1, <3>2 DEF RenameTagUnindex
  <2>3. ASSUME NEW r, r.pc = "upd:page", Become(t, r)
        PROVE  StaysSound(t)
    <3>1. Sound(r)
      BY <2>3, Harmless DEF Busy, ViewLabels, PageLabels, SaveLabels, AddLabels, ListLabels
    <3> QED
      BY <2>3, <3>1, BecomesSound
  <2>4. \A view, views :
          [rq[t] EXCEPT !.pc = "upd:page", !.model = view, !.views = views].pc = "upd:page"
    BY <1>r DEF Request
  <2>5. StaysSound(t)
    BY <1>9, <2>3, <2>4, Ends DEF RenameTagUnindex
  <2> QED
    BY <1>9, <1>i, <2>1, <2>2, <2>5, TablesAside, MovesLater DEF RenameTagUnindex, TextsInv,
       KeepsTexts
<1>10. CASE RenameTagUncache(t)
  <2>1. CachesSaved'
    BY <1>10, <1>i, Uncached DEF RenameTagUncache
  <2>2. StaysSound(t)
    BY <1>10, Ends DEF RenameTagUncache
  <2> QED
    BY <1>10, <2>1, <2>2, StepCaches DEF RenameTagUncache
<1>11. CASE DeletePageLatest(t)
  BY <1>11, <1>i DEF DeletePageLatest, At, HistoryInv, NothingIsDeleted, DeleteLabels
<1>12. CASE DeletePageUnindex(t)
  BY <1>12, <1>i DEF DeletePageUnindex, At, HistoryInv, NothingIsDeleted, DeleteLabels
<1>13. CASE DeletePageChildren(t)
  BY <1>13, <1>i DEF DeletePageChildren, At, HistoryInv, NothingIsDeleted, DeleteLabels
<1>14. CASE DeletePageContents(t)
  BY <1>14, <1>i DEF DeletePageContents, At, HistoryInv, NothingIsDeleted, DeleteLabels
<1>15. CASE DeletePageRow(t)
  BY <1>15, <1>i DEF DeletePageRow, At, HistoryInv, NothingIsDeleted, DeleteLabels
<1>16. CASE DeletePageClearLists(t)
  <2>1. CachesSaved'
    BY <1>16, <1>i, Uncached DEF DeletePageClearLists
  <2>2. StaysSound(t)
    BY <1>16, <1>r, GoesOn DEF DeletePageClearLists, At, Labels, ViewLabels, PageLabels,
       SaveLabels, AddLabels, ListLabels
  <2> QED
    BY <1>16, <2>1, <2>2, StepCaches DEF DeletePageClearLists
<1>17. CASE DeletePageClearPages(t)
  <2>1. CachesSaved'
    BY <1>17, <1>i, Uncached DEF DeletePageClearPages
  <2>2. StaysSound(t)
    BY <1>17, Ends DEF DeletePageClearPages
  <2> QED
    BY <1>17, <2>1, <2>2, StepCaches DEF DeletePageClearPages
<1>18. CASE ClearPagesContents(t)
  BY <1>18, <1>i DEF ClearPagesContents, At, HistoryInv, NothingIsDeleted, DeleteLabels
<1>19. CASE ClearPagesLists(t)
  <2>1. CachesSaved'
    BY <1>19, <1>i, Uncached DEF ClearPagesLists
  <2>2. StaysSound(t)
    BY <1>19, <1>r, GoesOn DEF ClearPagesLists, At, Labels, ViewLabels, PageLabels,
       SaveLabels, AddLabels, ListLabels
  <2> QED
    BY <1>19, <2>1, <2>2, StepCaches DEF ClearPagesLists
<1>20. CASE ClearPagesPages(t)
  <2>1. CachesSaved'
    BY <1>20, <1>i, Uncached DEF ClearPagesPages
  <2>2. StaysSound(t)
    BY <1>20, Ends DEF ClearPagesPages
  <2> QED
    BY <1>20, <2>1, <2>2, StepCaches DEF ClearPagesPages
<1>21. CASE ClearCacheLists(t)
  <2>1. CachesSaved'
    BY <1>21, <1>i, Uncached DEF ClearCacheLists
  <2>2. StaysSound(t)
    BY <1>21, Ends DEF ClearCacheLists
  <2> QED
    BY <1>21, <2>1, <2>2, StepCaches DEF ClearCacheLists
<1>22. CASE CreateIndexContent(t)
  <2>l. rq[t].pc = "idx:contents" /\ AllSaved(rq[t].views)
    BY <1>22, <1>r DEF CreateIndexContent, At, Sound
  <2>1. IndexSaved'
    BY <1>22, <1>i, <2>l, ReplacedIndexSaved, IndexAside DEF CreateIndexContent, index
  <2>2. ASSUME Goto(t, "idx:close") PROVE StaysSound(t)
    BY <1>r, <2>l, <2>2, GoesOn DEF Labels, ViewLabels, PageLabels, SaveLabels, AddLabels,
       ListLabels
  <2>3. StaysSound(t)
    BY <1>22, <1>r, <2>l, <2>2, ItemAdded, Ends DEF CreateIndexContent
  <2> QED
    BY <1>22, <2>1, <2>3, StepIndexes DEF CreateIndexContent
<1>23. CASE CreateIndexClose(t)
  <2>l. AllSaved(rq[t].views)
    BY <1>23, <1>r DEF CreateIndexClose, At, Sound
  <2>1. IndexSaved'
    BY <1>23, <1>i, <2>l, ReplacedIndexSaved, IndexAside DEF CreateIndexClose, IndexAbandon
  <2>2. StaysSound(t)
    BY <1>23, Ends DEF CreateIndexClose
  <2> QED
    BY <1>23, <2>1, <2>2, StepIndexes DEF CreateIndexClose
<1>24. CASE RevertTakeTime(t)
  <2>1. PagesAreNumbered' /\ PagesStay
    BY <1>24, <1>i, TablesAside DEF RevertTakeTime
  <2>2. StaysSound(t)
    <3>1. PICK on : Become(t, [rq[t] EXCEPT !.pc = "rev:insert", !.on = on])
      BY <1>24 DEF RevertTakeTime
    <3>2. PICK r : r = [rq[t] EXCEPT !.pc = "rev:insert", !.on = on]
      OBVIOUS
    <3>3. r.pc = "rev:insert" /\ r.id = rq[t].id
      BY <1>r, <3>2 DEF Request
    <3>4. IsLive(rq[t].id)
      BY <1>24, <1>r DEF RevertTakeTime, At, Sound, SaveLabels
    <3>5. Sound(r)
      BY <3>3, <3>4 DEF Sound, ViewLabels, PageLabels, AddLabels, ListLabels
    <3> QED
      BY <3>1, <3>2, <3>5, BecomesSound
  <2> QED
    BY <1>24, <2>1, <2>2, MovesLater, StepWrites DEF RevertTakeTime
<1>25. CASE DatabaseFails(t)
  BY <1>25, Ends, StepReads DEF DatabaseFails
<1> QED
  BY <1>1, <1>2, <1>3, <1>4, <1>5, <1>6, <1>7, <1>8, <1>9, <1>10, <1>11, <1>12, <1>13, <1>14,
     <1>15, <1>16, <1>17, <1>18, <1>19, <1>20, <1>21, <1>22, <1>23, <1>24, <1>25 DEF WriteOn, WriteStep

-----------------------------------------------------------------------------
(* The first step of a request. *)

LEMMA PageInserted ==
    ASSUME TablesTypeOK, PagesAreNumbered, NEW page \in Page, InsertPage(page), NEW p, p = nextPage
    PROVE  PagesAreNumbered' /\ PagesStay /\ IsLive(p)'
<1>1. PICK row : row = [page EXCEPT !.id = nextPage]
  OBVIOUS
<1>2. row.id = nextPage
  BY <1>1 DEF Page
<1>3. /\ pages' = pages \cup {row} /\ nextPage' = nextPage + 1
  BY <1>1 DEF InsertPage
<1>4. nextPage \in Nat /\ \A pg \in pages : pg.id \in Nat /\ pg.id < nextPage
  BY DEF TablesTypeOK, Page, PageIds, PagesAreNumbered
<1>5. \A pg \in pages' : pg.id < nextPage'
  BY <1>2, <1>3, <1>4
<1>6. IsLive(p)'
  BY <1>2, <1>3 DEF IsLive
<1> QED
  BY <1>3, <1>5, <1>6 DEF PagesAreNumbered, PagesStay

LEMMA NewPage ==
    ASSUME TypeOK, NEW t, AddPageRow(t)
    PROVE  /\ nextPage \in PageIds
           /\ \E page, text, on :
                page \in Page /\ page.id = nextPage /\ InsertNewPage(t, page, text, on)
<1>1. nextPage \in PageIds
  BY DEF AddPageRow, TypeOK, TablesTypeOK, PageIds
<1>2. ASSUME NEW title \in Titles, NEW tags \in NewTags, NEW user \in Users,
             NEW locked \in {FALSE} \cup Admins
      PROVE  [id |-> nextPage, title |-> title, tags |-> tags, locked |-> locked,
              createdBy |-> user] \in Page
  BY <1>1, ServiceAssumption DEF Page
<1>3. \E title \in Titles, tags \in NewTags, user \in Users, text \in TypedTexts,
         locked \in {FALSE} \cup Admins, on \in UtcNow :
        InsertNewPage(t, [id |-> nextPage, title |-> title, tags |-> tags,
                          locked |-> locked, createdBy |-> user], text, on)
  BY DEF AddPageRow
<1> QED
  BY <1>1, <1>2, <1>3

LEMMA BeginsHarmless ==
    ASSUME NEW t \in Threads, NEW r, Begin(t, r), r.pc \notin Busy
    PROVE  StaysSound(t)
BY Harmless, BecomesSound

(* A request that has collected nothing yet. *)
LEMMA BeginsEmpty ==
    ASSUME NEW t \in Threads, NEW r, Begin(t, r), r.pc \in {"list:pages", "idx:contents"},
           r.views = {}
    PROVE  StaysSound(t)
<1>1. AllSaved(r.views)
  BY DEF AllSaved
<1>2. Sound(r)
  BY <1>1 DEF Sound, ViewLabels, PageLabels, SaveLabels, AddLabels
<1> QED
  BY <1>2, BecomesSound

LEMMA ArriveOnTexts ==
    ASSUME TextsInv, KeepsPages, RowsAreKept, NEW t \in Threads, Arrives(t)
    PROVE  KeepsTexts(t)
<1>i. /\ HistoryInv /\ PagesAreNumbered /\ CachesSaved /\ IndexSaved /\ TypeOK /\ TablesTypeOK
  BY DEF TextsInv, HistoryInv, TypeOK
<1>b. Idle \in Request /\ Idle.views = {}
  BY BlankTypes DEF Idle
<1>1. CASE GetByIdMiss(t)
  <2>1. StaysSound(t)
    BY <1>1, <1>b, BeginsHarmless DEF GetByIdMiss, Request, Busy, ViewLabels, PageLabels,
       SaveLabels, AddLabels, ListLabels
  <2> QED
    BY <1>1, <2>1, StepReads DEF GetByIdMiss
<1>2. CASE HomePageMiss(t)
  <2>1. ASSUME NEW pg,
               Begin(t, [Idle EXCEPT !.op = "home", !.pc = "home:content",
                                     !.id = pg.id, !.page = pg])
        PROVE  StaysSound(t)
    <3>1. PICK r : r = [Idle EXCEPT !.op = "home", !.pc = "home:content",
                                    !.id = pg.id, !.page = pg]
      OBVIOUS
    <3>2. r.pc = "home:content" /\ r.page.id = r.id
      BY <1>b, <3>1 DEF Request
    <3>3. Sound(r)
      BY <3>2 DEF Sound, ViewLabels, SaveLabels, AddLabels, ListLabels
    <3> QED
      BY <2>1, <3>1, <3>3, BecomesSound
  <2>2. StaysSound(t)
    BY <1>2, <1>b, <2>1, BeginsHarmless DEF HomePageMiss, Request, Busy, ViewLabels, PageLabels,
       SaveLabels, AddLabels, ListLabels
  <2> QED
    BY <1>2, <2>2, StepReads DEF HomePageMiss
<1>3. CASE ListMiss(t)
  <2>1. StaysSound(t)
    BY <1>3, <1>b, BeginsEmpty DEF ListMiss, Request
  <2> QED
    BY <1>3, <2>1, StepReads DEF ListMiss
<1>4. CASE CompareMiss(t)
  <2>1. ASSUME NEW c, NEW pg \in GetPageById(c.pageId),
               Begin(t, [Idle EXCEPT !.op = "compare", !.pc = "cmp:previous",
                                     !.id = c.pageId, !.page = pg,
                                     !.ver = c.version - 1])
        PROVE  StaysSound(t)
    <3>1. PICK r : r = [Idle EXCEPT !.op = "compare", !.pc = "cmp:previous",
                                     !.id = c.pageId, !.page = pg,
                                     !.ver = c.version - 1]
      OBVIOUS
    <3>2. r.pc = "cmp:previous" /\ r.page.id = r.id
      BY <1>b, <3>1 DEF Request, GetPageById
    <3>3. Sound(r)
      BY <3>2 DEF Sound, ViewLabels, SaveLabels, AddLabels, ListLabels
    <3> QED
      BY <2>1, <3>1, <3>3, BecomesSound
  <2>2. StaysSound(t)
    BY <1>4, <2>1 DEF CompareMiss
  <2> QED
    BY <1>4, <2>2, StepReads DEF CompareMiss
<1>5. CASE AddPageRow(t)
  <2>1. PICK page, text, on :
          page \in Page /\ page.id = nextPage /\ InsertNewPage(t, page, text, on)
    BY <1>5, <1>i, NewPage
  <2>p. PICK p : p = nextPage
    OBVIOUS
  <2>2. PagesAreNumbered' /\ PagesStay /\ IsLive(p)'
    BY <1>i, <2>1, <2>p, PageInserted DEF InsertNewPage
  <2>3. PICK model : model = [page |-> page, text |-> text, version |-> 1]
    OBVIOUS
  <2>4. PICK r : r = [Idle EXCEPT !.op = "add", !.pc = "add:content", !.on = on,
                                  !.id = nextPage, !.page = page, !.model = model]
    OBVIOUS
  <2>5. r.pc = "add:content" /\ r.id = nextPage /\ r.model = model
    BY <1>b, <2>4 DEF Request
  <2>6. r.model.page.id = r.id /\ r.model.version = 1
    BY <2>1, <2>3, <2>5
  <2>7. IsLive(r.id)'
    BY <2>2, <2>p, <2>5
  <2>8. Sound(r)'
    BY <2>5, <2>6, <2>7 DEF Sound, ViewLabels, PageLabels, AddLabels, ListLabels
  <2>9. rq' = [rq EXCEPT ![t] = r]
    BY <2>1, <2>3, <2>4 DEF InsertNewPage, Begin, Become
  <2> QED
    BY <1>5, <2>2, <2>8, <2>9, StepWrites DEF AddPageRow
<1>6. CASE UpdateForm(t)
  <2>1. StaysSound(t)
    BY <1>6, <1>b, BeginsHarmless DEF UpdateForm, Request, Busy, ViewLabels, PageLabels,
       SaveLabels, AddLabels, ListLabels
  <2> QED
    BY <1>6, <2>1, StepReads DEF UpdateForm
<1>7. CASE RevertVersion(t)
  <2>1. PICK c, pg, view : /\ pg \in GetPageById(c.pageId)
                           /\ Begin(t, [Idle EXCEPT !.op = "revert", !.pc = "rev:max",
                                          !.id = c.pageId, !.page = pg, !.view = view])
    BY <1>7 DEF RevertVersion
  <2>2. PICK r : r = [Idle EXCEPT !.op = "revert", !.pc = "rev:max",
                                  !.id = c.pageId, !.page = pg, !.view = view]
    OBVIOUS
  <2>3. r.pc = "rev:max" /\ IsLive(r.id)
    BY <1>b, <2>1, <2>2 DEF Request, GetPageById, IsLive
  <2>4. Sound(r)
    BY <2>3 DEF Sound, ViewLabels, PageLabels, AddLabels, ListLabels
  <2>5. StaysSound(t)
    BY <2>1, <2>2, <2>4, BecomesSound
  <2> QED
    BY <1>7, <2>5, StepReads DEF RevertVersion
<1>8. CASE RenameTagFind(t)
  <2>1. PICK request, e :
          /\ request \in Request /\ request.views = {}
          /\ \/ Begin(t, [request EXCEPT !.pc = "list:pages"])
             \/ Begin(t, [request EXCEPT !.pc = "tag:next", !.views = e.views])
    <3>1. PICK old, new, request :
            /\ old \in Tags /\ new \in Tags
            /\ request = [Idle EXCEPT !.op = "renametag", !.key = TagListKey(old),
                                      !.newTag = new, !.admin = TRUE]
            /\ \/ Begin(t, [request EXCEPT !.pc = "list:pages"])
               \/ \E e \in CachedList(TagListKey(old)) :
                    Begin(t, [request EXCEPT !.pc = "tag:next", !.views = e.views])
      BY <1>8 DEF RenameTagFind
    <3>2. request \in Request /\ request.views = {}
      BY <1>b, <3>1 DEF Request, AllOps, TagListKey, ListKey, ListNames
    <3> QED
      BY <3>1, <3>2
  <2>2. StaysSound(t)
    BY <2>1, BeginsHarmless, BeginsEmpty DEF Request, Busy, ViewLabels, PageLabels, SaveLabels,
       AddLabels, ListLabels
  <2> QED
    BY <1>8, <2>2, StepReads DEF RenameTagFind
<1>9. CASE DeletePageLoad(t)
  BY <1>9, <1>b DEF DeletePageLoad, Begin, KeepsPages, Never, Request
<1>10. CASE ClearPagesRows(t)
  BY <1>10, <1>b DEF ClearPagesRows, Begin, KeepsPages, Never, Request
<1>11. CASE ClearCachePages(t)
  <2>1. CachesSaved'
    BY <1>11, <1>i, Uncached DEF ClearCachePages
  <2>2. StaysSound(t)
    BY <1>11, <1>b, BeginsHarmless DEF ClearCachePages, Request, Busy, ViewLabels, PageLabels,
       SaveLabels, AddLabels, ListLabels
  <2> QED
    BY <1>11, <2>1, <2>2, StepCaches DEF ClearCachePages
<1>12. CASE CreateIndexPages(t)
  <2>1. IndexSaved'
    BY <1>12, <1>i, IndexAside, IndexFailed DEF CreateIndexPages, IndexOpen
  <2>2. StaysSound(t)
    BY <1>12, <1>b, BeginsHarmless, BeginsEmpty DEF CreateIndexPages, Request, Busy, ViewLabels,
       PageLabels, SaveLabels, AddLabels, ListLabels
  <2> QED
    BY <1>12, <2>1, <2>2, StepIndexes DEF CreateIndexPages
<1> QED
  BY <1>1, <1>2, <1>3, <1>4, <1>5, <1>6, <1>7, <1>8, <1>9, <1>10, <1>11, <1>12
     DEF Arrives, Arrive

-----------------------------------------------------------------------------
(* The invariant. *)

LEMMA IdleIsSound == Sound(Idle)
BY DEF Sound, Idle, ViewLabels, PageLabels, SaveLabels, AddLabels, ListLabels

LEMMA InitTexts == Init => TextsInv
<1> SUFFICES ASSUME Init PROVE TextsInv
  OBVIOUS
<1>1. HistoryInv
  BY InitHistory
<1>s. /\ DOMAIN Seed = 1..Len(Seed) /\ Len(Seed) \in Nat
      /\ \A i \in DOMAIN Seed : Seed[i].page.id = i
  BY RepositoryAssumption
<1>2. ASSUME NEW i \in DOMAIN Seed
      PROVE  \E c \in contents : c.pageId = i /\ c.version = 1 /\ c.text = Seed[i].text
  <2>1. PICK row : row = [id |-> i, pageId |-> i, version |-> 1, text |-> Seed[i].text,
                          editedOn |-> 0]
    OBVIOUS
  <2>2. row \in contents
    BY <2>1 DEF Init, TablesInit
  <2>3. row.pageId = i /\ row.version = 1 /\ row.text = Seed[i].text
    BY <2>1
  <2> QED
    BY <2>2, <2>3
<1>3. PagesAreNumbered
  <2>1. \A pg \in pages : \E i \in DOMAIN Seed : pg = Seed[i].page
    BY DEF Init, TablesInit
  <2>2. \A pg \in pages : pg.id \in 1..Len(Seed)
    BY <1>s, <2>1
  <2> QED
    BY <1>s, <2>2 DEF Init, TablesInit, PagesAreNumbered
<1>4. CachesSaved
  BY DEF Init, CachesInit, CachesSaved, AllSaved
<1>5. IndexSaved
  <2> SUFFICES ASSUME NEW p \in PageIds, NEW i \in DOMAIN documents[p]
               PROVE  IsSaved(documents[p][i])
    BY DEF IndexSaved
  <2>1. documents[p] = IF p \in DOMAIN Seed
                       THEN <<[page |-> Seed[p].page, text |-> Seed[p].text, version |-> 1]>>
                       ELSE <<>>
    BY DEF Init, IndexInit
  <2>2. p \in DOMAIN Seed
    BY <2>1
  <2>3. PICK view : view = [page |-> Seed[p].page, text |-> Seed[p].text, version |-> 1]
    OBVIOUS
  <2>4. documents[p][i] = view
    BY <2>1, <2>2, <2>3
  <2>5. view.page.id = p /\ view.text = Seed[p].text /\ view.version = 1
    BY <1>s, <2>2, <2>3
  <2>6. IsSaved(view)
    BY <1>2, <2>2, <2>5 DEF IsSaved
  <2> QED
    BY <2>4, <2>6
<1>6. \A t \in Threads : Sound(rq[t])
  BY IdleIsSound DEF Init
<1> QED
  BY <1>1, <1>3, <1>4, <1>5, <1>6 DEF TextsInv

LEMMA RequestsStaySound ==
    ASSUME TextsInv, RowsAreKept, NEW t \in Threads, KeepsTexts(t)
    PROVE  \A s \in Threads : Sound(rq[s])'
<1>1. PICK r : rq' = [rq EXCEPT ![t] = r] /\ Sound(r)'
  BY DEF KeepsTexts
<1> SUFFICES ASSUME NEW s \in Threads PROVE Sound(rq[s])'
  OBVIOUS
<1>2. PICK old : old = rq[s]
  OBVIOUS
<1>3. Sound(old)'
  BY <1>2, SoundLater DEF TextsInv, KeepsTexts
<1>4. rq'[s] = r \/ rq'[s] = old
  BY <1>1, <1>2 DEF TextsInv, HistoryInv, TypeOK
<1>5. PICK new : new = rq'[s]
  OBVIOUS
<1>6. Sound(new)'
  BY <1>1, <1>3, <1>4, <1>5
<1> QED
  BY <1>5, <1>6 DEF Sound, IsSaved, IsLive, AllSaved

LEMMA NextTexts ==
    ASSUME TextsInv, KeepsPages, [Next]_vars
    PROVE  TextsInv' /\ RowsAreKept
<1>1. HistoryInv' /\ RowsAreKept
  BY NextHistory DEF TextsInv
<1>2. ASSUME NEW t \in Threads, Arrives(t) \/ GoOn(t)
      PROVE  TextsInv'
  <2>1. KeepsTexts(t)
    BY <1>1, <1>2, ArriveOnTexts, ReadOnTexts, UpdateOnTexts, WriteOnTexts DEF GoOn
  <2>2. \A s \in Threads : Sound(rq[s])'
    BY <1>1, <2>1, RequestsStaySound
  <2> QED
    BY <1>1, <2>1, <2>2 DEF TextsInv, KeepsTexts
<1>3. CASE Recycle
  <2>1. PagesAreNumbered' /\ PagesStay
    BY <1>3, TablesAside DEF Recycle, TextsInv
  <2>2. CachesSaved'
    BY <1>3 DEF Recycle, CachesSaved, AllSaved
  <2>3. IndexSaved'
    BY <1>1, <1>3, IndexAside DEF Recycle, TextsInv
  <2>4. \A t \in Threads : rq'[t] = Idle
    BY <1>3 DEF Recycle
  <2>5. Sound(Idle)'
    BY DEF Sound, Idle, ViewLabels, PageLabels, SaveLabels, AddLabels, ListLabels
  <2>6. \A t \in Threads : Sound(rq[t])'
    BY <2>4, <2>5 DEF Sound, IsSaved, IsLive, AllSaved
  <2> QED
    BY <1>1, <2>1, <2>2, <2>3, <2>6 DEF TextsInv
<1>4. CASE UNCHANGED site
  <2>1. UNCHANGED <<tables, caches, documents, rq>>
    BY <1>4 DEF site, index
  <2>2. PagesAreNumbered' /\ PagesStay /\ CachesSaved' /\ IndexSaved'
    BY <1>1, <2>1, TablesAside, CachesAside, IndexAside DEF TextsInv
  <2>3. \A t \in Threads : Sound(rq[t])'
    BY <2>1 DEF TextsInv, Sound, IsSaved, IsLive, AllSaved, tables
  <2> QED
    BY <1>1, <2>2, <2>3 DEF TextsInv
<1> QED
  BY <1>1, <1>2, <1>3, <1>4, SiteSteps

(* However requests interleave, everything that is cached or indexed, or   *)
(* on its way there, is the wording of a version that was saved.           *)
THEOREM TextsInvariant == Spec => [](KeepsPages => TextsInv)
<1>1. Init => (KeepsPages => TextsInv)
  BY InitTexts
<1>2. (KeepsPages => TextsInv) /\ [Next]_vars => (KeepsPages => TextsInv)'
  BY NextTexts DEF KeepsPages, Never
<1> QED
  BY <1>1, <1>2, PTL DEF Spec

LEMMA ServedIsSaved ==
    ASSUME TextsInv, NEW view \in Served
    PROVE  IsSaved(view)
<1>1. CASE view \in {e.view : e \in pageCache}
  BY <1>1 DEF TextsInv, CachesSaved
<1>2. CASE view \in homeCache
  BY <1>2 DEF TextsInv, CachesSaved, AllSaved
<1>3. CASE view \in ListedViews
  <2>1. PICK e \in listCache : WithContent(e.key) /\ view \in e.views
    BY <1>3 DEF ListedViews
  <2> QED
    BY <2>1 DEF TextsInv, CachesSaved, AllSaved
<1>4. CASE view \in IndexedViews
  <2>1. PICK p \in PageIds : \E i \in DOMAIN documents[p] : view = documents[p][i]
    BY <1>4 DEF IndexedViews
  <2> QED
    BY <2>1 DEF TextsInv, IndexSaved
<1> QED
  BY <1>1, <1>2, <1>3, <1>4 DEF Served

(* Whatever a reader is shown, however stale, was saved as that version of *)
(* that page.                                                              *)
THEOREM ServedTextsAreSaved == Spec => []ServedTextsWereSaved
<1>1. (KeepsPages => TextsInv) => ServedTextsWereSaved
  BY ServedIsSaved DEF KeepsPages, ServedTextsWereSaved, IsSaved
<1> QED
  BY <1>1, TextsInvariant, PTL

-----------------------------------------------------------------------------
(* What is known of the dates: none is later than the latest time that was *)
(* taken, and the time with which a request is about to save a version is  *)
(* none before the date of the version it is numbered after, which was     *)
(* there when the request took the time.                                   *)

FollowsInTime(p, v, on) ==
    \E c \in contents : c.pageId = p /\ c.version = v - 1 /\ c.editedOn <= on

Timely(r) ==
    /\ r.on <= clock
    /\ r.pc \in {"upd:insert", "rev:insert"} => FollowsInTime(r.id, r.ver, r.on)

RowsAreDated == \A c \in contents : c.editedOn <= clock

DatesInv == TextsInv /\ RowsAreDated /\ \A t \in Threads : Timely(rq[t])

-----------------------------------------------------------------------------
(* The page service implements VersionedPages. *)

LiveIds == {pg.id : pg \in pages}

VersionOf(c) ==
    [row |-> c.id, page |-> c.pageId, version |-> c.version, body |-> c.text.body,
     at |-> c.editedOn]

Versions == {VersionOf(c) : c \in contents}

(* What a step does to the pages and their versions. *)
Shows == LiveIds' = LiveIds /\ Versions' = Versions

Creates ==
    /\ nextPage \in PageIds /\ LiveIds' = LiveIds \cup {nextPage}
    /\ UNCHANGED <<contents, caches, index>>

Saves ==
    \E p, v, text, on : /\ IsLive(p) /\ (v = 1 \/ FollowsInTime(p, v, on))
                        /\ on <= clock /\ InsertContent(p, v, text, on)
                        /\ UNCHANGED <<caches, index>>

LEMMA TablesShown ==
    ASSUME UNCHANGED tables \/ UNCHANGED rows
    PROVE  Shows
BY DEF tables, rows, Shows, LiveIds, Versions

LEMMA SavedPageShown ==
    ASSUME NEW pg, IsLive(pg.id), SaveOrUpdatePage(pg)
    PROVE  Shows
<1>1. /\ pages' = {IF q.id = pg.id THEN pg ELSE q : q \in pages}
      /\ contents' = contents
  BY DEF SaveOrUpdatePage
<1>2. \A q \in pages : \E s \in pages' : s.id = q.id
  BY <1>1
<1>3. \A s \in pages' : \E q \in pages : s.id = q.id
  BY <1>1
<1>4. LiveIds' = LiveIds
  BY <1>2, <1>3 DEF LiveIds
<1> QED
  BY <1>1, <1>4 DEF Shows, Versions

(* A row that is written back with other links is the version it was.      *)
LEMMA RewrittenRowShown ==
    ASSUME HistoryInv, RowsAreKept, NEW t \in Threads, NEW c \in rq[t].rows, NEW row,
           SameVersion(c, row), UpdatePageContent(row)
    PROVE  Shows
<1>1. /\ contents' = {IF d.id = row.id THEN row ELSE d : d \in contents}
      /\ pages' = pages
  BY DEF UpdatePageContent
<1>2. PICK old \in contents : SameVersion(c, old)
  BY DEF HistoryInv, SnapshotsAgree
<1>3. SameVersion(old, row)
  BY <1>2 DEF SameVersion
<1>4. \A d \in contents : d.id = row.id => d = old
  BY <1>2, <1>3 DEF HistoryInv, RowsAreNumbered, SameVersion
<1>5. \A d \in contents' : \E e \in contents : SameVersion(e, d)
  BY <1>1, <1>3, <1>4, SameVersionIsEquivalence
<1>6. \A d, e : SameVersion(d, e) => VersionOf(d) = VersionOf(e)
  BY DEF SameVersion, VersionOf
<1>7. Versions' \subseteq Versions
  BY <1>5, <1>6 DEF Versions
<1>8. Versions \subseteq Versions'
  BY <1>6 DEF Versions, RowsAreKept
<1> QED
  BY <1>1, <1>7, <1>8 DEF Shows, LiveIds

LEMMA ArriveOnVersions ==
    ASSUME TextsInv, KeepsPages, NEW t \in Threads, Arrives(t)
    PROVE  Shows \/ Creates
<1>b. Idle \in Request
  BY BlankTypes DEF Idle
<1>1. CASE AddPageRow(t)
  <2>1. PICK page, text, on :
          page \in Page /\ page.id = nextPage /\ InsertNewPage(t, page, text, on)
    BY <1>1, NewPage DEF TextsInv, HistoryInv
  <2>2. PICK row : row = [page EXCEPT !.id = nextPage]
    OBVIOUS
  <2>3. row.id = nextPage
    BY <2>1, <2>2 DEF Page
  <2>4. pages' = pages \cup {row} /\ contents' = contents
    BY <2>1, <2>2 DEF InsertNewPage, InsertPage
  <2>5. LiveIds' = LiveIds \cup {nextPage}
    BY <2>3, <2>4 DEF LiveIds
  <2>6. nextPage \in PageIds
    BY <1>1, NewPage DEF TextsInv, HistoryInv
  <2> QED
    BY <1>1, <2>4, <2>5, <2>6 DEF Creates, AddPageRow
<1>2. CASE DeletePageLoad(t)
  BY <1>2, <1>b DEF DeletePageLoad, Begin, KeepsPages, Never, Request
<1>3. CASE ClearPagesRows(t)
  BY <1>3, <1>b DEF ClearPagesRows, Begin, KeepsPages, Never, Request
<1>4. CASE \/ GetByIdMiss(t) \/ HomePageMiss(t) \/ ListMiss(t) \/ CompareMiss(t)
           \/ UpdateForm(t) \/ RevertVersion(t) \/ RenameTagFind(t)
           \/ ClearCachePages(t) \/ CreateIndexPages(t)
  <2>1. UNCHANGED tables
    BY <1>4 DEF GetByIdMiss, HomePageMiss, ListMiss, CompareMiss, UpdateForm, RevertVersion,
       RenameTagFind, ClearCachePages, CreateIndexPages
  <2> QED
    BY <2>1, TablesShown
<1> QED
  BY <1>1, <1>2, <1>3, <1>4 DEF Arrives, Arrive

LEMMA ReadOnTables ==
    ASSUME NEW t, ReadOn(t)
    PROVE  UNCHANGED tables
BY DEF ReadOn, GetByIdPage, GetByIdContent, GetByIdCache, HomePageAny, HomePageContent,
   HomePageCache, ListPages, ListContent, ListCacheAdd, ComparePrevious, CompareCache

LEMMA ReadOnVersions ==
    ASSUME NEW t, ReadOn(t)
    PROVE  Shows
<1>1. UNCHANGED tables
  BY ReadOnTables
<1> QED
  BY <1>1, TablesShown

(* A version is added to the page in hand, after the one it is numbered    *)
(* after.                                                                  *)
LEMMA NextVersionSaved ==
    ASSUME DatesInv, NEW t \in Threads, rq[t].pc \in {"upd:insert", "rev:insert"}, NEW text,
           AddNewPageContentVersion(rq[t].id, rq[t].ver, text, rq[t].on),
           UNCHANGED <<caches, index>>
    PROVE  Saves
<1>1. TextsInv /\ Timely(rq[t])
  BY DEF DatesInv
<1>2. IsLive(rq[t].id)
  BY <1>1, InHand DEF Sound, SaveLabels
<1>3. rq[t].ver > 1 /\ rq[t].ver \in Nat
  BY <1>1, InHand DEF TextsInv, HistoryInv, NumbersFollow, InsertLabels, Request
<1>4. InsertContent(rq[t].id, rq[t].ver, text, rq[t].on)
  BY <1>3 DEF AddNewPageContentVersion
<1> QED
  BY <1>1, <1>2, <1>4 DEF Saves, Timely

LEMMA UpdateOnVersions ==
    ASSUME DatesInv, RowsAreKept, NEW t \in Threads, UpdateOn(t)
    PROVE  Shows \/ Saves
<1>r. rq[t] \in Request /\ Sound(rq[t]) /\ HistoryInv
  BY InHand DEF DatesInv, TextsInv
<1>1. CASE UpdatePageSave(t)
  <2>1. rq[t].page.id = rq[t].id /\ IsLive(rq[t].page.id)
    BY <1>1, <1>r DEF UpdatePageSave, At, Sound, PageLabels, SaveLabels
  <2> QED
    BY <1>1, <2>1, SavedPageShown DEF UpdatePageSave
<1>2. CASE UpdatePageInsert(t)
  <2>1. CASE UNCHANGED tables
    BY <2>1, TablesShown
  <2>2. CASE AddNewPageContentVersion(rq[t].id, rq[t].ver, rq[t].model.text, rq[t].on)
    BY <1>2, <2>2, NextVersionSaved DEF UpdatePageInsert, At
  <2> QED
    BY <1>2, <2>1, <2>2 DEF UpdatePageInsert
<1>3. CASE UpdateLinksRewrite(t)
  <2>1. CASE UNCHANGED tables
    BY <2>1, TablesShown
  <2>2. ASSUME NEW c \in rq[t].rows,
               UpdatePageContent([c EXCEPT !.text = ReplacePageLinks(@,
                                    rq[t].prev, rq[t].model.page.title)])
        PROVE  Shows
    <3>1. c \in PageContent
      BY <1>r DEF Request
    <3>2. PICK row : row = [c EXCEPT !.text = ReplacePageLinks(@,
                                    rq[t].prev, rq[t].model.page.title)]
      OBVIOUS
    <3>3. SameVersion(c, row)
      BY <3>1, <3>2 DEF SameVersion, PageContent, Text, ReplacePageLinks
    <3> QED
      BY <1>r, <2>2, <3>2, <3>3, RewrittenRowShown
  <2> QED
    BY <1>3, <2>1, <2>2 DEF UpdateLinksRewrite
<1>4. CASE \/ UpdatePageLoad(t) \/ UpdatePageUncache(t)
           \/ UpdatePageUncacheHome(t) \/ UpdatePageUncacheLists(t)
           \/ UpdatePageMaxVersion(t) \/ UpdateLinksRead(t)
           \/ UpdateLinksClearPages(t) \/ UpdateLinksClearLists(t)
           \/ UpdatePageReread(t) \/ UpdatePageUnindex(t) \/ UpdatePageIndex(t)
  <2>1. UNCHANGED tables
    BY <1>4 DEF UpdatePageLoad, UpdatePageUncache, UpdatePageUncacheHome,
       UpdatePageUncacheLists, UpdatePageMaxVersion, UpdateLinksRead, UpdateLinksClearPages,
       UpdateLinksClearLists, UpdatePageReread, UpdatePageUnindex, UpdatePageIndex
  <2> QED
    BY <2>1, TablesShown
<1>5. CASE UpdatePageTakeTime(t)
  BY <1>5, TablesShown DEF UpdatePageTakeTime
<1> QED
  BY <1>1, <1>2, <1>3, <1>4, <1>5 DEF UpdateOn

LEMMA WriteOnVersions ==
    ASSUME DatesInv, NEW t \in Threads, WriteOn(t)
    PROVE  Shows \/ Saves
<1>r. rq[t] \in Request /\ Sound(rq[t]) /\ HistoryInv
  BY InHand DEF DatesInv, TextsInv
<1>1. CASE AddPageContent(t)
  <2>1. CASE UNCHANGED tables
    BY <2>1, TablesShown
  <2>2. CASE InsertContent(rq[t].id, 1, rq[t].model.text, rq[t].on)
    <3>1. IsLive(rq[t].id) /\ rq[t].on <= clock
      BY <1>1, <1>r DEF AddPageContent, At, Sound, SaveLabels, DatesInv, Timely
    <3> QED
      BY <1>1, <2>2, <3>1 DEF Saves, AddPageContent
  <2> QED
    BY <1>1, <2>1, <2>2 DEF AddPageContent
<1>2. CASE RevertInsert(t)
  <2>1. CASE UNCHANGED tables
    BY <2>1, TablesShown
  <2>2. CASE AddNewPageContentVersion(rq[t].id, rq[t].ver, rq[t].view.text, rq[t].on)
    BY <1>2, <2>2, NextVersionSaved DEF RevertInsert, At
  <2> QED
    BY <1>2, <2>1, <2>2 DEF RevertInsert
<1>3. CASE DeletePageContents(t) \/ DeletePageRow(t) \/ ClearPagesContents(t)
  BY <1>3, <1>r DEF DeletePageContents, DeletePageRow, ClearPagesContents, At, HistoryInv,
     NothingIsDeleted, DeleteLabels
<1>4. CASE \/ AddPageClearLists(t) \/ AddPageClearPages(t) \/ AddPageIndex(t)
           \/ RevertMaxVersion(t) \/ RevertCache(t)
           \/ RenameTagNext(t) \/ RenameTagUnindex(t) \/ RenameTagUncache(t)
           \/ DeletePageLatest(t) \/ DeletePageUnindex(t) \/ DeletePageChildren(t)
           \/ DeletePageClearLists(t) \/ DeletePageClearPages(t)
           \/ ClearPagesLists(t) \/ ClearPagesPages(t) \/ ClearCacheLists(t)
           \/ CreateIndexContent(t) \/ CreateIndexClose(t) \/ DatabaseFails(t)
  <2>1. UNCHANGED tables
    BY <1>4 DEF AddPageClearLists, AddPageClearPages, AddPageIndex, RevertMaxVersion,
       RevertCache, RenameTagNext, RenameTagUnindex, RenameTagUncache, DeletePageLatest,
       DeletePageUnindex, DeletePageChildren, DeletePageClearLists, DeletePageClearPages,
       ClearPagesLists, ClearPagesPages, ClearCacheLists, CreateIndexContent, CreateIndexClose,
       DatabaseFails
  <2> QED
    BY <2>1, TablesShown
<1>5. CASE RevertTakeTime(t)
  BY <1>5, TablesShown DEF RevertTakeTime
<1> QED
  BY <1>1, <1>2, <1>3, <1>4, <1>5 DEF WriteOn, WriteStep

-----------------------------------------------------------------------------
(* The dates. *)

LEMMA StepsOfVersions ==
    ASSUME DatesInv, KeepsPages, [Next]_vars
    PROVE  Shows \/ Creates \/ Saves
<1>1. TextsInv /\ RowsAreKept
  BY NextTexts DEF DatesInv
<1>2. CASE Recycle \/ UNCHANGED site
  <2>1. UNCHANGED tables
    BY <1>2 DEF Recycle, site
  <2> QED
    BY <2>1, TablesShown
<1>3. ASSUME NEW t \in Threads, Arrives(t) \/ GoOn(t)
      PROVE  Shows \/ Creates \/ Saves
  BY <1>1, <1>3, ArriveOnVersions, ReadOnVersions, UpdateOnVersions, WriteOnVersions DEF GoOn
<1> QED
  BY <1>2, <1>3, SiteSteps

(* A request that is not about to save a version with the time it has      *)
(* taken, if any.                                                          *)
Passes(t) ==
    \E r : /\ rq' = [rq EXCEPT ![t] = r]
           /\ r.on \in {0, rq[t].on}
           /\ r.pc \notin {"upd:insert", "rev:insert"}

LEMMA EndsInTime ==
    ASSUME NEW t \in Threads, Return(t) \/ Throw(t)
    PROVE  Passes(t)
<1>1. Idle.on = 0 /\ Idle.pc = "idle"
  BY DEF Idle
<1>2. \A op : /\ [Idle EXCEPT !.pc = "threw", !.op = op].on = 0
              /\ [Idle EXCEPT !.pc = "threw", !.op = op].pc = "threw"
  BY DEF Idle
<1> QED
  BY <1>1, <1>2 DEF Passes, Return, Throw

LEMMA GoesInTime ==
    ASSUME NEW t \in Threads, rq[t] \in Request,
           NEW label \in Labels \ {"upd:insert", "rev:insert"}, Goto(t, label)
    PROVE  Passes(t)
<1>1. PICK r : r = [rq[t] EXCEPT !.pc = label]
  OBVIOUS
<1>2. r.pc = label /\ r.on = rq[t].on
  BY <1>1 DEF Request
<1> QED
  BY <1>1, <1>2 DEF Passes, Goto

LEMMA BecomesInTime ==
    ASSUME NEW t \in Threads, NEW r, Become(t, r) \/ Begin(t, r),
           r.on \in {0, rq[t].on}, r.pc \notin {"upd:insert", "rev:insert"}
    PROVE  Passes(t)
BY DEF Passes, Become, Begin

LEMMA ReadOnPasses ==
    ASSUME TypeOK, NEW t \in Threads, ReadOn(t)
    PROVE  Passes(t)
<1>r. rq[t] \in Request
  BY DEF TypeOK
<1>1. CASE GetByIdPage(t)
  BY <1>1, <1>r, EndsInTime, GoesInTime, BecomesInTime DEF GetByIdPage, Request, Labels
<1>2. CASE GetByIdContent(t)
  BY <1>2, <1>r, EndsInTime, GoesInTime, BecomesInTime DEF GetByIdContent, Request, Labels
<1>3. CASE GetByIdCache(t)
  BY <1>3, <1>r, EndsInTime, GoesInTime, BecomesInTime DEF GetByIdCache, Request, Labels
<1>4. CASE HomePageAny(t)
  BY <1>4, <1>r, EndsInTime, GoesInTime, BecomesInTime DEF HomePageAny, Request, Labels
<1>5. CASE HomePageContent(t)
  BY <1>5, <1>r, EndsInTime, GoesInTime, BecomesInTime DEF HomePageContent, Request, Labels
<1>6. CASE HomePageCache(t)
  BY <1>6, <1>r, EndsInTime, GoesInTime, BecomesInTime DEF HomePageCache, Request, Labels
<1>7. CASE ListPages(t)
  BY <1>7, <1>r, EndsInTime, GoesInTime, BecomesInTime DEF ListPages, Request, Labels
<1>8. CASE ListContent(t)
  <2>1. \A pg, c :
          LET next == [rq[t] EXCEPT !.todo = @ \ {pg}, !.views = @ \cup {ViewOf(pg, c)}]
          IN next.on = rq[t].on /\ next.pc = rq[t].pc
    BY <1>r DEF Request
  <2>2. rq[t].pc = "list:contents"
    BY <1>8 DEF ListContent, At
  <2> QED
    BY <1>8, <1>r, <2>1, <2>2, EndsInTime, GoesInTime, BecomesInTime DEF ListContent, Labels
<1>9. CASE ListCacheAdd(t)
  BY <1>9, <1>r, EndsInTime, GoesInTime, BecomesInTime DEF ListCacheAdd, Request, Labels
<1>10. CASE ComparePrevious(t)
  BY <1>10, <1>r, EndsInTime, GoesInTime, BecomesInTime DEF ComparePrevious, Request, Labels
<1>11. CASE CompareCache(t)
  BY <1>11, <1>r, EndsInTime, GoesInTime, BecomesInTime DEF CompareCache, Request, Labels
<1> QED
  BY <1>1, <1>2, <1>3, <1>4, <1>5, <1>6, <1>7, <1>8, <1>9, <1>10, <1>11 DEF ReadOn

LEMMA UpdateOnPasses ==
    ASSUME TypeOK, NEW t \in Threads, UpdateOn(t), ~UpdatePageTakeTime(t)
    PROVE  Passes(t)
<1>r. rq[t] \in Request
  BY DEF TypeOK
<1>1. CASE UpdatePageLoad(t)
  BY <1>1, <1>r, EndsInTime, GoesInTime, BecomesInTime DEF UpdatePageLoad, Request, Labels
<1>2. CASE UpdatePageSave(t)
  BY <1>2, <1>r, EndsInTime, GoesInTime, BecomesInTime DEF UpdatePageSave, Request, Labels
<1>3. CASE UpdatePageUncache(t)
  BY <1>3, <1>r, EndsInTime, GoesInTime, BecomesInTime DEF UpdatePageUncache, Request, Labels
<1>4. CASE UpdatePageUncacheHome(t)
  BY <1>4, <1>r, EndsInTime, GoesInTime, BecomesInTime DEF UpdatePageUncacheHome, Request, Labels
<1>5. CASE UpdatePageUncacheLists(t)
  BY <1>5, <1>r, EndsInTime, GoesInTime, BecomesInTime DEF UpdatePageUncacheLists, Request, Labels
<1>6. CASE UpdatePageMaxVersion(t)
  BY <1>6, <1>r, EndsInTime, GoesInTime, BecomesInTime DEF UpdatePageMaxVersion, Request, Labels
<1>7. CASE UpdatePageInsert(t)
  BY <1>7, <1>r, EndsInTime, GoesInTime, BecomesInTime DEF UpdatePageInsert, Request, Labels
<1>8. CASE UpdateLinksRead(t)
  <2>1. PICK linking, label :
          /\ label \in {"upd:latest", "upd:rewrite"}
          /\ Become(t, [rq[t] EXCEPT !.rows = linking, !.pc = label])
    BY <1>8 DEF UpdateLinksRead
  <2> QED
    BY <1>r, <2>1, BecomesInTime DEF Request
<1>9. CASE UpdateLinksRewrite(t)
  <2>1. \A c : LET next == [rq[t] EXCEPT !.rows = @ \ {c}]
              IN next.on = rq[t].on /\ next.pc = rq[t].pc
    BY <1>r DEF Request
  <2>2. rq[t].pc = "upd:rewrite"
    BY <1>9 DEF UpdateLinksRewrite, At
  <2> QED
    BY <1>9, <1>r, <2>1, <2>2, GoesInTime, BecomesInTime DEF UpdateLinksRewrite, Labels
<1>10. CASE UpdateLinksClearPages(t)
  BY <1>10, <1>r, EndsInTime, GoesInTime, BecomesInTime DEF UpdateLinksClearPages, Request, Labels
<1>11. CASE UpdateLinksClearLists(t)
  BY <1>11, <1>r, EndsInTime, GoesInTime, BecomesInTime DEF UpdateLinksClearLists, Request, Labels
<1>12. CASE UpdatePageReread(t)
  BY <1>12, <1>r, EndsInTime, GoesInTime, BecomesInTime DEF UpdatePageReread, Request, Labels
<1>13. CASE UpdatePageUnindex(t)
  BY <1>13, <1>r, EndsInTime, GoesInTime, BecomesInTime DEF UpdatePageUnindex, Request, Labels
<1>14. CASE UpdatePageIndex(t)
  BY <1>14, <1>r, EndsInTime, GoesInTime, BecomesInTime DEF UpdatePageIndex, Request, Labels
<1> QED
  BY <1>1, <1>2, <1>3, <1>4, <1>5, <1>6, <1>7, <1>8, <1>9, <1>10, <1>11, <1>12, <1>13,
     <1>14 DEF UpdateOn

LEMMA WriteOnPasses ==
    ASSUME TypeOK, NEW t \in Threads, WriteOn(t), ~RevertTakeTime(t)
    PROVE  Passes(t)
<1>r. rq[t] \in Request
  BY DEF TypeOK
<1>1. CASE AddPageContent(t)
  BY <1>1, <1>r, EndsInTime, GoesInTime, BecomesInTime DEF AddPageContent, Request, Labels
<1>2. CASE AddPageClearLists(t)
  BY <1>2, <1>r, EndsInTime, GoesInTime, BecomesInTime DEF AddPageClearLists, Request, Labels
<1>3. CASE AddPageClearPages(t)
  BY <1>3, <1>r, EndsInTime, GoesInTime, BecomesInTime DEF AddPageClearPages, Request, Labels
<1>4. CASE AddPageIndex(t)
  BY <1>4, <1>r, EndsInTime, GoesInTime, BecomesInTime DEF AddPageIndex, Request, Labels
<1>5. CASE RevertMaxVersion(t)
  BY <1>5, <1>r, EndsInTime, GoesInTime, BecomesInTime DEF RevertMaxVersion, Request, Labels
<1>6. CASE RevertInsert(t)
  BY <1>6, <1>r, EndsInTime, GoesInTime, BecomesInTime DEF RevertInsert, Request, Labels
<1>7. CASE RevertCache(t)
  BY <1>7, <1>r, EndsInTime, GoesInTime, BecomesInTime DEF RevertCache, Request, Labels
<1>8. CASE RenameTagNext(t)
  <2>1. \A view : NextRenamed(t, view).on = rq[t].on /\ NextRenamed(t, view).pc = "tag:unindex"
    BY <1>r DEF NextRenamed, Request
  <2>2. \A view, pg : /\ [NextRenamed(t, view) EXCEPT !.todo = @ \ {pg}].on = rq[t].on
                      /\ [NextRenamed(t, view) EXCEPT !.todo = @ \ {pg}].pc = "tag:unindex"
    BY <1>r DEF NextRenamed, Request
  <2>3. CASE \E view \in rq[t].views : Become(t, NextRenamed(t, view))
    BY <2>1, <2>3, BecomesInTime
  <2>4. CASE \E pg \in rq[t].todo : RenameTagQueried(t, pg)
    BY <2>2, <2>4, BecomesInTime, EndsInTime DEF RenameTagQueried
  <2>5. CASE Goto(t, "tag:done")
    BY <1>r, <2>5, GoesInTime DEF Labels
  <2> QED
    BY <1>8, <2>3, <2>4, <2>5 DEF RenameTagNext
<1>9. CASE RenameTagUnindex(t)
  <2>1. \A view, views :
          LET next == [rq[t] EXCEPT !.pc = "upd:page", !.model = view, !.views = views]
          IN next.on = rq[t].on /\ next.pc = "upd:page"
    BY <1>r DEF Request
  <2> QED
    BY <1>9, <2>1, EndsInTime, BecomesInTime DEF RenameTagUnindex
<1>10. CASE RenameTagUncache(t)
  BY <1>10, <1>r, EndsInTime, GoesInTime, BecomesInTime DEF RenameTagUncache, Request, Labels
<1>11. CASE DeletePageLatest(t)
  BY <1>11, <1>r, EndsInTime, GoesInTime, BecomesInTime DEF DeletePageLatest, Request, Labels
<1>12. CASE DeletePageUnindex(t)
  BY <1>12, <1>r, EndsInTime, GoesInTime, BecomesInTime DEF DeletePageUnindex, Request, Labels
<1>13. CASE DeletePageChildren(t)
  BY <1>13, <1>r, EndsInTime, GoesInTime, BecomesInTime DEF DeletePageChildren, Request, Labels
<1>14. CASE DeletePageContents(t)
  <2>1. \A c : LET next == [rq[t] EXCEPT !.rows = @ \ {c}]
              IN next.on = rq[t].on /\ next.pc = rq[t].pc
    BY <1>r DEF Request
  <2>2. rq[t].pc = "del:contents"
    BY <1>14 DEF DeletePageContents, At
  <2> QED
    BY <1>14, <1>r, <2>1, <2>2, GoesInTime, BecomesInTime DEF DeletePageContents, Labels
<1>15. CASE DeletePageRow(t)
  BY <1>15, <1>r, EndsInTime, GoesInTime, BecomesInTime DEF DeletePageRow, Request, Labels
<1>16. CASE DeletePageClearLists(t)
  BY <1>16, <1>r, EndsInTime, GoesInTime, BecomesInTime DEF DeletePageClearLists, Request, Labels
<1>17. CASE DeletePageClearPages(t)
  BY <1>17, <1>r, EndsInTime, GoesInTime, BecomesInTime DEF DeletePageClearPages, Request, Labels
<1>18. CASE ClearPagesContents(t)
  BY <1>18, <1>r, EndsInTime, GoesInTime, BecomesInTime DEF ClearPagesContents, Request, Labels
<1>19. CASE ClearPagesLists(t)
  BY <1>19, <1>r, EndsInTime, GoesInTime, BecomesInTime DEF ClearPagesLists, Request, Labels
<1>20. CASE ClearPagesPages(t)
  BY <1>20, <1>r, EndsInTime, GoesInTime, BecomesInTime DEF ClearPagesPages, Request, Labels
<1>21. CASE ClearCacheLists(t)
  BY <1>21, <1>r, EndsInTime, GoesInTime, BecomesInTime DEF ClearCacheLists, Request, Labels
<1>22. CASE CreateIndexContent(t)
  <2>1. \A pg, c :
          LET next == [rq[t] EXCEPT !.todo = @ \ {pg}, !.views = @ \cup {ViewOf(pg, c)}]
          IN next.on = rq[t].on /\ next.pc = rq[t].pc
    BY <1>r DEF Request
  <2>2. rq[t].pc = "idx:contents"
    BY <1>22 DEF CreateIndexContent, At
  <2> QED
    BY <1>22, <1>r, <2>1, <2>2, EndsInTime, GoesInTime, BecomesInTime DEF CreateIndexContent, Labels
<1>23. CASE CreateIndexClose(t)
  BY <1>23, <1>r, EndsInTime, GoesInTime, BecomesInTime DEF CreateIndexClose, Request, Labels
<1>24. CASE DatabaseFails(t)
  BY <1>24, <1>r, EndsInTime, GoesInTime, BecomesInTime DEF DatabaseFails, Request, Labels
<1> QED
  BY <1>1, <1>2, <1>3, <1>4, <1>5, <1>6, <1>7, <1>8, <1>9, <1>10, <1>11, <1>12, <1>13,
     <1>14, <1>15, <1>16, <1>17, <1>18, <1>19, <1>20, <1>21, <1>22, <1>23, <1>24 DEF
     WriteOn, WriteStep

LEMMA ArrivePasses ==
    ASSUME NEW t \in Threads, Arrives(t), ~AddPageRow(t)
    PROVE  Passes(t)
<1>b. Idle \in Request /\ Idle.on = 0
  BY BlankTypes DEF Idle
<1>1. CASE GetByIdMiss(t)
  BY <1>1, <1>b, BecomesInTime DEF GetByIdMiss, Request
<1>2. CASE HomePageMiss(t)
  BY <1>2, <1>b, BecomesInTime DEF HomePageMiss, Request
<1>3. CASE ListMiss(t)
  BY <1>3, <1>b, BecomesInTime DEF ListMiss, Request
<1>4. CASE CompareMiss(t)
  BY <1>4, <1>b, BecomesInTime DEF CompareMiss, Request
<1>5. CASE UpdateForm(t)
  BY <1>5, <1>b, BecomesInTime DEF UpdateForm, Request
<1>6. CASE RevertVersion(t)
  BY <1>6, <1>b, BecomesInTime DEF RevertVersion, Request
<1>7. CASE RenameTagFind(t)
  <2>1. PICK old, new, request :
          /\ old \in Tags /\ new \in Tags
          /\ request = [Idle EXCEPT !.op = "renametag", !.key = TagListKey(old),
                                    !.newTag = new, !.admin = TRUE]
          /\ \/ Begin(t, [request EXCEPT !.pc = "list:pages"])
             \/ \E e \in CachedList(TagListKey(old)) :
                  Begin(t, [request EXCEPT !.pc = "tag:next", !.views = e.views])
    BY <1>7 DEF RenameTagFind
  <2>2. request \in Request /\ request.on = 0
    BY <1>b, <2>1 DEF Request, AllOps, TagListKey, ListKey, ListNames
  <2> QED
    BY <2>1, <2>2, BecomesInTime DEF Request
<1>8. CASE DeletePageLoad(t)
  BY <1>8, <1>b, BecomesInTime DEF DeletePageLoad, Request
<1>9. CASE ClearPagesRows(t)
  BY <1>9, <1>b, BecomesInTime DEF ClearPagesRows, Request
<1>10. CASE ClearCachePages(t)
  BY <1>10, <1>b, BecomesInTime DEF ClearCachePages, Request
<1>11. CASE CreateIndexPages(t)
  BY <1>11, <1>b, BecomesInTime DEF CreateIndexPages, Request
<1> QED
  BY <1>1, <1>2, <1>3, <1>4, <1>5, <1>6, <1>7, <1>8, <1>9, <1>10, <1>11 DEF Arrives,
     Arrive

(* Who takes no time leaves the clock alone. *)
LEMMA ClockOfArrive ==
    ASSUME NEW t, Arrives(t), ~AddPageRow(t)
    PROVE  clock' = clock
BY DEF Arrives, Arrive, GetByIdMiss, HomePageMiss, ListMiss, CompareMiss, UpdateForm,
   RevertVersion, RenameTagFind, DeletePageLoad, ClearPagesRows, ClearCachePages,
   CreateIndexPages, DeleteAllPageRows, tables

LEMMA ClockOfUpdate ==
    ASSUME NEW t, UpdateOn(t), ~UpdatePageTakeTime(t)
    PROVE  clock' = clock
<1>1. CASE UpdatePageSave(t)
  BY <1>1 DEF UpdatePageSave, SaveOrUpdatePage
<1>2. CASE UpdatePageInsert(t)
  BY <1>2 DEF UpdatePageInsert, AddNewPageContentVersion, InsertContent, tables
<1>3. CASE UpdateLinksRewrite(t)
  BY <1>3 DEF UpdateLinksRewrite, UpdatePageContent, tables
<1>4. CASE \/ UpdatePageLoad(t) \/ UpdatePageUncache(t)
           \/ UpdatePageUncacheHome(t) \/ UpdatePageUncacheLists(t)
           \/ UpdatePageMaxVersion(t) \/ UpdateLinksRead(t)
           \/ UpdateLinksClearPages(t) \/ UpdateLinksClearLists(t)
           \/ UpdatePageReread(t) \/ UpdatePageUnindex(t) \/ UpdatePageIndex(t)
  BY <1>4 DEF UpdatePageLoad, UpdatePageUncache, UpdatePageUncacheHome,
     UpdatePageUncacheLists, UpdatePageMaxVersion, UpdateLinksRead, UpdateLinksClearPages,
     UpdateLinksClearLists, UpdatePageReread, UpdatePageUnindex, UpdatePageIndex, tables
<1> QED
  BY <1>1, <1>2, <1>3, <1>4 DEF UpdateOn

LEMMA ClockOfWrite ==
    ASSUME NEW t, WriteOn(t), ~RevertTakeTime(t)
    PROVE  clock' = clock
<1>1. CASE AddPageContent(t)
  BY <1>1 DEF AddPageContent, InsertContent, tables
<1>2. CASE RevertInsert(t)
  BY <1>2 DEF RevertInsert, AddNewPageContentVersion, InsertContent, tables
<1>3. CASE DeletePageContents(t) \/ DeletePageRow(t) \/ ClearPagesContents(t)
  BY <1>3 DEF DeletePageContents, DeletePageRow, ClearPagesContents, DeletePageContent,
     DeletePage, DeleteAllContentRows, tables
<1>4. CASE \/ AddPageClearLists(t) \/ AddPageClearPages(t) \/ AddPageIndex(t)
           \/ RevertMaxVersion(t) \/ RevertCache(t)
           \/ RenameTagNext(t) \/ RenameTagUnindex(t) \/ RenameTagUncache(t)
           \/ DeletePageLatest(t) \/ DeletePageUnindex(t) \/ DeletePageChildren(t)
           \/ DeletePageClearLists(t) \/ DeletePageClearPages(t)
           \/ ClearPagesLists(t) \/ ClearPagesPages(t) \/ ClearCacheLists(t)
           \/ CreateIndexContent(t) \/ CreateIndexClose(t) \/ DatabaseFails(t)
  BY <1>4 DEF AddPageClearLists, AddPageClearPages, AddPageIndex, RevertMaxVersion,
     RevertCache, RenameTagNext, RenameTagUnindex, RenameTagUncache, DeletePageLatest,
     DeletePageUnindex, DeletePageChildren, DeletePageClearLists, DeletePageClearPages,
     ClearPagesLists, ClearPagesPages, ClearCacheLists, CreateIndexContent, CreateIndexClose,
     DatabaseFails, tables
<1> QED
  BY <1>1, <1>2, <1>3, <1>4 DEF WriteOn, WriteStep

(* What is to be shown of each step of a request. *)
KeepsTime(t) ==
    /\ clock' \in Nat /\ clock <= clock'
    /\ \E r : rq' = [rq EXCEPT ![t] = r] /\ Timely(r)'

LEMMA PassesKeepTime ==
    ASSUME DatesInv, NEW t \in Threads, Passes(t), clock' = clock
    PROVE  KeepsTime(t)
<1>1. PICK r : /\ rq' = [rq EXCEPT ![t] = r]
               /\ r.on \in {0, rq[t].on}
               /\ r.pc \notin {"upd:insert", "rev:insert"}
  BY DEF Passes
<1>2. clock \in Nat /\ rq[t].on <= clock
  BY DEF DatesInv, Timely, TextsInv, HistoryInv, TypeOK, TablesTypeOK
<1>3. Timely(r)'
  BY <1>1, <1>2 DEF Timely
<1>4. clock' \in Nat /\ clock <= clock'
  BY <1>2
<1> QED
  BY <1>1, <1>3, <1>4 DEF KeepsTime

(* The time that is taken is no earlier than the date of any version there *)
(* is, and so than that of the one the request is to save a version after. *)
LEMMA TakenInTime ==
    ASSUME DatesInv, NEW t \in Threads, rq[t].pc \in InsertLabels,
           NEW on \in UtcNow, TakeTime(on), UNCHANGED rows,
           NEW label, Become(t, [rq[t] EXCEPT !.pc = label, !.on = on])
    PROVE  KeepsTime(t)
<1>1. PICK r : r = [rq[t] EXCEPT !.pc = label, !.on = on]
  OBVIOUS
<1>2. r.on = on /\ r.id = rq[t].id /\ r.ver = rq[t].ver
  BY <1>1 DEF DatesInv, TextsInv, HistoryInv, TypeOK, Request
<1>3. /\ clock \in Nat /\ on \in Nat /\ clock' = on /\ clock <= on
      /\ \A c \in contents : c.editedOn \in Nat /\ c.editedOn <= clock
  BY DEF TakeTime, UtcNow, DatesInv, RowsAreDated, TextsInv, HistoryInv, TypeOK, TablesTypeOK,
     PageContent
<1>4. PICK before : before = rq[t].ver - 1
  OBVIOUS
<1>5. PICK c \in contents : c.pageId = rq[t].id /\ c.version = before
  BY <1>4 DEF DatesInv, TextsInv, HistoryInv, NumbersFollow, HasVersion
<1>6. c.editedOn <= on
  BY <1>3
<1>7. FollowsInTime(r.id, r.ver, r.on)'
  BY <1>2, <1>4, <1>5, <1>6 DEF FollowsInTime, rows
<1>8. Timely(r)'
  BY <1>2, <1>3, <1>7 DEF Timely
<1> QED
  BY <1>1, <1>3, <1>8 DEF KeepsTime, Become

LEMMA StepsKeepTime ==
    ASSUME DatesInv, NEW t \in Threads, Arrives(t) \/ GoOn(t)
    PROVE  KeepsTime(t)
<1>t. TypeOK
  BY DEF DatesInv, TextsInv, HistoryInv
<1>1. CASE AddPageRow(t)
  <2>1. PICK page, text, on : InsertNewPage(t, page, text, on)
    BY <1>1, <1>t, NewPage
  <2>2. PICK model : model = [page |-> page, text |-> text, version |-> 1]
    OBVIOUS
  <2>3. PICK r : r = [Idle EXCEPT !.op = "add", !.pc = "add:content", !.on = on,
                                  !.id = nextPage, !.page = page, !.model = model]
    OBVIOUS
  <2>4. r.pc = "add:content" /\ r.on = on
    BY <2>3, BlankTypes DEF Request
  <2>5. rq' = [rq EXCEPT ![t] = r]
    BY <2>1, <2>2, <2>3 DEF InsertNewPage, Begin, Become
  <2>6. clock \in Nat /\ clock' = on /\ on \in Nat /\ clock <= on
    BY <1>t, <2>1 DEF InsertNewPage, TakeTime, UtcNow, TypeOK, TablesTypeOK
  <2>7. Timely(r)'
    BY <2>4, <2>6 DEF Timely
  <2> QED
    BY <2>5, <2>6, <2>7 DEF KeepsTime
<1>2. CASE UpdatePageTakeTime(t)
  BY <1>2, TakenInTime DEF UpdatePageTakeTime, At, InsertLabels
<1>3. CASE RevertTakeTime(t)
  BY <1>3, TakenInTime DEF RevertTakeTime, At, InsertLabels
<1>4. CASE Arrives(t) /\ ~AddPageRow(t)
  BY <1>4, ArrivePasses, ClockOfArrive, PassesKeepTime
<1>5. CASE ReadOn(t)
  <2>1. UNCHANGED tables
    BY <1>5, ReadOnTables
  <2> QED
    BY <1>t, <1>5, <2>1, ReadOnPasses, PassesKeepTime DEF tables
<1>6. CASE UpdateOn(t) /\ ~UpdatePageTakeTime(t)
  BY <1>t, <1>6, UpdateOnPasses, ClockOfUpdate, PassesKeepTime
<1>7. CASE WriteOn(t) /\ ~RevertTakeTime(t)
  BY <1>t, <1>7, WriteOnPasses, ClockOfWrite, PassesKeepTime
<1> QED
  BY <1>1, <1>2, <1>3, <1>4, <1>5, <1>6, <1>7 DEF GoOn

(* The rows of the next state are those of this one, and perhaps one that  *)
(* is dated with a time that was taken.                                    *)
LEMMA RowsStayDated ==
    ASSUME DatesInv, Shows \/ Creates \/ Saves, clock' \in Nat, clock <= clock'
    PROVE  RowsAreDated'
<1>1. /\ clock \in Nat
      /\ \A c \in contents : c.editedOn \in Nat /\ c.editedOn <= clock
  BY DEF DatesInv, RowsAreDated, TextsInv, HistoryInv, TypeOK, TablesTypeOK, PageContent
<1>2. \A c \in contents : c.editedOn <= clock'
  BY <1>1
<1>3. CASE Shows
  <2>1. \A c \in contents' : \E d \in contents : VersionOf(c) = VersionOf(d)
    BY <1>3 DEF Shows, Versions
  <2>2. \A c \in contents' : \E d \in contents : c.editedOn = d.editedOn
    BY <2>1 DEF VersionOf
  <2> QED
    BY <1>2, <2>2 DEF RowsAreDated
<1>4. CASE Creates
  BY <1>2, <1>4 DEF Creates, RowsAreDated
<1>5. CASE Saves
  <2>1. PICK p, v, text, on : on <= clock /\ InsertContent(p, v, text, on)
    BY <1>5 DEF Saves
  <2>2. PICK row : row = [id |-> nextRow, pageId |-> p, version |-> v, text |-> text,
                          editedOn |-> on]
    OBVIOUS
  <2>3. contents' = contents \cup {row} /\ row.editedOn = on /\ clock' = clock
    BY <2>1, <2>2 DEF InsertContent
  <2> QED
    BY <1>2, <2>1, <2>3 DEF RowsAreDated
<1> QED
  BY <1>3, <1>4, <1>5

LEMMA TimelyLater ==
    ASSUME DatesInv, RowsAreKept, clock' \in Nat, clock <= clock', NEW r,
           r.on \in Nat, Timely(r)
    PROVE  Timely(r)'
<1>1. clock \in Nat
  BY DEF DatesInv, TextsInv, HistoryInv, TypeOK, TablesTypeOK
<1>2. FollowsInTime(r.id, r.ver, r.on) => FollowsInTime(r.id, r.ver, r.on)'
  BY DEF FollowsInTime, RowsAreKept, SameVersion
<1> QED
  BY <1>1, <1>2 DEF Timely

LEMMA NextDates ==
    ASSUME DatesInv, KeepsPages, [Next]_vars
    PROVE  DatesInv'
<1>1. TextsInv' /\ RowsAreKept
  BY NextTexts DEF DatesInv
<1>t. TypeOK /\ clock \in Nat /\ \A t \in Threads : rq[t].on \in Nat
  BY DEF DatesInv, TextsInv, HistoryInv, TypeOK, TablesTypeOK, Request
<1>2. ASSUME NEW t \in Threads, Arrives(t) \/ GoOn(t)
      PROVE  DatesInv'
  <2>1. KeepsTime(t)
    BY <1>2, StepsKeepTime
  <2>2. PICK r : rq' = [rq EXCEPT ![t] = r] /\ Timely(r)'
    BY <2>1 DEF KeepsTime
  <2>3. RowsAreDated'
    BY <2>1, StepsOfVersions, RowsStayDated DEF KeepsTime
  <2>4. ASSUME NEW s \in Threads
        PROVE  Timely(rq[s])'
    <3>1. PICK old : old = rq[s]
      OBVIOUS
    <3>2. Timely(old)'
      BY <1>1, <1>t, <2>1, <3>1, TimelyLater DEF DatesInv, KeepsTime
    <3>3. PICK new : new = rq'[s]
      OBVIOUS
    <3>4. new = r \/ new = old
      BY <1>t, <2>2, <3>1, <3>3 DEF TypeOK
    <3>5. Timely(new)'
      BY <2>2, <3>2, <3>4
    <3> QED
      BY <3>3, <3>5 DEF Timely, FollowsInTime
  <2> QED
    BY <1>1, <2>3, <2>4 DEF DatesInv
<1>3. CASE Recycle
  <2>1. clock' = clock /\ contents' = contents /\ \A t \in Threads : rq'[t] = Idle
    BY <1>3 DEF Recycle, tables
  <2>2. Idle.on = 0 /\ Idle.pc = "idle"
    BY DEF Idle
  <2> QED
    BY <1>1, <1>t, <2>1, <2>2 DEF DatesInv, RowsAreDated, Timely
<1>4. CASE UNCHANGED site
  BY <1>1, <1>4 DEF DatesInv, RowsAreDated, Timely, FollowsInTime, site, tables
<1> QED
  BY <1>2, <1>3, <1>4, SiteSteps

LEMMA InitDates == Init => DatesInv
<1> SUFFICES ASSUME Init PROVE DatesInv
  OBVIOUS
<1>1. TextsInv
  BY InitTexts
<1>2. clock = 0 /\ \A c \in contents : c.editedOn = 0
  BY DEF Init, TablesInit
<1>3. \A t \in Threads : rq[t].on = 0 /\ rq[t].pc = "idle"
  BY DEF Init, Idle
<1> QED
  BY <1>1, <1>2, <1>3 DEF DatesInv, RowsAreDated, Timely

(* The strengthened invariant: no version is saved with a time before the  *)
(* date of the version it is numbered after.                               *)
THEOREM DatesInvariant == Spec => [](KeepsPages => DatesInv)
<1>1. Init => (KeepsPages => DatesInv)
  BY InitDates
<1>2. (KeepsPages => DatesInv) /\ [Next]_vars => (KeepsPages => DatesInv)'
  BY NextDates DEF KeepsPages, Never
<1> QED
  BY <1>1, <1>2, PTL DEF Spec

-----------------------------------------------------------------------------
(* The steps of VersionedPages. *)

ShownTexts ==
    {[page |-> view.page.id, version |-> view.version, body |-> view.text.body] :
       view \in Served}

SavedTexts == {VP!TextOf(v) : v \in Versions}

ShowsSaved == ShownTexts \subseteq SavedTexts

LEMMA ShownIsSaved == TextsInv => ShowsSaved
<1> SUFFICES ASSUME TextsInv, NEW view \in Served
             PROVE  [page |-> view.page.id, version |-> view.version,
                     body |-> view.text.body] \in SavedTexts
  BY DEF ShownTexts, ShowsSaved
<1>1. PICK c \in contents : /\ c.pageId = view.page.id
                            /\ c.version = view.version
                            /\ c.text.body = view.text.body
  BY ServedIsSaved DEF IsSaved
<1>2. VersionOf(c) \in Versions
  BY DEF Versions
<1>3. VP!TextOf(VersionOf(c)) = [page |-> view.page.id, version |-> view.version,
                                 body |-> view.text.body]
  BY <1>1 DEF VP!TextOf, VersionOf
<1> QED
  BY <1>2, <1>3 DEF SavedTexts

LEMMA ServedAside ==
    ASSUME UNCHANGED <<caches, index>>
    PROVE  ShownTexts' = ShownTexts
BY DEF ShownTexts, Served, ListedViews, IndexedViews, caches, index

LEMMA ShowsIsShow ==
    ASSUME ShowsSaved', Shows
    PROVE  VP!Show
<1>1. ShownTexts' \subseteq SavedTexts'
  BY DEF ShowsSaved
<1>2. SavedTexts' = SavedTexts
  BY DEF Shows, SavedTexts
<1> QED
  BY <1>1, <1>2 DEF Shows, VP!Show, VP!Saved, ShownTexts, SavedTexts, LiveIds, Versions,
     VersionOf

LEMMA CreatesIsCreate ==
    ASSUME TextsInv, Creates, NEW p, p = nextPage
    PROVE  VP!Create(p)
<1>1. nextPage \notin LiveIds
  BY DEF LiveIds, TextsInv, PagesAreNumbered, HistoryInv, TypeOK, TablesTypeOK, Page, PageIds
<1>2. ShownTexts' = ShownTexts
  BY ServedAside DEF Creates
<1> QED
  BY <1>1, <1>2 DEF Creates, VP!Create, ShownTexts, LiveIds

LEMMA SavesIsSave ==
    ASSUME TextsInv, Saves
    PROVE  VP!Save
<1>1. PICK p, v, text, on : /\ IsLive(p) /\ (v = 1 \/ FollowsInTime(p, v, on))
                            /\ InsertContent(p, v, text, on)
                            /\ UNCHANGED <<caches, index>>
  BY DEF Saves
<1>2. PICK row : row = [id |-> nextRow, pageId |-> p, version |-> v, text |-> text,
                        editedOn |-> on]
  OBVIOUS
<1>3. contents' = contents \cup {row} /\ pages' = pages
  BY <1>1, <1>2 DEF InsertContent
<1>4. PICK version : version = VersionOf(row)
  OBVIOUS
<1>5. /\ version.row = nextRow /\ version.page = p /\ version.version = v
      /\ version.at = on
  BY <1>2, <1>4 DEF VersionOf
<1>6. Versions' = Versions \cup {version}
  BY <1>3, <1>4 DEF Versions
<1>7. \A c \in contents : c.id # nextRow
  BY DEF TextsInv, HistoryInv, RowsAreNumbered, TypeOK, TablesTypeOK, PageContent
<1>8. \A w \in Versions : w.row # nextRow
  BY <1>7 DEF Versions, VersionOf
<1>9. \/ v = 1
      \/ \E w \in Versions : w.page = p /\ w.version = v - 1 /\ w.at <= on
  <2>1. SUFFICES ASSUME FollowsInTime(p, v, on)
                 PROVE  \E w \in Versions : w.page = p /\ w.version = v - 1 /\ w.at <= on
    BY <1>1
  <2>2. PICK before : before = v - 1
    OBVIOUS
  <2>3. PICK d \in contents : d.pageId = p /\ d.version = before /\ d.editedOn <= on
    BY <2>1, <2>2 DEF FollowsInTime
  <2>4. VersionOf(d) \in Versions
    BY DEF Versions
  <2>5. /\ VersionOf(d).page = p /\ VersionOf(d).version = before
        /\ VersionOf(d).at <= on
    BY <2>3 DEF VersionOf
  <2> QED
    BY <2>2, <2>4, <2>5
<1>10. p \in LiveIds /\ LiveIds' = LiveIds
  BY <1>1, <1>3 DEF IsLive, LiveIds
<1>11. VP!Follows(version)
  BY <1>5, <1>8, <1>9, <1>10 DEF VP!Follows, Versions, VersionOf, LiveIds
<1>12. ShownTexts' = ShownTexts
  BY <1>1, ServedAside
<1> QED
  BY <1>6, <1>10, <1>11, <1>12 DEF VP!Save, Versions, VersionOf, LiveIds, ShownTexts

LEMMA NextVersions ==
    ASSUME DatesInv, ShowsSaved', KeepsPages, [Next]_vars
    PROVE  VP!Next
<1>1. TextsInv
  BY DEF DatesInv
<1>2. Shows \/ Creates \/ Saves
  BY StepsOfVersions
<1>3. CASE Shows
  BY <1>3, ShowsIsShow DEF VP!Next
<1>4. CASE Creates
  <2>p. PICK p : p = nextPage
    OBVIOUS
  <2>1. p \in PageIds /\ VP!Create(p)
    BY <1>1, <1>4, <2>p, CreatesIsCreate DEF Creates
  <2> QED
    BY <2>1 DEF VP!Next
<1>5. CASE Saves
  BY <1>1, <1>5, SavesIsSave DEF VP!Next
<1> QED
  BY <1>2, <1>3, <1>4, <1>5

LEMMA InitVersions == Init => VP!Init
<1> SUFFICES ASSUME Init PROVE VP!Init
  OBVIOUS
<1>1. TextsInv
  BY InitTexts
<1>2. LiveIds \subseteq PageIds
  BY <1>1 DEF TextsInv, HistoryInv, TypeOK, TablesTypeOK, Page, LiveIds
<1>3. \A i \in DOMAIN Seed : Seed[i].page.id = i
  BY RepositoryAssumption
<1>4. ASSUME NEW c \in contents
      PROVE  c.pageId \in LiveIds /\ c.version = 1
  <2>1. PICK i \in DOMAIN Seed : c = [id |-> i, pageId |-> i, version |-> 1,
                                      text |-> Seed[i].text, editedOn |-> 0]
    BY DEF Init, TablesInit
  <2>2. c.pageId = i /\ c.version = 1
    BY <2>1
  <2>3. Seed[i].page \in pages
    BY DEF Init, TablesInit
  <2> QED
    BY <1>3, <2>2, <2>3 DEF LiveIds
<1>5. \A v \in Versions : v.page \in LiveIds /\ v.version = 1
  BY <1>4 DEF Versions, VersionOf
<1>6. ShownTexts \subseteq SavedTexts
  BY <1>1, ShownIsSaved DEF ShowsSaved
<1> QED
  BY <1>2, <1>5, <1>6 DEF VP!Init, VP!Saved, LiveIds, Versions, VersionOf, ShownTexts,
     SavedTexts

(* As long as nobody deletes pages, the page service keeps the promise of  *)
(* VersionedPages, whatever the requests do to each other, although each   *)
(* takes the date of a version some time before it saves it.               *)
THEOREM PagesImplementVersions == KeepsPages => (Spec => KeepsVersions)
<1> SUFFICES ASSUME KeepsPages PROVE Spec => KeepsVersions
  OBVIOUS
<1>1. Init => VP!Init
  BY InitVersions
<1>2. DatesInv /\ ShowsSaved' /\ [Next]_vars => VP!Next
  BY NextVersions
<1>3. Spec => []DatesInv
  BY DatesInvariant, PTL
<1>4. DatesInv => ShowsSaved
  BY ShownIsSaved DEF DatesInv
<1> QED
  BY <1>1, <1>2, <1>3, <1>4, PTL DEF Spec, KeepsVersions, VP!Spec

-----------------------------------------------------------------------------
(* A page without content is being added or deleted, or somebody was cut   *)
(* short, or ClearPages has been there.                                    *)

HasContent(p) == \E c \in contents : c.pageId = p

FromOld(d) == \E c \in contents : c.id = d.id /\ c.pageId = d.pageId

(* What a step does to the rows: they keep their pages, and of the new     *)
(* rows there is one.                                                      *)
RowsMove ==
    \/ nextRow' = nextRow /\ \A d \in contents' : FromOld(d)
    \/ \E p : /\ nextRow' = nextRow + 1
              /\ \A d \in contents' : FromOld(d) \/ (d.id = nextRow /\ d.pageId = p)

(* The request that thread t executes next.                                *)
Continues(t, r) ==
    /\ r.rows \subseteq rq[t].rows \cup contents
    /\ r.pc = "del:contents" => \A c \in r.rows : c.pageId = r.id

GoesAhead(t) == \E r : Continues(t, r) /\ rq' = [rq EXCEPT ![t] = r]

LEMMA RowsStayPut ==
    ASSUME FlightInv, RowsMove, NEW t \in Threads, GoesAhead(t)
    PROVE  RowsStay'
<1>1. PICK r : Continues(t, r) /\ rq' = [rq EXCEPT ![t] = r]
  BY DEF GoesAhead
<1>2. \A s \in Threads : rq'[s] = IF s = t THEN r ELSE rq[s]
  BY <1>1 DEF FlightInv, TypeOK
<1>3. /\ nextRow \in Nat /\ nextRow' \in Nat /\ nextRow <= nextRow'
      /\ \A c \in contents : c.id \in Nat /\ c.id < nextRow
  BY DEF FlightInv, RowsStay, RowsAreOld, TypeOK, TablesTypeOK, PageContent, RowsMove
<1>4. \A s \in Threads : \A c \in rq[s].rows : c.id \in Nat /\ c.id < nextRow
  BY DEF FlightInv, RowsStay, RowsAreOld, TypeOK, Request, PageContent
<1>5. \A d \in contents' : d.id < nextRow'
  BY <1>3 DEF RowsMove, FromOld
<1>6. ASSUME NEW found, \A c \in found : c.id \in Nat /\ c.id < nextRow,
             SameRows(found, contents)
      PROVE  RowsAreOld(found)' /\ SameRows(found, contents')
  <2>1. RowsAreOld(found)'
    BY <1>3, <1>6 DEF RowsAreOld
  <2>2. ASSUME NEW c \in found, NEW d \in contents', d.id = c.id
        PROVE  d.pageId = c.pageId
    <3>1. FromOld(d)
      BY <1>3, <1>6, <2>2 DEF RowsMove
    <3> QED
      BY <1>6, <2>2, <3>1 DEF FromOld, SameRows
  <2> QED
    BY <2>1, <2>2 DEF SameRows
<1>7. SameRows(contents', contents')
  <2> SUFFICES ASSUME NEW c \in contents', NEW d \in contents', d.id = c.id
               PROVE  d.pageId = c.pageId
    BY DEF SameRows
  <2>1. SameRows(contents, contents)
    BY DEF FlightInv, RowsStay
  <2>2. CASE FromOld(c) /\ FromOld(d)
    BY <2>1, <2>2 DEF FromOld, SameRows
  <2>3. CASE ~FromOld(c) \/ ~FromOld(d)
    BY <1>3, <2>3 DEF RowsMove, FromOld
  <2> QED
    BY <2>2, <2>3
<1>8. /\ \A c \in r.rows : c.id \in Nat /\ c.id < nextRow
      /\ SameRows(r.rows, contents)
  <2>1. r.rows \subseteq rq[t].rows \cup contents
    BY <1>1 DEF Continues
  <2> QED
    BY <1>3, <1>4, <2>1 DEF FlightInv, RowsStay, SameRows
<1>9. ASSUME NEW s \in Threads
      PROVE  /\ RowsAreOld(rq[s].rows)' /\ SameRows(rq[s].rows, contents)'
             /\ rq'[s].pc = "del:contents" => \A c \in rq'[s].rows : c.pageId = rq'[s].id
  <2>1. PICK new : new = rq'[s]
    OBVIOUS
  <2>2. new = r \/ new = rq[s]
    BY <1>2, <2>1
  <2>3. /\ \A c \in new.rows : c.id \in Nat /\ c.id < nextRow
        /\ SameRows(new.rows, contents)
    BY <1>4, <1>8, <2>2 DEF FlightInv, RowsStay
  <2>4. RowsAreOld(new.rows)' /\ SameRows(new.rows, contents')
    BY <1>6, <2>3
  <2>5. new.pc = "del:contents" => \A c \in new.rows : c.pageId = new.id
    BY <1>1, <2>2 DEF FlightInv, RowsStay, Continues
  <2> QED
    BY <2>1, <2>4, <2>5 DEF RowsAreOld, SameRows
<1> QED
  BY <1>5, <1>7, <1>9 DEF RowsStay, RowsAreOld, SameRows

(* What is to be shown of a step: a page that is left alone without        *)
(* content was left like that before, or the step explains it.             *)
Explained(p) ==
    Unattended(p)' /\ ~Unattended(p) =>
      \E t \in Threads :
        \/ AtWork(t, p) /\ Between(t)'
        \/ At(t, "clr:contents") /\ At(t, "clr:lists")'

AllExplained == \A p \in PageIds : Explained(p)

LEMMA UnattendedIs ==
    ASSUME NEW p
    PROVE  /\ Unattended(p) <=> IsLive(p) /\ ~HasContent(p) /\ ~AtWorkOn(p)
           /\ Unattended(p)' <=> IsLive(p)' /\ ~HasContent(p)' /\ ~AtWorkOn(p)'
BY DEF Unattended, IsLive, HasContent, GetPageById, FindPageContentsByPageId

(* Of the page that thread t is at work on, and of no other.               *)
LEMMA OthersExplained ==
    ASSUME TypeOK, NEW t \in Threads, NEW r, rq' = [rq EXCEPT ![t] = r], NEW p,
           rq[t].id # p \/ rq[t].pc \notin WorkLabels,
           IsLive(p)' => IsLive(p), HasContent(p) => HasContent(p)'
    PROVE  Explained(p)
<1> SUFFICES ASSUME Unattended(p)', ~Unattended(p) PROVE FALSE
  BY DEF Explained
<1>1. IsLive(p) /\ ~HasContent(p) /\ ~AtWorkOn(p)'
  BY UnattendedIs
<1>2. PICK s \in Threads : AtWork(s, p)
  BY <1>1, UnattendedIs DEF AtWorkOn
<1>3. s # t
  BY <1>2 DEF AtWork, WorkLabels
<1>4. rq'[s] = rq[s]
  BY <1>3 DEF TypeOK
<1> QED
  BY <1>1, <1>2, <1>4 DEF AtWorkOn, AtWork

KeepsContent(t) ==
    /\ \A p : IsLive(p)' => IsLive(p)
    /\ \A p : HasContent(p) => HasContent(p)'
    /\ rq[t].pc \notin WorkLabels

LEMMA ContentKept ==
    ASSUME FlightInv, NEW t \in Threads, GoesAhead(t), KeepsContent(t)
    PROVE  AllExplained
<1>1. PICK r : rq' = [rq EXCEPT ![t] = r]
  BY DEF GoesAhead
<1> QED
  BY <1>1, OthersExplained DEF FlightInv, KeepsContent, AllExplained

(* What every step of a request is to be shown to do. *)
KeepsFlight(t) == RowsMove /\ GoesAhead(t) /\ AllExplained

LEMMA TablesKept ==
    ASSUME UNCHANGED <<contents, nextRow>>
    PROVE  RowsMove /\ \A p : HasContent(p) => HasContent(p)'
BY DEF RowsMove, FromOld, HasContent

(* A step that leaves the rows alone.                                      *)
LEMMA FlightOfRows ==
    ASSUME FlightInv, NEW t \in Threads, UNCHANGED rows,
           rq[t].pc \notin WorkLabels, GoesAhead(t)
    PROVE  KeepsFlight(t)
<1>1. RowsMove /\ \A p : HasContent(p) => HasContent(p)'
  BY TablesKept DEF rows
<1>2. KeepsContent(t)
  BY <1>1 DEF KeepsContent, IsLive, rows
<1> QED
  BY <1>1, <1>2, ContentKept DEF KeepsFlight

LEMMA FlightAside ==
    ASSUME FlightInv, NEW t \in Threads, UNCHANGED tables,
           rq[t].pc \notin WorkLabels, GoesAhead(t)
    PROVE  KeepsFlight(t)
BY FlightOfRows DEF tables, rows

LEMMA VersionAdded ==
    ASSUME NEW p, NEW v, NEW text, NEW on, InsertContent(p, v, text, on)
    PROVE  /\ RowsMove /\ pages' = pages /\ HasContent(p)'
           /\ \A q : HasContent(q) => HasContent(q)'
<1>1. PICK row : row = [id |-> nextRow, pageId |-> p, version |-> v, text |-> text,
                        editedOn |-> on]
  OBVIOUS
<1>2. /\ contents' = contents \cup {row} /\ row.id = nextRow /\ row.pageId = p
      /\ nextRow' = nextRow + 1 /\ pages' = pages
  BY <1>1 DEF InsertContent
<1>3. RowsMove
  BY <1>2 DEF RowsMove, FromOld
<1>4. HasContent(p)' /\ \A q : HasContent(q) => HasContent(q)'
  BY <1>2 DEF HasContent
<1> QED
  BY <1>2, <1>3, <1>4

(* A step that adds a version to a page.                                   *)
LEMMA FlightOfVersion ==
    ASSUME FlightInv, NEW t \in Threads, NEW p, NEW v, NEW text, NEW on,
           InsertContent(p, v, text, on), rq[t].pc \notin WorkLabels, GoesAhead(t)
    PROVE  KeepsFlight(t)
<1>1. /\ RowsMove /\ pages' = pages
      /\ \A q : HasContent(q) => HasContent(q)'
  BY VersionAdded
<1>2. KeepsContent(t)
  BY <1>1 DEF KeepsContent, IsLive
<1> QED
  BY <1>1, <1>2, ContentKept DEF KeepsFlight

-----------------------------------------------------------------------------
(* What happens to the requests. *)

LEMMA EndsAhead ==
    ASSUME NEW t \in Threads, Return(t) \/ Throw(t)
    PROVE  GoesAhead(t)
<1>1. Continues(t, Idle)
  BY DEF Continues, Idle
<1>2. \A op : Continues(t, [Idle EXCEPT !.pc = "threw", !.op = op])
  BY DEF Continues, Idle
<1> QED
  BY <1>1, <1>2 DEF GoesAhead, Return, Throw

LEMMA PassesAhead ==
    ASSUME NEW t \in Threads, rq[t] \in Request,
           NEW label \in Labels \ {"del:contents"}, Goto(t, label)
    PROVE  GoesAhead(t)
<1>1. PICK r : r = [rq[t] EXCEPT !.pc = label]
  OBVIOUS
<1>2. r.pc = label /\ r.rows = rq[t].rows
  BY <1>1 DEF Request
<1>3. Continues(t, r)
  BY <1>2 DEF Continues
<1> QED
  BY <1>1, <1>3 DEF GoesAhead, Goto

LEMMA BecomesAhead ==
    ASSUME NEW t \in Threads, NEW r, Become(t, r) \/ Begin(t, r),
           r.rows \subseteq rq[t].rows \cup contents,
           r.pc \notin {"del:contents", "clr:contents"}
    PROVE  GoesAhead(t)
BY DEF GoesAhead, Continues, Become, Begin

-----------------------------------------------------------------------------
(* The steps of the requests. *)

LEMMA ReadOnFlight ==
    ASSUME FlightInv, NEW t \in Threads, ReadOn(t)
    PROVE  KeepsFlight(t)
<1>r. rq[t] \in Request /\ TypeOK
  BY DEF FlightInv, TypeOK
<1>1. CASE GetByIdPage(t)
  <2>1. UNCHANGED tables /\ rq[t].pc \notin WorkLabels
    BY <1>1 DEF GetByIdPage, At, WorkLabels
  <2>2. GoesAhead(t)
    BY <1>1, <1>r, EndsAhead, PassesAhead, BecomesAhead DEF GetByIdPage, Request, Labels
  <2> QED
    BY <2>1, <2>2, FlightAside
<1>2. CASE GetByIdContent(t)
  <2>1. UNCHANGED tables /\ rq[t].pc \notin WorkLabels
    BY <1>2 DEF GetByIdContent, At, WorkLabels
  <2>2. GoesAhead(t)
    BY <1>2, <1>r, EndsAhead, PassesAhead, BecomesAhead DEF GetByIdContent, Request, Labels
  <2> QED
    BY <2>1, <2>2, FlightAside
<1>3. CASE GetByIdCache(t)
  <2>1. UNCHANGED tables /\ rq[t].pc \notin WorkLabels
    BY <1>3 DEF GetByIdCache, At, WorkLabels
  <2>2. GoesAhead(t)
    BY <1>3, <1>r, EndsAhead, PassesAhead, BecomesAhead DEF GetByIdCache, Request, Labels
  <2> QED
    BY <2>1, <2>2, FlightAside
<1>4. CASE HomePageAny(t)
  <2>1. UNCHANGED tables /\ rq[t].pc \notin WorkLabels
    BY <1>4 DEF HomePageAny, At, WorkLabels
  <2>2. GoesAhead(t)
    BY <1>4, <1>r, EndsAhead, PassesAhead, BecomesAhead DEF HomePageAny, Request, Labels
  <2> QED
    BY <2>1, <2>2, FlightAside
<1>5. CASE HomePageContent(t)
  <2>1. UNCHANGED tables /\ rq[t].pc \notin WorkLabels
    BY <1>5 DEF HomePageContent, At, WorkLabels
  <2>2. GoesAhead(t)
    BY <1>5, <1>r, EndsAhead, PassesAhead, BecomesAhead DEF HomePageContent, Request, Labels
  <2> QED
    BY <2>1, <2>2, FlightAside
<1>6. CASE HomePageCache(t)
  <2>1. UNCHANGED tables /\ rq[t].pc \notin WorkLabels
    BY <1>6 DEF HomePageCache, At, WorkLabels
  <2>2. GoesAhead(t)
    BY <1>6, <1>r, EndsAhead, PassesAhead, BecomesAhead DEF HomePageCache, Request, Labels
  <2> QED
    BY <2>1, <2>2, FlightAside
<1>7. CASE ListPages(t)
  <2>1. UNCHANGED tables /\ rq[t].pc \notin WorkLabels
    BY <1>7 DEF ListPages, At, WorkLabels
  <2>2. GoesAhead(t)
    BY <1>7, <1>r, EndsAhead, PassesAhead, BecomesAhead DEF ListPages, Request, Labels
  <2> QED
    BY <2>1, <2>2, FlightAside
<1>8. CASE ListContent(t)
  <2>1. UNCHANGED tables /\ rq[t].pc \notin WorkLabels
    BY <1>8 DEF ListContent, At, WorkLabels
  <2>2. GoesAhead(t)
    <3>1. \A pg, c :
            LET next == [rq[t] EXCEPT !.todo = @ \ {pg}, !.views = @ \cup {ViewOf(pg, c)}]
            IN next.rows = rq[t].rows /\ next.pc = rq[t].pc
      BY <1>r DEF Request
    <3>2. rq[t].pc = "list:contents"
      BY <1>8 DEF ListContent, At
    <3> QED
      BY <1>8, <1>r, <3>1, <3>2, EndsAhead, PassesAhead, BecomesAhead DEF ListContent, Labels
  <2> QED
    BY <2>1, <2>2, FlightAside
<1>9. CASE ListCacheAdd(t)
  <2>1. UNCHANGED tables /\ rq[t].pc \notin WorkLabels
    BY <1>9 DEF ListCacheAdd, At, WorkLabels
  <2>2. GoesAhead(t)
    BY <1>9, <1>r, EndsAhead, PassesAhead, BecomesAhead DEF ListCacheAdd, Request, Labels
  <2> QED
    BY <2>1, <2>2, FlightAside
<1>10. CASE ComparePrevious(t)
  <2>1. UNCHANGED tables /\ rq[t].pc \notin WorkLabels
    BY <1>10 DEF ComparePrevious, At, WorkLabels
  <2>2. GoesAhead(t)
    BY <1>10, <1>r, EndsAhead, PassesAhead, BecomesAhead DEF ComparePrevious, Request, Labels
  <2> QED
    BY <2>1, <2>2, FlightAside
<1>11. CASE CompareCache(t)
  <2>1. UNCHANGED tables /\ rq[t].pc \notin WorkLabels
    BY <1>11 DEF CompareCache, At, WorkLabels
  <2>2. GoesAhead(t)
    BY <1>11, <1>r, EndsAhead, PassesAhead, BecomesAhead DEF CompareCache, Request, Labels
  <2> QED
    BY <2>1, <2>2, FlightAside
<1> QED
  BY <1>1, <1>2, <1>3, <1>4, <1>5, <1>6, <1>7, <1>8, <1>9, <1>10, <1>11 DEF ReadOn

LEMMA UpdateOnFlight ==
    ASSUME FlightInv, NEW t \in Threads, UpdateOn(t)
    PROVE  KeepsFlight(t)
<1>r. rq[t] \in Request /\ TypeOK
  BY DEF FlightInv, TypeOK
<1>1. CASE UpdatePageLoad(t)
  <2>1. UNCHANGED tables /\ rq[t].pc \notin WorkLabels
    BY <1>1 DEF UpdatePageLoad, At, WorkLabels
  <2>2. GoesAhead(t)
    BY <1>1, <1>r, EndsAhead, PassesAhead, BecomesAhead DEF UpdatePageLoad, Request, Labels
  <2> QED
    BY <2>1, <2>2, FlightAside
<1>2. CASE UpdatePageSave(t)
  <2>1. rq[t].pc \notin WorkLabels
    BY <1>2 DEF UpdatePageSave, At, WorkLabels
  <2>2. GoesAhead(t)
    BY <1>2, <1>r, PassesAhead DEF UpdatePageSave, Labels
  <2>3. /\ pages' = {IF q.id = rq[t].page.id THEN rq[t].page ELSE q : q \in pages}
        /\ UNCHANGED <<contents, nextRow>>
    BY <1>2 DEF UpdatePageSave, SaveOrUpdatePage
  <2>4. \A p : IsLive(p)' => IsLive(p)
    BY <2>3 DEF IsLive
  <2>5. RowsMove /\ \A p : HasContent(p) => HasContent(p)'
    BY <2>3, TablesKept
  <2>6. KeepsContent(t)
    BY <2>1, <2>4, <2>5 DEF KeepsContent
  <2> QED
    BY <2>2, <2>5, <2>6, ContentKept DEF KeepsFlight
<1>3. CASE UpdatePageUncache(t)
  <2>1. UNCHANGED tables /\ rq[t].pc \notin WorkLabels
    BY <1>3 DEF UpdatePageUncache, At, WorkLabels
  <2>2. GoesAhead(t)
    BY <1>3, <1>r, EndsAhead, PassesAhead, BecomesAhead DEF UpdatePageUncache, Request, Labels
  <2> QED
    BY <2>1, <2>2, FlightAside
<1>4. CASE UpdatePageUncacheHome(t)
  <2>1. UNCHANGED tables /\ rq[t].pc \notin WorkLabels
    BY <1>4 DEF UpdatePageUncacheHome, At, WorkLabels
  <2>2. GoesAhead(t)
    BY <1>4, <1>r, EndsAhead, PassesAhead, BecomesAhead DEF UpdatePageUncacheHome, Request, Labels
  <2> QED
    BY <2>1, <2>2, FlightAside
<1>5. CASE UpdatePageUncacheLists(t)
  <2>1. UNCHANGED tables /\ rq[t].pc \notin WorkLabels
    BY <1>5 DEF UpdatePageUncacheLists, At, WorkLabels
  <2>2. GoesAhead(t)
    BY <1>5, <1>r, EndsAhead, PassesAhead, BecomesAhead DEF UpdatePageUncacheLists, Request, Labels
  <2> QED
    BY <2>1, <2>2, FlightAside
<1>6. CASE UpdatePageMaxVersion(t)
  <2>1. UNCHANGED tables /\ rq[t].pc \notin WorkLabels
    BY <1>6 DEF UpdatePageMaxVersion, At, WorkLabels
  <2>2. GoesAhead(t)
    BY <1>6, <1>r, EndsAhead, PassesAhead, BecomesAhead DEF UpdatePageMaxVersion, Request, Labels
  <2> QED
    BY <2>1, <2>2, FlightAside
<1>7. CASE UpdatePageInsert(t)
  <2>1. rq[t].pc \notin WorkLabels
    BY <1>7 DEF UpdatePageInsert, At, WorkLabels
  <2>2. GoesAhead(t)
    BY <1>7, <1>r, EndsAhead, PassesAhead DEF UpdatePageInsert, Labels
  <2>3. CASE UNCHANGED tables
    BY <2>1, <2>2, <2>3, FlightAside
  <2>4. CASE AddNewPageContentVersion(rq[t].id, rq[t].ver, rq[t].model.text, rq[t].on)
    BY <2>1, <2>2, <2>4, FlightOfVersion DEF AddNewPageContentVersion
  <2> QED
    BY <1>7, <2>3, <2>4 DEF UpdatePageInsert
<1>8. CASE UpdateLinksRead(t)
  <2>1. UNCHANGED tables /\ rq[t].pc \notin WorkLabels
    BY <1>8 DEF UpdateLinksRead, At, WorkLabels
  <2>2. GoesAhead(t)
    <3>1. PICK linking, label :
            /\ linking \subseteq contents /\ label \in {"upd:latest", "upd:rewrite"}
            /\ Become(t, [rq[t] EXCEPT !.rows = linking, !.pc = label])
      BY <1>8 DEF UpdateLinksRead
    <3> QED
      BY <1>r, <3>1, BecomesAhead DEF Request
  <2> QED
    BY <2>1, <2>2, FlightAside
<1>9. CASE UpdateLinksRewrite(t)
  <2>1. rq[t].pc \notin WorkLabels /\ rq[t].pc = "upd:rewrite"
    BY <1>9 DEF UpdateLinksRewrite, At, WorkLabels
  <2>2. CASE Goto(t, "upd:clearpages") /\ UNCHANGED tables
    BY <1>r, <2>1, <2>2, PassesAhead, FlightAside DEF Labels
  <2>3. ASSUME NEW c \in rq[t].rows,
               UpdatePageContent([c EXCEPT !.text = ReplacePageLinks(@,
                                    rq[t].prev, rq[t].model.page.title)]),
               Become(t, [rq[t] EXCEPT !.rows = @ \ {c}])
        PROVE  KeepsFlight(t)
    <3>1. PICK row : row = [c EXCEPT !.text = ReplacePageLinks(@,
                                    rq[t].prev, rq[t].model.page.title)]
      OBVIOUS
    <3>2. row.id = c.id /\ row.pageId = c.pageId
      BY <1>r, <3>1 DEF Request, PageContent
    <3>3. /\ contents' = {IF d.id = row.id THEN row ELSE d : d \in contents}
          /\ pages' = pages /\ nextRow' = nextRow
      BY <2>3, <3>1 DEF UpdatePageContent
    <3>4. \A d \in contents : d.id = row.id => d.pageId = row.pageId
      BY <3>2 DEF FlightInv, RowsStay, SameRows
    <3>5. RowsMove
      BY <3>3, <3>4 DEF RowsMove, FromOld
    <3>6. \A p : HasContent(p) => HasContent(p)'
      BY <3>3, <3>4 DEF HasContent
    <3>7. KeepsContent(t)
      BY <2>1, <3>3, <3>6 DEF KeepsContent, IsLive
    <3>8. PICK r : r = [rq[t] EXCEPT !.rows = @ \ {c}]
      OBVIOUS
    <3>9. r.rows \subseteq rq[t].rows /\ r.pc = rq[t].pc
      BY <1>r, <3>8 DEF Request
    <3>10. GoesAhead(t)
      BY <2>1, <2>3, <3>8, <3>9, BecomesAhead
    <3> QED
      BY <3>5, <3>7, <3>10, ContentKept DEF KeepsFlight
  <2> QED
    BY <1>9, <2>2, <2>3 DEF UpdateLinksRewrite
<1>10. CASE UpdateLinksClearPages(t)
  <2>1. UNCHANGED tables /\ rq[t].pc \notin WorkLabels
    BY <1>10 DEF UpdateLinksClearPages, At, WorkLabels
  <2>2. GoesAhead(t)
    BY <1>10, <1>r, EndsAhead, PassesAhead, BecomesAhead DEF UpdateLinksClearPages, Request, Labels
  <2> QED
    BY <2>1, <2>2, FlightAside
<1>11. CASE UpdateLinksClearLists(t)
  <2>1. UNCHANGED tables /\ rq[t].pc \notin WorkLabels
    BY <1>11 DEF UpdateLinksClearLists, At, WorkLabels
  <2>2. GoesAhead(t)
    BY <1>11, <1>r, EndsAhead, PassesAhead, BecomesAhead DEF UpdateLinksClearLists, Request, Labels
  <2> QED
    BY <2>1, <2>2, FlightAside
<1>12. CASE UpdatePageReread(t)
  <2>1. UNCHANGED tables /\ rq[t].pc \notin WorkLabels
    BY <1>12 DEF UpdatePageReread, At, WorkLabels
  <2>2. GoesAhead(t)
    BY <1>12, <1>r, EndsAhead, PassesAhead, BecomesAhead DEF UpdatePageReread, Request, Labels
  <2> QED
    BY <2>1, <2>2, FlightAside
<1>13. CASE UpdatePageUnindex(t)
  <2>1. UNCHANGED tables /\ rq[t].pc \notin WorkLabels
    BY <1>13 DEF UpdatePageUnindex, At, WorkLabels
  <2>2. GoesAhead(t)
    BY <1>13, <1>r, EndsAhead, PassesAhead, BecomesAhead DEF UpdatePageUnindex, Request, Labels
  <2> QED
    BY <2>1, <2>2, FlightAside
<1>14. CASE UpdatePageIndex(t)
  <2>1. UNCHANGED tables /\ rq[t].pc \notin WorkLabels
    BY <1>14 DEF UpdatePageIndex, At, WorkLabels
  <2>2. GoesAhead(t)
    BY <1>14, <1>r, EndsAhead, PassesAhead, BecomesAhead DEF UpdatePageIndex, Request, Labels
  <2> QED
    BY <2>1, <2>2, FlightAside
<1>15. CASE UpdatePageTakeTime(t)
  <2>1. UNCHANGED rows /\ rq[t].pc \notin WorkLabels
    BY <1>15 DEF UpdatePageTakeTime, At, WorkLabels
  <2>2. GoesAhead(t)
    BY <1>15, <1>r, BecomesAhead DEF UpdatePageTakeTime, Request
  <2> QED
    BY <2>1, <2>2, FlightOfRows
<1> QED
  BY <1>1, <1>2, <1>3, <1>4, <1>5, <1>6, <1>7, <1>8, <1>9, <1>10, <1>11, <1>12, <1>13,
     <1>14, <1>15 DEF UpdateOn

(* A request that is cut short before the step has changed anything.       *)
LEMMA CutShort ==
    ASSUME FlightInv, NEW t \in Threads, UNCHANGED tables, Throw(t)
    PROVE  KeepsFlight(t)
<1>1. RowsMove /\ \A p : HasContent(p) => HasContent(p)'
  BY TablesKept DEF tables
<1>2. PICK r : rq' = [rq EXCEPT ![t] = r] /\ r.pc = "threw"
  <2>1. \A op : [Idle EXCEPT !.pc = "threw", !.op = op].pc = "threw"
    BY DEF Idle
  <2> QED
    BY <2>1 DEF Throw
<1>3. rq'[t].pc = "threw"
  BY <1>2 DEF FlightInv, TypeOK
<1>4. ASSUME NEW p \in PageIds
      PROVE  Explained(p)
  <2>1. CASE AtWork(t, p)
    BY <1>3, <2>1 DEF Explained, Between
  <2>2. CASE ~AtWork(t, p)
    BY <1>1, <1>2, <2>2, OthersExplained DEF FlightInv, AtWork, WorkLabels, IsLive, tables
  <2> QED
    BY <2>1, <2>2
<1>5. GoesAhead(t)
  BY EndsAhead
<1> QED
  BY <1>1, <1>4, <1>5 DEF KeepsFlight, AllExplained

(* AddPage stores the content of its page, unless it is cut short.         *)
LEMMA AddedContent ==
    ASSUME FlightInv, NEW t \in Threads, AddPageContent(t)
    PROVE  KeepsFlight(t)
<1>r. rq[t] \in Request /\ rq[t].pc = "add:content"
  BY DEF FlightInv, TypeOK, AddPageContent, At
<1>1. CASE InsertContent(rq[t].id, 1, rq[t].model.text, rq[t].on) /\ Goto(t, "add:lists")
  <2>1. GoesAhead(t)
    BY <1>r, <1>1, PassesAhead DEF Labels
  <2>2. PICK r : rq' = [rq EXCEPT ![t] = r]
    BY <2>1 DEF GoesAhead
  <2>3. PICK added : added = rq[t].id
    OBVIOUS
  <2>4. /\ RowsMove /\ pages' = pages /\ HasContent(added)'
        /\ \A q : HasContent(q) => HasContent(q)'
    BY <1>1, <2>3, VersionAdded
  <2>5. ASSUME NEW p \in PageIds
        PROVE  Explained(p)
    <3>1. CASE p = added
      BY <2>4, <3>1, UnattendedIs DEF Explained
    <3>2. CASE p # added
      BY <2>2, <2>3, <2>4, <3>2, OthersExplained DEF FlightInv, IsLive
    <3> QED
      BY <3>1, <3>2
  <2> QED
    BY <2>1, <2>4, <2>5 DEF KeepsFlight, AllExplained
<1>2. CASE Throw(t) /\ UNCHANGED tables
  BY <1>2, CutShort
<1> QED
  BY <1>1, <1>2 DEF AddPageContent

(* A row that DeletePage deletes is of the page it deletes.                *)
LEMMA DeletedContent ==
    ASSUME FlightInv, NEW t \in Threads, DeletePageContents(t)
    PROVE  KeepsFlight(t)
<1>r. rq[t] \in Request /\ rq[t].pc = "del:contents"
  BY DEF FlightInv, TypeOK, DeletePageContents, At
<1>1. PICK r : /\ Continues(t, r) /\ rq' = [rq EXCEPT ![t] = r]
               /\ r.id = rq[t].id /\ r.pc \in WorkLabels
  <2>1. ASSUME Goto(t, "del:row")
        PROVE  \E r : /\ Continues(t, r) /\ rq' = [rq EXCEPT ![t] = r]
                      /\ r.id = rq[t].id /\ r.pc \in WorkLabels
    <3>1. PICK r : r = [rq[t] EXCEPT !.pc = "del:row"]
      OBVIOUS
    <3>2. r.id = rq[t].id /\ r.pc = "del:row" /\ r.rows = rq[t].rows
      BY <1>r, <3>1 DEF Request
    <3>3. rq' = [rq EXCEPT ![t] = r]
      BY <2>1, <3>1 DEF Goto
    <3> QED
      BY <3>2, <3>3 DEF Continues, WorkLabels
  <2>2. ASSUME NEW c \in rq[t].rows, Become(t, [rq[t] EXCEPT !.rows = @ \ {c}])
        PROVE  \E r : /\ Continues(t, r) /\ rq' = [rq EXCEPT ![t] = r]
                      /\ r.id = rq[t].id /\ r.pc \in WorkLabels
    <3>1. PICK r : r = [rq[t] EXCEPT !.rows = @ \ {c}]
      OBVIOUS
    <3>2. r.id = rq[t].id /\ r.pc = "del:contents" /\ r.rows \subseteq rq[t].rows
      BY <1>r, <3>1 DEF Request
    <3>3. rq' = [rq EXCEPT ![t] = r]
      BY <2>2, <3>1 DEF Become
    <3>4. \A d \in r.rows : d.pageId = r.id
      BY <1>r, <3>2 DEF FlightInv, RowsStay
    <3> QED
      BY <3>2, <3>3, <3>4 DEF Continues, WorkLabels
  <2> QED
    BY <2>1, <2>2 DEF DeletePageContents
<1>2. GoesAhead(t)
  BY <1>1 DEF GoesAhead
<1>3. /\ contents' \subseteq contents /\ nextRow' = nextRow /\ pages' = pages
      /\ \A d \in contents : d.pageId # rq[t].id => d \in contents'
  <2>1. CASE UNCHANGED tables
    BY <2>1 DEF tables
  <2>2. ASSUME NEW c \in rq[t].rows, DeletePageContent(c)
        PROVE  /\ contents' \subseteq contents /\ nextRow' = nextRow /\ pages' = pages
               /\ \A d \in contents : d.pageId # rq[t].id => d \in contents'
    <3>1. \A d \in contents : d.id = c.id => d.pageId = rq[t].id
      BY <1>r DEF FlightInv, RowsStay, SameRows
    <3> QED
      BY <2>2, <3>1 DEF DeletePageContent
  <2> QED
    BY <2>1, <2>2 DEF DeletePageContents
<1>4. RowsMove
  BY <1>3 DEF RowsMove, FromOld
<1>5. ASSUME NEW p \in PageIds
      PROVE  Explained(p)
  <2>1. CASE p = rq[t].id
    <3>1. rq'[t] = r
      BY <1>1 DEF FlightInv, TypeOK
    <3>2. AtWorkOn(p)'
      BY <1>1, <2>1, <3>1 DEF AtWorkOn, AtWork, WorkLabels
    <3> QED
      BY <3>2, UnattendedIs DEF Explained
  <2>2. CASE p # rq[t].id
    <3>1. HasContent(p) => HasContent(p)'
      BY <1>3, <2>2 DEF HasContent
    <3>2. IsLive(p)' => IsLive(p)
      BY <1>3 DEF IsLive
    <3> QED
      BY <1>1, <2>2, <3>1, <3>2, OthersExplained DEF FlightInv
  <2> QED
    BY <2>1, <2>2
<1> QED
  BY <1>2, <1>4, <1>5 DEF KeepsFlight, AllExplained

(* The page and what it has left go together.                              *)
LEMMA DeletedPage ==
    ASSUME FlightInv, NEW t \in Threads, DeletePageRow(t)
    PROVE  KeepsFlight(t)
<1>r. rq[t] \in Request /\ rq[t].pc = "del:row"
  BY DEF FlightInv, TypeOK, DeletePageRow, At
<1>1. GoesAhead(t)
  BY <1>r, PassesAhead DEF DeletePageRow, Labels
<1>2. PICK r : rq' = [rq EXCEPT ![t] = r]
  BY <1>1 DEF GoesAhead
<1>3. /\ contents' \subseteq contents /\ nextRow' = nextRow
      /\ \A q \in pages' : q \in pages /\ q.id # rq[t].id
      /\ \A d \in contents : d.pageId # rq[t].id => d \in contents'
  BY DEF DeletePageRow, DeletePage, FindPageContentsByPageId
<1>4. RowsMove
  BY <1>3 DEF RowsMove, FromOld
<1>5. ASSUME NEW p \in PageIds
      PROVE  Explained(p)
  <2>1. CASE p = rq[t].id
    <3>1. ~IsLive(p)'
      BY <1>3, <2>1 DEF IsLive
    <3> QED
      BY <3>1, UnattendedIs DEF Explained
  <2>2. CASE p # rq[t].id
    <3>1. HasContent(p) => HasContent(p)'
      BY <1>3, <2>2 DEF HasContent
    <3>2. IsLive(p)' => IsLive(p)
      BY <1>3 DEF IsLive
    <3> QED
      BY <1>2, <2>2, <3>1, <3>2, OthersExplained DEF FlightInv
  <2> QED
    BY <2>1, <2>2
<1> QED
  BY <1>1, <1>4, <1>5 DEF KeepsFlight, AllExplained

(* ClearPages deletes the contents of every page, of those that were added *)
(* since it deleted the pages too.                                         *)
LEMMA ClearedContents ==
    ASSUME FlightInv, NEW t \in Threads, ClearPagesContents(t)
    PROVE  KeepsFlight(t)
<1>r. rq[t] \in Request
  BY DEF FlightInv, TypeOK
<1>1. GoesAhead(t)
  BY <1>r, PassesAhead DEF ClearPagesContents, Labels
<1>2. RowsMove
  BY DEF ClearPagesContents, DeleteAllContentRows, RowsMove
<1>3. PICK r : r = [rq[t] EXCEPT !.pc = "clr:lists"]
  OBVIOUS
<1>4. r.pc = "clr:lists"
  BY <1>r, <1>3 DEF Request
<1>5. rq'[t] = r
  BY <1>3 DEF ClearPagesContents, Goto, FlightInv, TypeOK
<1>6. At(t, "clr:contents") /\ At(t, "clr:lists")'
  BY <1>4, <1>5 DEF ClearPagesContents, At
<1> QED
  BY <1>1, <1>2, <1>6 DEF KeepsFlight, AllExplained, Explained

LEMMA WriteOnFlight ==
    ASSUME FlightInv, NEW t \in Threads, WriteOn(t)
    PROVE  KeepsFlight(t)
<1>r. rq[t] \in Request /\ TypeOK
  BY DEF FlightInv, TypeOK
<1>1. CASE AddPageContent(t)
  BY <1>1, AddedContent
<1>2. CASE AddPageClearLists(t)
  <2>1. UNCHANGED tables /\ rq[t].pc \notin WorkLabels
    BY <1>2 DEF AddPageClearLists, At, WorkLabels
  <2>2. GoesAhead(t)
    BY <1>2, <1>r, EndsAhead, PassesAhead, BecomesAhead DEF AddPageClearLists, Request, Labels
  <2> QED
    BY <2>1, <2>2, FlightAside
<1>3. CASE AddPageClearPages(t)
  <2>1. UNCHANGED tables /\ rq[t].pc \notin WorkLabels
    BY <1>3 DEF AddPageClearPages, At, WorkLabels
  <2>2. GoesAhead(t)
    BY <1>3, <1>r, EndsAhead, PassesAhead, BecomesAhead DEF AddPageClearPages, Request, Labels
  <2> QED
    BY <2>1, <2>2, FlightAside
<1>4. CASE AddPageIndex(t)
  <2>1. UNCHANGED tables /\ rq[t].pc \notin WorkLabels
    BY <1>4 DEF AddPageIndex, At, WorkLabels
  <2>2. GoesAhead(t)
    BY <1>4, <1>r, EndsAhead, PassesAhead, BecomesAhead DEF AddPageIndex, Request, Labels
  <2> QED
    BY <2>1, <2>2, FlightAside
<1>5. CASE RevertMaxVersion(t)
  <2>1. UNCHANGED tables /\ rq[t].pc \notin WorkLabels
    BY <1>5 DEF RevertMaxVersion, At, WorkLabels
  <2>2. GoesAhead(t)
    BY <1>5, <1>r, EndsAhead, PassesAhead, BecomesAhead DEF RevertMaxVersion, Request, Labels
  <2> QED
    BY <2>1, <2>2, FlightAside
<1>6. CASE RevertInsert(t)
  <2>1. rq[t].pc \notin WorkLabels
    BY <1>6 DEF RevertInsert, At, WorkLabels
  <2>2. GoesAhead(t)
    BY <1>6, <1>r, EndsAhead, PassesAhead DEF RevertInsert, Labels
  <2>3. CASE UNCHANGED tables
    BY <2>1, <2>2, <2>3, FlightAside
  <2>4. CASE AddNewPageContentVersion(rq[t].id, rq[t].ver, rq[t].view.text, rq[t].on)
    BY <2>1, <2>2, <2>4, FlightOfVersion DEF AddNewPageContentVersion
  <2> QED
    BY <1>6, <2>3, <2>4 DEF RevertInsert
<1>7. CASE RevertCache(t)
  <2>1. UNCHANGED tables /\ rq[t].pc \notin WorkLabels
    BY <1>7 DEF RevertCache, At, WorkLabels
  <2>2. GoesAhead(t)
    BY <1>7, <1>r, EndsAhead, PassesAhead, BecomesAhead DEF RevertCache, Request, Labels
  <2> QED
    BY <2>1, <2>2, FlightAside
<1>8. CASE RenameTagNext(t)
  <2>1. UNCHANGED tables /\ rq[t].pc \notin WorkLabels
    BY <1>8 DEF RenameTagNext, At, WorkLabels
  <2>2. GoesAhead(t)
    <3>1. \A view : NextRenamed(t, view).rows = rq[t].rows /\ NextRenamed(t, view).pc = "tag:unindex"
      BY <1>r DEF NextRenamed, Request
    <3>2. \A view, pg : /\ [NextRenamed(t, view) EXCEPT !.todo = @ \ {pg}].rows = rq[t].rows
                        /\ [NextRenamed(t, view) EXCEPT !.todo = @ \ {pg}].pc = "tag:unindex"
      BY <1>r DEF NextRenamed, Request
    <3>3. CASE \E view \in rq[t].views : Become(t, NextRenamed(t, view))
      BY <3>1, <3>3, BecomesAhead
    <3>4. CASE \E pg \in rq[t].todo : RenameTagQueried(t, pg)
      BY <3>2, <3>4, BecomesAhead, EndsAhead DEF RenameTagQueried
    <3>5. CASE Goto(t, "tag:done")
      BY <1>r, <3>5, PassesAhead DEF Labels
    <3> QED
      BY <1>8, <3>3, <3>4, <3>5 DEF RenameTagNext
  <2> QED
    BY <2>1, <2>2, FlightAside
<1>9. CASE RenameTagUnindex(t)
  <2>1. UNCHANGED tables /\ rq[t].pc \notin WorkLabels
    BY <1>9 DEF RenameTagUnindex, At, WorkLabels
  <2>2. \A view, views :
          LET next == [rq[t] EXCEPT !.pc = "upd:page", !.model = view, !.views = views]
          IN next.rows = rq[t].rows /\ next.pc = "upd:page"
    BY <1>r DEF Request
  <2>3. GoesAhead(t)
    BY <1>9, <2>2, EndsAhead, BecomesAhead DEF RenameTagUnindex
  <2> QED
    BY <2>1, <2>3, FlightAside
<1>10. CASE RenameTagUncache(t)
  <2>1. UNCHANGED tables /\ rq[t].pc \notin WorkLabels
    BY <1>10 DEF RenameTagUncache, At, WorkLabels
  <2>2. GoesAhead(t)
    BY <1>10, <1>r, EndsAhead, PassesAhead, BecomesAhead DEF RenameTagUncache, Request, Labels
  <2> QED
    BY <2>1, <2>2, FlightAside
<1>11. CASE DeletePageLatest(t)
  <2>1. UNCHANGED tables /\ rq[t].pc \notin WorkLabels
    BY <1>11 DEF DeletePageLatest, At, WorkLabels
  <2>2. GoesAhead(t)
    BY <1>11, <1>r, EndsAhead, PassesAhead, BecomesAhead DEF DeletePageLatest, Request, Labels
  <2> QED
    BY <2>1, <2>2, FlightAside
<1>12. CASE DeletePageUnindex(t)
  <2>1. UNCHANGED tables /\ rq[t].pc \notin WorkLabels
    BY <1>12 DEF DeletePageUnindex, At, WorkLabels
  <2>2. GoesAhead(t)
    BY <1>12, <1>r, EndsAhead, PassesAhead, BecomesAhead DEF DeletePageUnindex, Request, Labels
  <2> QED
    BY <2>1, <2>2, FlightAside
<1>13. CASE DeletePageChildren(t)
  <2>1. UNCHANGED tables /\ rq[t].pc \notin WorkLabels
    BY <1>13 DEF DeletePageChildren, At, WorkLabels
  <2>2. GoesAhead(t)
    <3>1. PICK r : r = [rq[t] EXCEPT !.pc = "del:contents",
                                     !.rows = FindPageContentsByPageId(rq[t].id)]
      OBVIOUS
    <3>2. r.id = rq[t].id /\ r.rows = FindPageContentsByPageId(rq[t].id) /\ r.pc = "del:contents"
      BY <1>r, <3>1 DEF Request
    <3>3. Continues(t, r)
      BY <3>2 DEF Continues, FindPageContentsByPageId
    <3> QED
      BY <1>13, <3>1, <3>3 DEF DeletePageChildren, GoesAhead, Become
  <2> QED
    BY <2>1, <2>2, FlightAside
<1>14. CASE DeletePageContents(t)
  BY <1>14, DeletedContent
<1>15. CASE DeletePageRow(t)
  BY <1>15, DeletedPage
<1>16. CASE DeletePageClearLists(t)
  <2>1. UNCHANGED tables /\ rq[t].pc \notin WorkLabels
    BY <1>16 DEF DeletePageClearLists, At, WorkLabels
  <2>2. GoesAhead(t)
    BY <1>16, <1>r, EndsAhead, PassesAhead, BecomesAhead DEF DeletePageClearLists, Request, Labels
  <2> QED
    BY <2>1, <2>2, FlightAside
<1>17. CASE DeletePageClearPages(t)
  <2>1. UNCHANGED tables /\ rq[t].pc \notin WorkLabels
    BY <1>17 DEF DeletePageClearPages, At, WorkLabels
  <2>2. GoesAhead(t)
    BY <1>17, <1>r, EndsAhead, PassesAhead, BecomesAhead DEF DeletePageClearPages, Request, Labels
  <2> QED
    BY <2>1, <2>2, FlightAside
<1>18. CASE ClearPagesContents(t)
  BY <1>18, ClearedContents
<1>19. CASE ClearPagesLists(t)
  <2>1. UNCHANGED tables /\ rq[t].pc \notin WorkLabels
    BY <1>19 DEF ClearPagesLists, At, WorkLabels
  <2>2. GoesAhead(t)
    BY <1>19, <1>r, EndsAhead, PassesAhead, BecomesAhead DEF ClearPagesLists, Request, Labels
  <2> QED
    BY <2>1, <2>2, FlightAside
<1>20. CASE ClearPagesPages(t)
  <2>1. UNCHANGED tables /\ rq[t].pc \notin WorkLabels
    BY <1>20 DEF ClearPagesPages, At, WorkLabels
  <2>2. GoesAhead(t)
    BY <1>20, <1>r, EndsAhead, PassesAhead, BecomesAhead DEF ClearPagesPages, Request, Labels
  <2> QED
    BY <2>1, <2>2, FlightAside
<1>21. CASE ClearCacheLists(t)
  <2>1. UNCHANGED tables /\ rq[t].pc \notin WorkLabels
    BY <1>21 DEF ClearCacheLists, At, WorkLabels
  <2>2. GoesAhead(t)
    BY <1>21, <1>r, EndsAhead, PassesAhead, BecomesAhead DEF ClearCacheLists, Request, Labels
  <2> QED
    BY <2>1, <2>2, FlightAside
<1>22. CASE CreateIndexContent(t)
  <2>1. UNCHANGED tables /\ rq[t].pc \notin WorkLabels
    BY <1>22 DEF CreateIndexContent, At, WorkLabels
  <2>2. GoesAhead(t)
    <3>1. \A pg, c :
            LET next == [rq[t] EXCEPT !.todo = @ \ {pg}, !.views = @ \cup {ViewOf(pg, c)}]
            IN next.rows = rq[t].rows /\ next.pc = rq[t].pc
      BY <1>r DEF Request
    <3>2. rq[t].pc = "idx:contents"
      BY <1>22 DEF CreateIndexContent, At
    <3> QED
      BY <1>22, <1>r, <3>1, <3>2, EndsAhead, PassesAhead, BecomesAhead DEF CreateIndexContent, Labels
  <2> QED
    BY <2>1, <2>2, FlightAside
<1>23. CASE CreateIndexClose(t)
  <2>1. UNCHANGED tables /\ rq[t].pc \notin WorkLabels
    BY <1>23 DEF CreateIndexClose, At, WorkLabels
  <2>2. GoesAhead(t)
    BY <1>23, <1>r, EndsAhead, PassesAhead, BecomesAhead DEF CreateIndexClose, Request, Labels
  <2> QED
    BY <2>1, <2>2, FlightAside
<1>24. CASE RevertTakeTime(t)
  <2>1. UNCHANGED rows /\ rq[t].pc \notin WorkLabels
    BY <1>24 DEF RevertTakeTime, At, WorkLabels
  <2>2. GoesAhead(t)
    BY <1>24, <1>r, BecomesAhead DEF RevertTakeTime, Request
  <2> QED
    BY <2>1, <2>2, FlightOfRows
<1>25. CASE DatabaseFails(t)
  BY <1>25, CutShort DEF DatabaseFails
<1> QED
  BY <1>1, <1>2, <1>3, <1>4, <1>5, <1>6, <1>7, <1>8, <1>9, <1>10, <1>11, <1>12, <1>13,
     <1>14, <1>15, <1>16, <1>17, <1>18, <1>19, <1>20, <1>21, <1>22, <1>23, <1>24, <1>25
     DEF WriteOn, WriteStep

LEMMA ArriveFlight ==
    ASSUME FlightInv, NEW t \in Threads, Arrives(t)
    PROVE  KeepsFlight(t)
<1>r. rq[t] \in Request /\ TypeOK
  BY DEF FlightInv, TypeOK
<1>b. Idle \in Request /\ Idle.rows = {}
  BY BlankTypes DEF Idle
<1>1. CASE GetByIdMiss(t)
  <2>1. UNCHANGED tables /\ rq[t].pc \notin WorkLabels
    BY <1>1 DEF GetByIdMiss, Begin, WorkLabels
  <2>2. GoesAhead(t)
    BY <1>1, <1>b, BecomesAhead DEF GetByIdMiss, Request
  <2> QED
    BY <2>1, <2>2, FlightAside
<1>2. CASE HomePageMiss(t)
  <2>1. UNCHANGED tables /\ rq[t].pc \notin WorkLabels
    BY <1>2 DEF HomePageMiss, Begin, WorkLabels
  <2>2. GoesAhead(t)
    BY <1>2, <1>b, BecomesAhead DEF HomePageMiss, Request
  <2> QED
    BY <2>1, <2>2, FlightAside
<1>3. CASE ListMiss(t)
  <2>1. UNCHANGED tables /\ rq[t].pc \notin WorkLabels
    BY <1>3 DEF ListMiss, Begin, WorkLabels
  <2>2. GoesAhead(t)
    BY <1>3, <1>b, BecomesAhead DEF ListMiss, Request
  <2> QED
    BY <2>1, <2>2, FlightAside
<1>4. CASE CompareMiss(t)
  <2>1. UNCHANGED tables /\ rq[t].pc \notin WorkLabels
    BY <1>4 DEF CompareMiss, Begin, WorkLabels
  <2>2. GoesAhead(t)
    BY <1>4, <1>b, BecomesAhead DEF CompareMiss, Request
  <2> QED
    BY <2>1, <2>2, FlightAside
<1>5. CASE AddPageRow(t)
  <2>1. PICK page, text, on :
          page \in Page /\ page.id = nextPage /\ InsertNewPage(t, page, text, on)
    BY <1>r, <1>5, NewPage
  <2>2. PICK row : row = [page EXCEPT !.id = nextPage]
    OBVIOUS
  <2>3. row.id = nextPage
    BY <2>1, <2>2 DEF Page
  <2>4. pages' = pages \cup {row} /\ UNCHANGED <<contents, nextRow>>
    BY <2>1, <2>2 DEF InsertNewPage, InsertPage
  <2>5. PICK r : r = [Idle EXCEPT !.op = "add", !.pc = "add:content", !.on = on,
                                  !.id = nextPage, !.page = page,
                                  !.model = [page |-> page, text |-> text, version |-> 1]]
    OBVIOUS
  <2>6. r.pc = "add:content" /\ r.id = nextPage /\ r.rows = {}
    BY <1>b, <2>5 DEF Request
  <2>7. rq' = [rq EXCEPT ![t] = r] /\ rq[t].pc \notin WorkLabels
    BY <2>1, <2>5 DEF InsertNewPage, Begin, Become, WorkLabels
  <2>8. GoesAhead(t)
    BY <2>6, <2>7 DEF GoesAhead, Continues
  <2>9. RowsMove /\ \A p : HasContent(p) => HasContent(p)'
    BY <2>4, TablesKept
  <2>10. ASSUME NEW p \in PageIds
         PROVE  Explained(p)
    <3>1. CASE p = row.id
      <4>1. rq'[t] = r
        BY <1>r, <2>7 DEF TypeOK
      <4>2. AtWorkOn(p)'
        BY <2>3, <2>6, <3>1, <4>1 DEF AtWorkOn, AtWork
      <4> QED
        BY <4>2, UnattendedIs DEF Explained
    <3>2. CASE p # row.id
      <4>1. IsLive(p)' => IsLive(p)
        BY <2>4, <3>2 DEF IsLive
      <4> QED
        BY <1>r, <2>7, <2>9, <4>1, OthersExplained
    <3> QED
      BY <3>1, <3>2
  <2> QED
    BY <2>8, <2>9, <2>10 DEF KeepsFlight, AllExplained
<1>6. CASE UpdateForm(t)
  <2>1. UNCHANGED tables /\ rq[t].pc \notin WorkLabels
    BY <1>6 DEF UpdateForm, Begin, WorkLabels
  <2>2. GoesAhead(t)
    BY <1>6, <1>b, BecomesAhead DEF UpdateForm, Request
  <2> QED
    BY <2>1, <2>2, FlightAside
<1>7. CASE RevertVersion(t)
  <2>1. UNCHANGED tables /\ rq[t].pc \notin WorkLabels
    BY <1>7 DEF RevertVersion, Begin, WorkLabels
  <2>2. GoesAhead(t)
    BY <1>7, <1>b, BecomesAhead DEF RevertVersion, Request
  <2> QED
    BY <2>1, <2>2, FlightAside
<1>8. CASE RenameTagFind(t)
  <2>1. UNCHANGED tables /\ rq[t].pc \notin WorkLabels
    BY <1>8 DEF RenameTagFind, Begin, WorkLabels
  <2>2. GoesAhead(t)
    <3>1. PICK old, new, request :
            /\ old \in Tags /\ new \in Tags
            /\ request = [Idle EXCEPT !.op = "renametag", !.key = TagListKey(old),
                                      !.newTag = new, !.admin = TRUE]
            /\ \/ Begin(t, [request EXCEPT !.pc = "list:pages"])
               \/ \E e \in CachedList(TagListKey(old)) :
                    Begin(t, [request EXCEPT !.pc = "tag:next", !.views = e.views])
      BY <1>8 DEF RenameTagFind
    <3>2. request \in Request /\ request.rows = {}
      BY <1>b, <3>1 DEF Request, AllOps, TagListKey, ListKey, ListNames
    <3> QED
      BY <3>1, <3>2, BecomesAhead DEF Request
  <2> QED
    BY <2>1, <2>2, FlightAside
<1>9. CASE DeletePageLoad(t)
  <2>1. UNCHANGED tables /\ rq[t].pc \notin WorkLabels
    BY <1>9 DEF DeletePageLoad, Begin, WorkLabels
  <2>2. GoesAhead(t)
    BY <1>9, <1>b, BecomesAhead DEF DeletePageLoad, Request
  <2> QED
    BY <2>1, <2>2, FlightAside
<1>10. CASE ClearPagesRows(t)
  <2>1. PICK label : /\ label \in {"clr:contents", "threw"}
                     /\ Begin(t, [Idle EXCEPT !.op = "clear", !.pc = label])
    BY <1>10 DEF ClearPagesRows
  <2>2. GoesAhead(t) /\ rq[t].pc \notin WorkLabels
    <3>1. PICK request : request = [Idle EXCEPT !.op = "clear", !.pc = label]
      OBVIOUS
    <3>2. request.pc = label /\ request.rows = {}
      BY <3>1 DEF Idle
    <3>3. Continues(t, request)
      BY <2>1, <3>2 DEF Continues
    <3>4. rq' = [rq EXCEPT ![t] = request] /\ rq[t].pc \in {"idle", "threw"}
      BY <2>1, <3>1 DEF Begin, Become
    <3> QED
      BY <3>3, <3>4 DEF GoesAhead, WorkLabels
  <2>3. pages' \subseteq pages /\ UNCHANGED <<contents, nextRow>>
    BY <1>10 DEF ClearPagesRows, DeleteAllPageRows, tables
  <2>4. RowsMove /\ \A p : HasContent(p) => HasContent(p)'
    BY <2>3, TablesKept
  <2>5. KeepsContent(t)
    BY <2>2, <2>3, <2>4 DEF KeepsContent, IsLive
  <2> QED
    BY <2>2, <2>4, <2>5, ContentKept DEF KeepsFlight
<1>11. CASE ClearCachePages(t)
  <2>1. UNCHANGED tables /\ rq[t].pc \notin WorkLabels
    BY <1>11 DEF ClearCachePages, Begin, WorkLabels
  <2>2. GoesAhead(t)
    BY <1>11, <1>b, BecomesAhead DEF ClearCachePages, Request
  <2> QED
    BY <2>1, <2>2, FlightAside
<1>12. CASE CreateIndexPages(t)
  <2>1. UNCHANGED tables /\ rq[t].pc \notin WorkLabels
    BY <1>12 DEF CreateIndexPages, Begin, WorkLabels
  <2>2. GoesAhead(t)
    BY <1>12, <1>b, BecomesAhead DEF CreateIndexPages, Request
  <2> QED
    BY <2>1, <2>2, FlightAside
<1> QED
  BY <1>1, <1>2, <1>3, <1>4, <1>5, <1>6, <1>7, <1>8, <1>9, <1>10, <1>11, <1>12
     DEF Arrives, Arrive

-----------------------------------------------------------------------------
(* The invariant. *)

LEMMA InitFlight == Init => FlightInv
<1> SUFFICES ASSUME Init PROVE FlightInv
  OBVIOUS
<1>1. TypeOK
  BY InitTypes
<1>2. HistoryInv
  BY InitHistory
<1>3. RowsAreOld(contents) /\ SameRows(contents, contents)
  BY <1>2 DEF HistoryInv, RowsAreNumbered, RowsAreOld, SameRows
<1>4. \A t \in Threads : rq[t].pc = "idle" /\ rq[t].rows = {}
  BY DEF Init, Idle
<1>5. RowsStay
  BY <1>3, <1>4 DEF RowsStay, RowsAreOld, SameRows
<1> QED
  BY <1>1, <1>5 DEF FlightInv

LEMMA NextFlight ==
    ASSUME FlightInv, [Next]_vars
    PROVE  FlightInv' /\ AllExplained
<1>1. TypeOK'
  BY NextTypes DEF FlightInv
<1>2. ASSUME NEW t \in Threads, Arrives(t) \/ GoOn(t)
      PROVE  FlightInv' /\ AllExplained
  <2>1. KeepsFlight(t)
    BY <1>2, ArriveFlight, ReadOnFlight, UpdateOnFlight, WriteOnFlight DEF GoOn
  <2>2. RowsStay'
    BY <2>1, RowsStayPut DEF KeepsFlight
  <2> QED
    BY <1>1, <2>1, <2>2 DEF FlightInv, KeepsFlight
<1>3. CASE Recycle
  <2>1. UNCHANGED <<pages, contents, nextRow>> /\ \A t \in Threads : rq'[t] = Idle
    BY <1>3 DEF Recycle, tables
  <2>2. Idle.pc = "idle" /\ Idle.rows = {}
    BY DEF Idle
  <2>3. RowsStay'
    BY <2>1, <2>2 DEF FlightInv, RowsStay, RowsAreOld, SameRows
  <2>4. ASSUME NEW p \in PageIds, Unattended(p)', ~Unattended(p)
        PROVE  \E t \in Threads : AtWork(t, p) /\ Between(t)'
    <3>1. AtWorkOn(p)
      BY <2>1, <2>4, UnattendedIs DEF IsLive, HasContent
    <3> QED
      BY <2>1, <2>2, <3>1 DEF AtWorkOn, Between
  <2>5. AllExplained
    BY <2>4 DEF AllExplained, Explained
  <2> QED
    BY <1>1, <2>3, <2>5 DEF FlightInv
<1>4. CASE UNCHANGED site
  <2>1. UNCHANGED <<pages, contents, nextRow, rq>>
    BY <1>4 DEF site, tables
  <2>2. RowsStay'
    BY <2>1 DEF FlightInv, RowsStay, RowsAreOld, SameRows
  <2>3. AllExplained
    BY <2>1 DEF AllExplained, Explained, Unattended, AtWorkOn, AtWork, GetPageById,
       FindPageContentsByPageId
  <2> QED
    BY <1>1, <2>2, <2>3 DEF FlightInv
<1> QED
  BY <1>2, <1>3, <1>4, SiteSteps

(* The strengthened invariant: a row that a request has read is of the     *)
(* page it was of then, so that DeletePage deletes no row of another page. *)
THEOREM FlightInvariant == Spec => []FlightInv
<1>1. FlightInv /\ [Next]_vars => FlightInv'
  BY NextFlight
<1> QED
  BY <1>1, InitFlight, PTL DEF Spec

(* However many requests add, delete and clear pages at once, a page is    *)
(* left without content and with nobody at work on it only by a request    *)
(* that was adding or deleting it and was cut short, or by ClearPages.     *)
THEOREM ContentlessPagesMove == Spec => ContentlessPagesAreExplained
<1>1. FlightInv /\ [Next]_vars =>
        [\A p \in PageIds : Unattended(p)' /\ ~Unattended(p) =>
           \E t \in Threads :
             \/ AtWork(t, p) /\ Between(t)'
             \/ At(t, "clr:contents") /\ At(t, "clr:lists")']_vars
  BY NextFlight DEF AllExplained, Explained
<1> QED
  BY <1>1, FlightInvariant, PTL DEF Spec, ContentlessPagesAreExplained
=============================================================================
