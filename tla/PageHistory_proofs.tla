-------------------------- MODULE PageHistory_proofs --------------------------
(***************************************************************************)
(* The types of the page service, and its histories: no version of a page  *)
(* is lost, reworded or skipped, however many requests save, revert and    *)
(* rename at once.  Proofs of TypeOK, HistoryHasNoGaps and HistoryIsKept.  *)
(*                                                                         *)
(* TypeOK is inductive.  HistoryHasNoGaps is not: a request between        *)
(* reading the largest version number and inserting its successor must     *)
(* know that what it has read is still there, and a request that writes    *)
(* old texts back must know that they are texts of rows that have not      *)
(* changed but for their links.  HistoryInv adds the two facts.            *)
(***************************************************************************)
EXTENDS PageProperties, TLAPS

-----------------------------------------------------------------------------
(* The values requests are built from. *)

LEMMA BlankTypes ==
    /\ BlankPage \in Page
    /\ BlankView \in View
    /\ Idle \in Request
<1>1. BlankPage.title \in Titles /\ BlankPage.createdBy \in Users
  BY RepositoryAssumption DEF BlankPage
<1>2. BlankPage \in Page
  <2>1. 1 \in PageIds
    BY RepositoryAssumption DEF PageIds
  <2>2. <<>> \in Seq(Tags)
    OBVIOUS
  <2> QED
    BY <1>1, <2>1, <2>2 DEF BlankPage, Page
<1>3. BlankView \in View
  <2>1. (CHOOSE b \in Bodies : TRUE) \in Bodies
    BY RepositoryAssumption
  <2> QED
    BY <1>2, <2>1 DEF BlankView, View, Text
<1>4. Idle \in Request
  BY <1>2, <1>3, RepositoryAssumption
  DEF Idle, Request, BlankPage, AllOps, Labels, ListKey, ListNames, Page, PageIds
<1> QED
  BY <1>2, <1>3, <1>4

LEMMA ViewOfType ==
    ASSUME NEW pg \in Page, NEW c \in PageContent
    PROVE  ViewOf(pg, c) \in View
BY DEF ViewOf, View, PageContent

(* What the queries find. *)
LEMMA QueryTypes ==
    ASSUME TablesTypeOK
    PROVE  /\ \A p : GetPageById(p) \subseteq Page
           /\ \A p : GetLatestPageContent(p) \subseteq PageContent
           /\ \A p : FindPageContentsByPageId(p) \subseteq PageContent
           /\ \A p, v : GetPageContentByPageIdAndVersionNumber(p, v) \subseteq PageContent
           /\ \A tag : FindPagesContainingTag(tag) \subseteq Page
           /\ \A user : FindPagesCreatedBy(user) \subseteq Page
BY DEF TablesTypeOK, GetPageById, GetLatestPageContent, FindPageContentsByPageId,
       GetPageContentByPageIdAndVersionNumber, FindPagesContainingTag,
       FindPagesCreatedBy

-----------------------------------------------------------------------------
(* What a call does to the tables. *)

LEMMA InsertContentType ==
    ASSUME TablesTypeOK, NEW p \in PageIds, NEW v \in Nat \ {0}, NEW text \in Text,
           NEW on \in Nat, InsertContent(p, v, text, on)
    PROVE  TablesTypeOK'
BY DEF TablesTypeOK, PageContent, InsertContent

(* The time that a request takes.                                          *)
LEMMA TakeTimeType ==
    ASSUME clock \in Nat, NEW on \in UtcNow
    PROVE  on \in Nat /\ (TakeTime(on) => clock' \in Nat)
BY DEF UtcNow, TakeTime

LEMMA InsertPageType ==
    ASSUME TablesTypeOK, NEW pg \in Page, nextPage <= MaxPages, InsertPage(pg),
           clock' \in Nat
    PROVE  TablesTypeOK'
<1>1. nextPage \in PageIds
  BY RepositoryAssumption DEF TablesTypeOK, PageIds
<1> QED
  BY <1>1 DEF TablesTypeOK, InsertPage, Page

LEMMA AddNewPageContentVersionType ==
    ASSUME TablesTypeOK, NEW p \in PageIds, NEW v \in Nat, NEW text \in Text,
           NEW on \in Nat, AddNewPageContentVersion(p, v, text, on)
    PROVE  TablesTypeOK'
<1>1. (IF v < 1 THEN 1 ELSE v) \in Nat \ {0}
  OBVIOUS
<1> QED
  BY <1>1, InsertContentType DEF AddNewPageContentVersion

LEMMA SaveOrUpdatePageType ==
    ASSUME TablesTypeOK, NEW pg \in Page, SaveOrUpdatePage(pg)
    PROVE  TablesTypeOK'
BY DEF TablesTypeOK, SaveOrUpdatePage

LEMMA UpdatePageContentType ==
    ASSUME TablesTypeOK, NEW c \in PageContent, UpdatePageContent(c)
    PROVE  TablesTypeOK'
BY DEF TablesTypeOK, UpdatePageContent

LEMMA DeleteTypes ==
    ASSUME TablesTypeOK, NEW c, NEW p,
           \/ DeletePageContent(c)
           \/ DeletePage(p)
           \/ DeleteAllPageRows
           \/ DeleteAllContentRows
           \/ UNCHANGED tables
    PROVE  TablesTypeOK'
BY DEF TablesTypeOK, DeletePageContent, DeletePage, DeleteAllPageRows,
       DeleteAllContentRows, tables

-----------------------------------------------------------------------------
(* What a call does to the caches. *)

LEMMA CachePageType ==
    ASSUME CachesTypeOK, NEW p \in PageIds, NEW v \in Nat, NEW view \in View,
           CachePage(p, v, view)
    PROVE  CachesTypeOK'
BY DEF CachesTypeOK, CachePage

LEMMA CacheHomePageType ==
    ASSUME CachesTypeOK, NEW view \in View, CacheHomePage(view)
    PROVE  CachesTypeOK'
BY DEF CachesTypeOK, CacheHomePage

LEMMA CacheListType ==
    ASSUME CachesTypeOK, NEW key \in ListKey, NEW views \in SUBSET View,
           CacheList(key, views)
    PROVE  CachesTypeOK'
<1>1. StoredKey(key) \in ListKey
  BY DEF StoredKey, ListKey
<1> QED
  BY <1>1 DEF CachesTypeOK, CacheList

LEMMA UncacheTypes ==
    ASSUME CachesTypeOK, NEW p, NEW v, NEW key,
           \/ UncachePage(p, v)
           \/ UncacheHomePage
           \/ UncacheAllPages
           \/ UncacheList(key)
           \/ UncacheAllLists
           \/ UNCHANGED caches
    PROVE  CachesTypeOK'
BY DEF CachesTypeOK, UncachePage, UncacheHomePage, UncacheAllPages, UncacheList,
       UncacheAllLists, caches

-----------------------------------------------------------------------------
(* What a call does to the search index. *)

LEMMA IndexAddType ==
    ASSUME IndexTypeOK, NEW view \in View, IndexAdd(view)
    PROVE  IndexTypeOK'
<1>1. view.page.id \in PageIds
  BY DEF View, Page
<1>2. \A p \in PageIds : Append(documents[p], view) \in Seq(View)
  BY DEF IndexTypeOK
<1> QED
  BY <1>1, <1>2 DEF IndexTypeOK, IndexAdd

LEMMA IndexReplaceType ==
    ASSUME IndexTypeOK, NEW views \in SUBSET View, IndexReplace(views)
    PROVE  IndexTypeOK'
<1>1. ASSUME NEW p \in PageIds, \E v \in views : v.page.id = p
      PROVE  (CHOOSE v \in views : v.page.id = p) \in View
  BY <1>1
<1>2. \A p \in PageIds :
        (IF \E v \in views : v.page.id = p
         THEN <<CHOOSE v \in views : v.page.id = p>> ELSE <<>>) \in Seq(View)
  BY <1>1
<1> QED
  BY <1>2 DEF IndexTypeOK, IndexReplace

LEMMA IndexOtherTypes ==
    ASSUME IndexTypeOK, NEW p,
           \/ IndexDelete(p)
           \/ IndexOpen
           \/ IndexAbandon
           \/ IndexFails
           \/ UNCHANGED index
    PROVE  IndexTypeOK'
<1>1. CASE IndexDelete(p)
  <2>1. <<>> \in Seq(View)
    OBVIOUS
  <2> QED
    BY <1>1, <2>1 DEF IndexTypeOK, IndexDelete
<1> QED
  BY <1>1 DEF IndexTypeOK, IndexOpen, IndexAbandon, IndexFails, index

-----------------------------------------------------------------------------
(* How a request moves. *)

RequestsOK == rq \in [Threads -> Request]

Moves(t) ==
    \/ \E request \in Request : Become(t, request)
    \/ \E label \in Labels : Goto(t, label)
    \/ Return(t)
    \/ Throw(t)

LEMMA MoveTypes ==
    ASSUME RequestsOK, NEW t \in Threads, Moves(t)
    PROVE  RequestsOK'
<1> USE DEF RequestsOK
<1>1. CASE \E request \in Request : Become(t, request)
  BY <1>1 DEF Become
<1>2. CASE \E label \in Labels : Goto(t, label)
  BY <1>2 DEF Goto, Request
<1>3. CASE Return(t)
  BY <1>3, BlankTypes DEF Return
<1>4. CASE Throw(t)
  <2>1. [Idle EXCEPT !.pc = "threw", !.op = rq[t].op] \in Request
    BY BlankTypes DEF Request, Labels
  <2> QED
    BY <1>4, <2>1 DEF Throw
<1> QED
  BY <1>1, <1>2, <1>3, <1>4 DEF Moves

LEMMA BeginType ==
    ASSUME RequestsOK, started \in Nat, NEW t \in Threads,
           NEW request \in Request, Begin(t, request)
    PROVE  RequestsOK' /\ (started \in Nat)'
BY DEF RequestsOK, Begin, Become

LEMMA RequestFields ==
    ASSUME RequestsOK, NEW t \in Threads
    PROVE  /\ rq[t] \in Request
           /\ rq[t].id \in PageIds
           /\ rq[t].model \in View
           /\ rq[t].model.text \in Text
           /\ rq[t].model.page \in Page
           /\ rq[t].page \in Page
           /\ rq[t].view \in View
           /\ rq[t].view.text \in Text
           /\ rq[t].ver \in Nat
           /\ rq[t].on \in Nat
           /\ rq[t].key \in ListKey
           /\ rq[t].rows \subseteq PageContent
           /\ rq[t].todo \subseteq Page
           /\ rq[t].views \subseteq View
BY DEF RequestsOK, Request, View

-----------------------------------------------------------------------------
(* The parts of TypeOK: that of the site has four, and steps leave most of *)
(* them alone.                                                             *)

SiteTypeOK ==
    /\ TablesTypeOK
    /\ CachesTypeOK
    /\ IndexTypeOK
    /\ RequestsOK
    /\ started \in Nat

BrowsersTypeOK == forms \subseteq Form /\ outdated \in BOOLEAN

LEMMA TypeParts ==
    TypeOK <=> /\ TablesTypeOK
               /\ CachesTypeOK
               /\ IndexTypeOK
               /\ RequestsOK
               /\ started \in Nat
               /\ BrowsersTypeOK
BY DEF TypeOK, RequestsOK, BrowsersTypeOK

LEMMA StepType ==
    ASSUME TypeOK, NEW t \in Threads, Moves(t), UNCHANGED started,
           TablesTypeOK' \/ UNCHANGED tables,
           CachesTypeOK' \/ UNCHANGED caches,
           IndexTypeOK' \/ UNCHANGED index
    PROVE  SiteTypeOK'
<1>1. TablesTypeOK'
  BY DeleteTypes DEF TypeOK
<1>2. CachesTypeOK'
  BY UncacheTypes DEF TypeOK
<1>3. IndexTypeOK'
  BY IndexOtherTypes DEF TypeOK
<1>4. RequestsOK'
  BY MoveTypes, TypeParts
<1> QED
  BY <1>1, <1>2, <1>3, <1>4 DEF TypeOK, SiteTypeOK, RequestsOK

LEMMA ArriveType ==
    ASSUME TypeOK, NEW t \in Threads, NEW request \in Request, Begin(t, request),
           TablesTypeOK' \/ UNCHANGED tables,
           CachesTypeOK' \/ UNCHANGED caches,
           IndexTypeOK' \/ UNCHANGED index
    PROVE  SiteTypeOK'
<1>1. TablesTypeOK'
  BY DeleteTypes DEF TypeOK
<1>2. CachesTypeOK'
  BY UncacheTypes DEF TypeOK
<1>3. IndexTypeOK'
  BY IndexOtherTypes DEF TypeOK
<1>4. RequestsOK' /\ (started \in Nat)'
  BY BeginType, TypeParts
<1> QED
  BY <1>1, <1>2, <1>3, <1>4 DEF TypeOK, SiteTypeOK, RequestsOK

-----------------------------------------------------------------------------
(* The steps of the requests that read. *)

LEMMA ReadOnTypes ==
    ASSUME TypeOK, NEW t \in Threads, ReadOn(t)
    PROVE  SiteTypeOK'
<1>t. TablesTypeOK /\ CachesTypeOK /\ IndexTypeOK /\ RequestsOK
  BY TypeParts
<1>q. /\ \A p : GetPageById(p) \subseteq Page
      /\ \A p : GetLatestPageContent(p) \subseteq PageContent
      /\ \A p : FindPageContentsByPageId(p) \subseteq PageContent
      /\ \A p, v : GetPageContentByPageIdAndVersionNumber(p, v) \subseteq PageContent
      /\ \A tag : FindPagesContainingTag(tag) \subseteq Page
  BY <1>t, QueryTypes
<1>f. /\ rq[t] \in Request
      /\ rq[t].id \in PageIds
      /\ rq[t].model \in View
      /\ rq[t].model.text \in Text
      /\ rq[t].model.page \in Page
      /\ rq[t].page \in Page
      /\ rq[t].view \in View
      /\ rq[t].view.text \in Text
      /\ rq[t].ver \in Nat
      /\ rq[t].on \in Nat
      /\ rq[t].key \in ListKey
      /\ rq[t].rows \subseteq PageContent
      /\ rq[t].todo \subseteq Page
      /\ rq[t].views \subseteq View
  BY <1>t, RequestFields
<1>1. CASE GetByIdPage(t)
  <2>1. \A pg \in Page : [rq[t] EXCEPT !.pc = "get:content", !.page = pg] \in Request
    BY <1>f DEF Request, Labels
  <2>2. Moves(t)
    BY <1>1, <1>f, <2>1, <1>q DEF GetByIdPage, Moves
  <2> QED
    BY <1>1, <2>2, StepType DEF GetByIdPage
<1>2. CASE GetByIdContent(t)
  <2>1. \A view \in View : [rq[t] EXCEPT !.pc = "get:cache", !.view = view] \in Request
    BY <1>f DEF Request, Labels
  <2>2. \A c \in PageContent : ViewOf(rq[t].page, c) \in View
    BY <1>f, ViewOfType
  <2>3. Moves(t)
    BY <1>2, <1>f, <2>1, <2>2, <1>q DEF GetByIdContent, Moves
  <2> QED
    BY <1>2, <2>3, StepType DEF GetByIdContent
<1>3. CASE GetByIdCache(t)
  <2>1. CachesTypeOK'
    BY <1>3, <1>t, <1>f, CachePageType DEF GetByIdCache, LATEST_VERSION_NUMBER
  <2>2. Moves(t)
    BY <1>3 DEF GetByIdCache, Moves, Labels
  <2> QED
    BY <1>3, <2>1, <2>2, StepType DEF GetByIdCache
<1>4. CASE HomePageAny(t)
  <2>1. \A pg \in Page :
          [rq[t] EXCEPT !.pc = "home:content", !.id = pg.id, !.page = pg] \in Request
    <3>1. \A pg \in Page : pg.id \in PageIds
      BY DEF Page
    <3> QED
      BY <1>f, <3>1 DEF Request, Labels
  <2>2. Moves(t)
    BY <1>4, <1>f, <2>1, <1>q DEF HomePageAny, Moves
  <2> QED
    BY <1>4, <2>2, StepType DEF HomePageAny
<1>5. CASE HomePageContent(t)
  <2>1. \A view \in View : [rq[t] EXCEPT !.pc = "home:cache", !.view = view] \in Request
    BY <1>f DEF Request, Labels
  <2>2. \A c \in PageContent : ViewOf(rq[t].page, c) \in View
    BY <1>f, ViewOfType
  <2>3. Moves(t)
    BY <1>5, <1>f, <2>1, <2>2, <1>q DEF HomePageContent, Moves
  <2> QED
    BY <1>5, <2>3, StepType DEF HomePageContent
<1>6. CASE HomePageCache(t)
  <2>1. CachesTypeOK'
    BY <1>6, <1>t, <1>f, CacheHomePageType DEF HomePageCache
  <2>2. Moves(t)
    BY <1>6 DEF HomePageCache, Moves, Labels
  <2> QED
    BY <1>6, <2>1, <2>2, StepType DEF HomePageCache
<1>7. CASE ListPages(t)
  <2>1. [rq[t] EXCEPT !.pc = "list:contents", !.todo = ListedPages(rq[t].key)] \in Request
    <3>1. ListedPages(rq[t].key) \subseteq Page
      BY <1>q, <1>t, QueryTypes DEF ListedPages, TablesTypeOK
    <3> QED
      BY <1>f, <3>1 DEF Request, Labels
  <2>2. [rq[t] EXCEPT !.pc = "list:cache", !.views = {PageOnly(pg) : pg \in pages}] \in Request
    <3>1. \A pg \in pages : PageOnly(pg) \in View
      BY <1>t, BlankTypes DEF TablesTypeOK, PageOnly, View
    <3>2. {PageOnly(pg) : pg \in pages} \in SUBSET View
      BY <3>1
    <3>3. \A items \in SUBSET View :
            [rq[t] EXCEPT !.pc = "list:cache", !.views = items] \in Request
      BY <1>f DEF Request, Labels
    <3> QED
      BY <3>2, <3>3
  <2>3. Moves(t)
    BY <1>7, <2>1, <2>2 DEF ListPages, Moves
  <2> QED
    BY <1>7, <2>3, StepType DEF ListPages
<1>8. CASE ListContent(t)
  <2>1. \A pg \in Page, c \in PageContent :
          [rq[t] EXCEPT !.todo = @ \ {pg}, !.views = @ \cup {ViewOf(pg, c)}] \in Request
    <3>1. \A pg \in Page, c \in PageContent : ViewOf(pg, c) \in View
      BY ViewOfType
    <3> QED
      BY <1>f, <3>1 DEF Request
  <2>2. Moves(t)
    BY <1>8, <1>f, <1>q, <2>1 DEF ListContent, Moves, Labels
  <2> QED
    BY <1>8, <2>2, StepType DEF ListContent
<1>9. CASE ListCacheAdd(t)
  <2>1. CachesTypeOK'
    BY <1>9, <1>t, <1>f, CacheListType DEF ListCacheAdd
  <2>2. [rq[t] EXCEPT !.pc = "tag:next", !.views = {},
                      !.todo = {v.page : v \in rq[t].views}] \in Request
    <3>1. {v.page : v \in rq[t].views} \subseteq Page
      BY <1>f DEF View
    <3> QED
      BY <1>f, <3>1 DEF Request, Labels
  <2>3. Moves(t)
    BY <1>9, <2>2 DEF ListCacheAdd, Moves
  <2> QED
    BY <1>9, <2>1, <2>3, StepType DEF ListCacheAdd
<1>10. CASE ComparePrevious(t)
  <2>1. \A view \in View : [rq[t] EXCEPT !.pc = "cmp:cache", !.view = view] \in Request
    BY <1>f DEF Request, Labels
  <2>2. \A c \in PageContent : ViewOf(rq[t].page, c) \in View
    BY <1>f, ViewOfType
  <2>3. Moves(t)
    BY <1>10, <1>f, <2>1, <2>2, <1>q DEF ComparePrevious, Moves
  <2> QED
    BY <1>10, <2>3, StepType DEF ComparePrevious
<1>11. CASE CompareCache(t)
  <2>1. CachesTypeOK'
    BY <1>11, <1>t, <1>f, CachePageType DEF CompareCache
  <2>2. Moves(t)
    BY <1>11 DEF CompareCache, Moves, Labels
  <2> QED
    BY <1>11, <2>1, <2>2, StepType DEF CompareCache
<1> QED
  BY <1>1, <1>2, <1>3, <1>4, <1>5, <1>6, <1>7, <1>8, <1>9, <1>10, <1>11 DEF ReadOn

-----------------------------------------------------------------------------
(* The steps of an update. *)

LEMMA UpdateOnTypes ==
    ASSUME TypeOK, NEW t \in Threads, UpdateOn(t)
    PROVE  SiteTypeOK'
<1>t. TablesTypeOK /\ CachesTypeOK /\ IndexTypeOK /\ RequestsOK
  BY TypeParts
<1>q. /\ \A p : GetPageById(p) \subseteq Page
      /\ \A p : GetLatestPageContent(p) \subseteq PageContent
      /\ \A p : FindPageContentsByPageId(p) \subseteq PageContent
      /\ \A p, v : GetPageContentByPageIdAndVersionNumber(p, v) \subseteq PageContent
      /\ \A tag : FindPagesContainingTag(tag) \subseteq Page
  BY <1>t, QueryTypes
<1>f. /\ rq[t] \in Request
      /\ rq[t].id \in PageIds
      /\ rq[t].model \in View
      /\ rq[t].model.text \in Text
      /\ rq[t].model.page \in Page
      /\ rq[t].page \in Page
      /\ rq[t].view \in View
      /\ rq[t].view.text \in Text
      /\ rq[t].ver \in Nat
      /\ rq[t].on \in Nat
      /\ rq[t].key \in ListKey
      /\ rq[t].rows \subseteq PageContent
      /\ rq[t].todo \subseteq Page
      /\ rq[t].views \subseteq View
  BY <1>t, RequestFields
<1>1. CASE UpdatePageLoad(t)
  <2>0. \A pg \in Page :
          [rq[t] EXCEPT
              !.pc = "upd:save",
              !.page = [rq[t].model.page EXCEPT
                          !.id = pg.id, !.createdBy = pg.createdBy,
                          !.locked = IF rq[t].admin THEN @ ELSE pg.locked]] \in Request
    <3> TAKE pg \in Page
    <3>1. [rq[t].model.page EXCEPT !.id = pg.id, !.createdBy = pg.createdBy,
                                   !.locked = IF rq[t].admin THEN @ ELSE pg.locked] \in Page
      BY <1>f DEF Page
    <3> QED
      BY <1>f, <3>1 DEF Request, Labels
  <2>1. Moves(t)
    BY <1>1, <2>0, <1>q DEF UpdatePageLoad, Moves
  <2> QED
    BY <1>1, <2>1, StepType DEF UpdatePageLoad
<1>2. CASE UpdatePageSave(t)
  <2>1. TablesTypeOK' \/ UNCHANGED tables
    BY <1>2, <1>t, <1>f, SaveOrUpdatePageType DEF UpdatePageSave
  <2>2. Moves(t)
    BY <1>2 DEF UpdatePageSave, Moves, Labels
  <2> QED
    BY <1>2, <2>1, <2>2, StepType DEF UpdatePageSave
<1>3. CASE UpdatePageUncache(t)
  <2>1. CachesTypeOK'
    BY <1>3, <1>t, <1>f, UncacheTypes DEF UpdatePageUncache
  <2>2. Moves(t)
    BY <1>3 DEF UpdatePageUncache, Moves, Labels
  <2> QED
    BY <1>3, <2>1, <2>2, StepType DEF UpdatePageUncache
<1>4. CASE UpdatePageUncacheHome(t)
  <2>1. CachesTypeOK'
    BY <1>4, <1>t, <1>f, UncacheTypes DEF UpdatePageUncacheHome
  <2>2. Moves(t)
    BY <1>4 DEF UpdatePageUncacheHome, Moves, Labels
  <2> QED
    BY <1>4, <2>1, <2>2, StepType DEF UpdatePageUncacheHome
<1>5. CASE UpdatePageUncacheLists(t)
  <2>1. CachesTypeOK'
    BY <1>5, <1>t, <1>f, UncacheTypes DEF UpdatePageUncacheLists
  <2>2. Moves(t)
    BY <1>5 DEF UpdatePageUncacheLists, Moves, Labels
  <2> QED
    BY <1>5, <2>1, <2>2, StepType DEF UpdatePageUncacheLists
<1>6. CASE UpdatePageMaxVersion(t)
  <2>1. \A v \in Nat : [rq[t] EXCEPT !.pc = "upd:time", !.ver = v] \in Request
    BY <1>f DEF Request, Labels
  <2>2. \A c \in PageContent : c.version + 1 \in Nat
    BY DEF PageContent
  <2>3. Moves(t)
    BY <1>6, <1>f, <2>1, <2>2, <1>q DEF UpdatePageMaxVersion, Moves
  <2> QED
    BY <1>6, <2>3, StepType DEF UpdatePageMaxVersion
<1>7. CASE UpdatePageInsert(t)
  <2>1. TablesTypeOK' \/ UNCHANGED tables
    BY <1>7, <1>t, <1>f, AddNewPageContentVersionType DEF UpdatePageInsert
  <2>2. Moves(t)
    BY <1>7 DEF UpdatePageInsert, Moves, Labels
  <2> QED
    BY <1>7, <2>1, <2>2, StepType DEF UpdatePageInsert
<1>8. CASE UpdateLinksRead(t)
  <2>1. \A linking \in SUBSET PageContent, label \in Labels :
          [rq[t] EXCEPT !.rows = linking, !.pc = label] \in Request
    BY <1>f DEF Request
  <2>2. {c \in contents : rq[t].prev \in c.text.links} \in SUBSET PageContent
    BY <1>t DEF TablesTypeOK
  <2>3. Moves(t)
    BY <1>8, <2>1, <2>2 DEF UpdateLinksRead, Moves, Labels
  <2> QED
    BY <1>8, <2>3, StepType DEF UpdateLinksRead
<1>9. CASE UpdateLinksRewrite(t)
  <2>1. TablesTypeOK' \/ UNCHANGED tables
    <3>1. \A c \in PageContent :
            [c EXCEPT !.text = ReplacePageLinks(@, rq[t].prev, rq[t].model.page.title)]
              \in PageContent
      <4>1. rq[t].model.page.title \in Titles
        BY <1>f DEF Page
      <4> QED
        BY <4>1 DEF PageContent, Text, ReplacePageLinks
    <3> QED
      BY <1>9, <1>t, <1>f, <3>1, UpdatePageContentType DEF UpdateLinksRewrite
  <2>2. Moves(t)
    <3>1. \A c \in PageContent : [rq[t] EXCEPT !.rows = @ \ {c}] \in Request
      BY <1>f DEF Request
    <3> QED
      BY <1>9, <1>f, <3>1 DEF UpdateLinksRewrite, Moves, Labels
  <2> QED
    BY <1>9, <2>1, <2>2, StepType DEF UpdateLinksRewrite
<1>10. CASE UpdateLinksClearPages(t)
  <2>1. CachesTypeOK'
    BY <1>10, <1>t, <1>f, UncacheTypes DEF UpdateLinksClearPages
  <2>2. Moves(t)
    BY <1>10 DEF UpdateLinksClearPages, Moves, Labels
  <2> QED
    BY <1>10, <2>1, <2>2, StepType DEF UpdateLinksClearPages
<1>11. CASE UpdateLinksClearLists(t)
  <2>1. CachesTypeOK'
    BY <1>11, <1>t, <1>f, UncacheTypes DEF UpdateLinksClearLists
  <2>2. Moves(t)
    BY <1>11 DEF UpdateLinksClearLists, Moves, Labels
  <2> QED
    BY <1>11, <2>1, <2>2, StepType DEF UpdateLinksClearLists
<1>12. CASE UpdatePageReread(t)
  <2>1. \A view \in View : [rq[t] EXCEPT !.pc = "upd:unindex", !.view = view] \in Request
    BY <1>f DEF Request, Labels
  <2>2. \A c \in PageContent : ViewOf(rq[t].page, c) \in View
    BY <1>f, ViewOfType
  <2>3. Moves(t)
    BY <1>12, <1>f, <2>1, <2>2, <1>q DEF UpdatePageReread, Moves
  <2> QED
    BY <1>12, <2>3, StepType DEF UpdatePageReread
<1>13. CASE UpdatePageUnindex(t)
  <2>1. IndexTypeOK' \/ UNCHANGED index
    BY <1>13, <1>t, <1>f, IndexOtherTypes DEF UpdatePageUnindex, IndexIgnoresError, IndexThrows
  <2>2. Moves(t)
    BY <1>13 DEF UpdatePageUnindex, Moves, Labels
  <2> QED
    BY <1>13, <2>1, <2>2, StepType DEF UpdatePageUnindex
<1>14. CASE UpdatePageIndex(t)
  <2>1. IndexTypeOK' \/ UNCHANGED index
    BY <1>14, <1>t, <1>f, IndexAddType, IndexOtherTypes DEF UpdatePageIndex, IndexIgnoresError, IndexThrows
  <2>2. Moves(t)
    BY <1>14 DEF UpdatePageIndex, Moves, Labels
  <2> QED
    BY <1>14, <2>1, <2>2, StepType DEF UpdatePageIndex
<1>15. CASE UpdatePageTakeTime(t)
  <2>1. PICK on \in UtcNow :
          TakeTime(on) /\ Become(t, [rq[t] EXCEPT !.pc = "upd:insert", !.on = on])
    BY <1>15 DEF UpdatePageTakeTime
  <2>2. on \in Nat /\ clock' \in Nat
    BY <1>t, <2>1, TakeTimeType DEF TablesTypeOK
  <2>3. TablesTypeOK'
    BY <1>15, <1>t, <2>2 DEF UpdatePageTakeTime, TablesTypeOK, rows
  <2>4. [rq[t] EXCEPT !.pc = "upd:insert", !.on = on] \in Request
    BY <1>f, <2>2 DEF Request, Labels
  <2>5. Moves(t)
    BY <2>1, <2>4 DEF Moves
  <2> QED
    BY <1>15, <2>3, <2>5, StepType DEF UpdatePageTakeTime
<1> QED
  BY <1>1, <1>2, <1>3, <1>4, <1>5, <1>6, <1>7, <1>8, <1>9, <1>10, <1>11, <1>12, <1>13, <1>14,
     <1>15 DEF UpdateOn

-----------------------------------------------------------------------------
(* The steps of the other requests that write. *)

LEMMA RenamedTagsType ==
    ASSUME NEW tags \in Seq(Tags), NEW old, NEW new \in Tags
    PROVE  RenamedTags(tags, old, new) \in Seq(Tags)
<1>1. DOMAIN tags = 1..Len(tags) /\ Len(tags) \in Nat
  OBVIOUS
<1>2. \A i \in 1..Len(tags) : tags[i] \in Tags
  OBVIOUS
<1>3. RenamedTags(tags, old, new) \in [1..Len(tags) -> Tags]
  BY <1>1, <1>2 DEF RenamedTags
<1> QED
  BY <1>1, <1>3

LEMMA WriteOnTypes ==
    ASSUME TypeOK, NEW t \in Threads, WriteOn(t)
    PROVE  SiteTypeOK'
<1>t. TablesTypeOK /\ CachesTypeOK /\ IndexTypeOK /\ RequestsOK
  BY TypeParts
<1>q. /\ \A p : GetPageById(p) \subseteq Page
      /\ \A p : GetLatestPageContent(p) \subseteq PageContent
      /\ \A p : FindPageContentsByPageId(p) \subseteq PageContent
      /\ \A p, v : GetPageContentByPageIdAndVersionNumber(p, v) \subseteq PageContent
      /\ \A tag : FindPagesContainingTag(tag) \subseteq Page
  BY <1>t, QueryTypes
<1>f. /\ rq[t] \in Request
      /\ rq[t].id \in PageIds
      /\ rq[t].model \in View
      /\ rq[t].model.text \in Text
      /\ rq[t].model.page \in Page
      /\ rq[t].page \in Page
      /\ rq[t].view \in View
      /\ rq[t].view.text \in Text
      /\ rq[t].ver \in Nat
      /\ rq[t].on \in Nat
      /\ rq[t].key \in ListKey
      /\ rq[t].rows \subseteq PageContent
      /\ rq[t].todo \subseteq Page
      /\ rq[t].views \subseteq View
  BY <1>t, RequestFields
<1>1. CASE AddPageContent(t)
  <2>1. TablesTypeOK' \/ UNCHANGED tables
    BY <1>1, <1>t, <1>f, InsertContentType DEF AddPageContent
  <2>2. Moves(t)
    BY <1>1 DEF AddPageContent, Moves, Labels
  <2> QED
    BY <1>1, <2>1, <2>2, StepType DEF AddPageContent
<1>2. CASE AddPageClearLists(t)
  <2>1. CachesTypeOK'
    BY <1>2, <1>t, <1>f, UncacheTypes DEF AddPageClearLists
  <2>2. Moves(t)
    BY <1>2 DEF AddPageClearLists, Moves, Labels
  <2> QED
    BY <1>2, <2>1, <2>2, StepType DEF AddPageClearLists
<1>3. CASE AddPageClearPages(t)
  <2>1. CachesTypeOK'
    BY <1>3, <1>t, <1>f, UncacheTypes DEF AddPageClearPages
  <2>2. Moves(t)
    BY <1>3 DEF AddPageClearPages, Moves, Labels
  <2> QED
    BY <1>3, <2>1, <2>2, StepType DEF AddPageClearPages
<1>4. CASE AddPageIndex(t)
  <2>1. IndexTypeOK' \/ UNCHANGED index
    BY <1>4, <1>t, <1>f, IndexAddType, IndexOtherTypes DEF AddPageIndex, IndexIgnoresError, IndexThrows
  <2>2. Moves(t)
    BY <1>4 DEF AddPageIndex, Moves, Labels
  <2> QED
    BY <1>4, <2>1, <2>2, StepType DEF AddPageIndex
<1>5. CASE RevertMaxVersion(t)
  <2>1. \A v \in Nat : [rq[t] EXCEPT !.pc = "rev:time", !.ver = v] \in Request
    BY <1>f DEF Request, Labels
  <2>2. \A c \in PageContent : c.version + 1 \in Nat
    BY DEF PageContent
  <2>3. Moves(t)
    BY <1>5, <1>f, <2>1, <2>2, <1>q DEF RevertMaxVersion, Moves
  <2> QED
    BY <1>5, <2>3, StepType DEF RevertMaxVersion
<1>6. CASE RevertInsert(t)
  <2>1. TablesTypeOK' \/ UNCHANGED tables
    BY <1>6, <1>t, <1>f, AddNewPageContentVersionType DEF RevertInsert
  <2>2. Moves(t)
    BY <1>6 DEF RevertInsert, Moves, Labels
  <2> QED
    BY <1>6, <2>1, <2>2, StepType DEF RevertInsert
<1>7. CASE RevertCache(t)
  <2>1. CachesTypeOK'
    BY <1>7, <1>t, <1>f, UncacheTypes DEF RevertCache
  <2>2. Moves(t)
    BY <1>7 DEF RevertCache, Moves, Labels
  <2> QED
    BY <1>7, <2>1, <2>2, StepType DEF RevertCache
<1>8. CASE RenameTagNext(t)
  <2>1. \A view \in View : NextRenamed(t, view) \in Request
    <3> TAKE view \in View
    <3>1. view.page.id \in PageIds /\ view.page.title \in Titles
      BY DEF View, Page
    <3> QED
      BY <1>f, <3>1 DEF NextRenamed, Request, Labels
  <2>2. CASE \E view \in rq[t].views : Become(t, NextRenamed(t, view))
    <3>1. Moves(t)
      BY <1>f, <2>1, <2>2 DEF Moves
    <3> QED
      BY <1>8, <3>1, StepType DEF RenameTagNext
  <2>3. CASE \E pg \in rq[t].todo : RenameTagQueried(t, pg)
    <3>1. PICK pg \in rq[t].todo : RenameTagQueried(t, pg)
      BY <2>3
    <3>2. pg \in Page
      BY <1>f
    <3>3. \A c \in PageContent :
            [NextRenamed(t, ViewOf(pg, c)) EXCEPT !.todo = @ \ {pg}] \in Request
      <4>1. \A c \in PageContent : NextRenamed(t, ViewOf(pg, c)) \in Request
        BY <2>1, <3>2, ViewOfType
      <4> QED
        BY <4>1 DEF Request
    <3>4. Moves(t)
      BY <1>q, <3>1, <3>3 DEF RenameTagQueried, Moves
    <3> QED
      BY <1>8, <3>4, StepType DEF RenameTagNext
  <2>4. CASE Goto(t, "tag:done")
    BY <1>8, <2>4, StepType DEF RenameTagNext, Moves, Labels
  <2> QED
    BY <1>8, <2>2, <2>3, <2>4 DEF RenameTagNext
<1>9. CASE RenameTagUnindex(t)
  <2>1. IndexTypeOK' \/ UNCHANGED index
    BY <1>9, <1>t, <1>f, IndexOtherTypes DEF RenameTagUnindex, IndexIgnoresError, IndexThrows
  <2>2. Retagged(t) \in View
    <3>1. RenamedTags(rq[t].model.page.tags, rq[t].key.arg, rq[t].newTag) \in Seq(Tags)
      <4>1. rq[t].model.page.tags \in Seq(Tags) /\ rq[t].newTag \in Tags
        BY <1>f DEF View, Page, Request
      <4> QED
        BY <4>1, RenamedTagsType
    <3> QED
      BY <1>f, <3>1 DEF Retagged, View, Page
  <2>3. CachesTypeOK' \/ UNCHANGED caches
    <3>1. CASE RetagCached(t)
      <4>1. \A e \in [key : ListKey, views : SUBSET View] :
              [e EXCEPT !.views = (@ \ {rq[t].model}) \cup {Retagged(t)}]
                \in [key : ListKey, views : SUBSET View]
        BY <2>2
      <4> QED
        BY <1>t, <3>1, <4>1 DEF CachesTypeOK, RetagCached
    <3> QED
      BY <1>9, <3>1 DEF RenameTagUnindex
  <2>4. Moves(t)
    <3>1. [rq[t] EXCEPT !.pc = "upd:page", !.model = Retagged(t),
                        !.views = @ \ {rq[t].model}] \in Request
      BY <1>f, <2>2 DEF Request, Labels
    <3> QED
      BY <1>9, <3>1 DEF RenameTagUnindex, Moves
  <2> QED
    BY <1>9, <2>1, <2>3, <2>4, StepType DEF RenameTagUnindex
<1>10. CASE RenameTagUncache(t)
  <2>1. CachesTypeOK'
    BY <1>10, <1>t, <1>f, UncacheTypes DEF RenameTagUncache
  <2>2. Moves(t)
    BY <1>10 DEF RenameTagUncache, Moves, Labels
  <2> QED
    BY <1>10, <2>1, <2>2, StepType DEF RenameTagUncache
<1>11. CASE DeletePageLatest(t)
  <2>1. Moves(t)
    BY <1>11, <1>f, <1>q DEF DeletePageLatest, Moves, Labels
  <2> QED
    BY <1>11, <2>1, StepType DEF DeletePageLatest
<1>12. CASE DeletePageUnindex(t)
  <2>1. IndexTypeOK' \/ UNCHANGED index
    BY <1>12, <1>t, <1>f, IndexOtherTypes DEF DeletePageUnindex, IndexIgnoresError, IndexThrows
  <2>2. Moves(t)
    BY <1>12 DEF DeletePageUnindex, Moves, Labels
  <2> QED
    BY <1>12, <2>1, <2>2, StepType DEF DeletePageUnindex
<1>13. CASE DeletePageChildren(t)
  <2>1. \A found \in SUBSET PageContent : [rq[t] EXCEPT !.pc = "del:contents", !.rows = found] \in Request
    BY <1>f DEF Request, Labels
  <2>2. Moves(t)
    BY <1>13, <1>f, <2>1, <1>q DEF DeletePageChildren, Moves
  <2> QED
    BY <1>13, <2>2, StepType DEF DeletePageChildren
<1>14. CASE DeletePageContents(t)
  <2>1. TablesTypeOK' \/ UNCHANGED tables
    BY <1>14, <1>t, DeleteTypes DEF DeletePageContents
  <2>2. Moves(t)
    <3>1. \A c \in PageContent : [rq[t] EXCEPT !.rows = @ \ {c}] \in Request
      BY <1>f DEF Request
    <3> QED
      BY <1>14, <1>f, <3>1 DEF DeletePageContents, Moves, Labels
  <2> QED
    BY <1>14, <2>1, <2>2, StepType DEF DeletePageContents
<1>15. CASE DeletePageRow(t)
  <2>1. TablesTypeOK' \/ UNCHANGED tables
    BY <1>15, <1>t, <1>f, DeleteTypes DEF DeletePageRow
  <2>2. Moves(t)
    BY <1>15 DEF DeletePageRow, Moves, Labels
  <2> QED
    BY <1>15, <2>1, <2>2, StepType DEF DeletePageRow
<1>16. CASE DeletePageClearLists(t)
  <2>1. CachesTypeOK'
    BY <1>16, <1>t, <1>f, UncacheTypes DEF DeletePageClearLists
  <2>2. Moves(t)
    BY <1>16 DEF DeletePageClearLists, Moves, Labels
  <2> QED
    BY <1>16, <2>1, <2>2, StepType DEF DeletePageClearLists
<1>17. CASE DeletePageClearPages(t)
  <2>1. CachesTypeOK'
    BY <1>17, <1>t, <1>f, UncacheTypes DEF DeletePageClearPages
  <2>2. Moves(t)
    BY <1>17 DEF DeletePageClearPages, Moves, Labels
  <2> QED
    BY <1>17, <2>1, <2>2, StepType DEF DeletePageClearPages
<1>18. CASE ClearPagesContents(t)
  <2>1. TablesTypeOK' \/ UNCHANGED tables
    BY <1>18, <1>t, <1>f, DeleteTypes DEF ClearPagesContents
  <2>2. Moves(t)
    BY <1>18 DEF ClearPagesContents, Moves, Labels
  <2> QED
    BY <1>18, <2>1, <2>2, StepType DEF ClearPagesContents
<1>19. CASE ClearPagesLists(t)
  <2>1. CachesTypeOK'
    BY <1>19, <1>t, <1>f, UncacheTypes DEF ClearPagesLists
  <2>2. Moves(t)
    BY <1>19 DEF ClearPagesLists, Moves, Labels
  <2> QED
    BY <1>19, <2>1, <2>2, StepType DEF ClearPagesLists
<1>20. CASE ClearPagesPages(t)
  <2>1. CachesTypeOK'
    BY <1>20, <1>t, <1>f, UncacheTypes DEF ClearPagesPages
  <2>2. Moves(t)
    BY <1>20 DEF ClearPagesPages, Moves, Labels
  <2> QED
    BY <1>20, <2>1, <2>2, StepType DEF ClearPagesPages
<1>21. CASE ClearCacheLists(t)
  <2>1. CachesTypeOK'
    BY <1>21, <1>t, <1>f, UncacheTypes DEF ClearCacheLists
  <2>2. Moves(t)
    BY <1>21 DEF ClearCacheLists, Moves, Labels
  <2> QED
    BY <1>21, <2>1, <2>2, StepType DEF ClearCacheLists
<1>22. CASE CreateIndexContent(t)
  <2>1. IndexTypeOK' \/ UNCHANGED index
    BY <1>22, <1>t, <1>f, IndexReplaceType DEF CreateIndexContent
  <2>2. Moves(t)
    <3>1. \A pg \in Page, c \in PageContent :
            [rq[t] EXCEPT !.todo = @ \ {pg}, !.views = @ \cup {ViewOf(pg, c)}] \in Request
      <4>1. \A pg \in Page, c \in PageContent : ViewOf(pg, c) \in View
        BY ViewOfType
      <4> QED
        BY <1>f, <4>1 DEF Request
    <3> QED
      BY <1>22, <1>f, <1>q, <3>1 DEF CreateIndexContent, Moves, Labels
  <2> QED
    BY <1>22, <2>1, <2>2, StepType DEF CreateIndexContent
<1>23. CASE CreateIndexClose(t)
  <2>1. IndexTypeOK' \/ UNCHANGED index
    BY <1>23, <1>t, <1>f, IndexReplaceType, IndexOtherTypes DEF CreateIndexClose, IndexIgnoresError, IndexThrows
  <2>2. Moves(t)
    BY <1>23 DEF CreateIndexClose, Moves, Labels
  <2> QED
    BY <1>23, <2>1, <2>2, StepType DEF CreateIndexClose
<1>24. CASE RevertTakeTime(t)
  <2>1. PICK on \in UtcNow :
          TakeTime(on) /\ Become(t, [rq[t] EXCEPT !.pc = "rev:insert", !.on = on])
    BY <1>24 DEF RevertTakeTime
  <2>2. on \in Nat /\ clock' \in Nat
    BY <1>t, <2>1, TakeTimeType DEF TablesTypeOK
  <2>3. TablesTypeOK'
    BY <1>24, <1>t, <2>2 DEF RevertTakeTime, TablesTypeOK, rows
  <2>4. [rq[t] EXCEPT !.pc = "rev:insert", !.on = on] \in Request
    BY <1>f, <2>2 DEF Request, Labels
  <2>5. Moves(t)
    BY <2>1, <2>4 DEF Moves
  <2> QED
    BY <1>24, <2>3, <2>5, StepType DEF RevertTakeTime
<1>25. CASE DatabaseFails(t)
  BY <1>25, StepType DEF DatabaseFails, Moves
<1> QED
  BY <1>1, <1>2, <1>3, <1>4, <1>5, <1>6, <1>7, <1>8, <1>9, <1>10, <1>11, <1>12, <1>13, <1>14,
     <1>15, <1>16, <1>17, <1>18, <1>19, <1>20, <1>21, <1>22, <1>23,
     <1>24, <1>25 DEF WriteOn, WriteStep

-----------------------------------------------------------------------------
(* The first step of a request. *)

LEMMA EditedType ==
    ASSUME NEW form \in View, NEW admin \in BOOLEAN
    PROVE  Edited(form, admin) \subseteq View
<1>1. form.page \in Page /\ form.page.tags \in Seq(Tags) /\ form.version \in Nat
  BY DEF View, Page
<1>2. /\ NewTags \cup {form.page.tags} \subseteq Seq(Tags)
      /\ TypedTexts \cup {form.text} \subseteq Text
      /\ (IF admin THEN BOOLEAN ELSE {form.page.locked}) \subseteq BOOLEAN
  BY <1>1, ServiceAssumption DEF View, TypedTexts, Text, Page
<1> QED
  BY <1>1, <1>2 DEF Edited, View, Page

(* A form that is posted starts a request as well.                         *)
Arrives(t) == Arrive(t) \/ UpdateForm(t)

LEMMA ArriveTypes ==
    ASSUME TypeOK, NEW t \in Threads, Arrives(t)
    PROVE  SiteTypeOK'
<1>t. TablesTypeOK /\ CachesTypeOK /\ IndexTypeOK /\ RequestsOK
  BY TypeParts
<1>q. /\ \A p : GetPageById(p) \subseteq Page
      /\ \A p : GetLatestPageContent(p) \subseteq PageContent
      /\ \A p : FindPageContentsByPageId(p) \subseteq PageContent
      /\ \A p, v : GetPageContentByPageIdAndVersionNumber(p, v) \subseteq PageContent
      /\ \A tag : FindPagesContainingTag(tag) \subseteq Page
  BY <1>t, QueryTypes
<1>l. /\ {"get", "home", "list", "compare", "add", "update", "revert", "renametag",
          "delete", "clear", "clearcache", "createindex"} \subseteq AllOps
      /\ {"get:page", "home:any", "home:content", "list:pages", "cmp:previous",
          "add:content", "upd:page", "rev:max", "tag:next", "del:latest",
          "clr:contents", "cache:lists", "idx:contents", "threw"} \subseteq Labels
  BY DEF AllOps, Labels
<1>1. CASE GetByIdMiss(t)
  <2>1. \A p \in PageIds :
         [Idle EXCEPT !.op = "get", !.pc = "get:page", !.id = p] \in Request
    BY <1>l, BlankTypes DEF Request
  <2> QED
    BY <1>1, <1>t, <1>q, <2>1, ArriveType DEF GetByIdMiss
<1>2. CASE HomePageMiss(t)
  <2>1. [Idle EXCEPT !.op = "home", !.pc = "home:any"] \in Request
    BY <1>l, BlankTypes DEF Request
  <2>2. \A pg \in Page : [Idle EXCEPT !.op = "home", !.pc = "home:content",
                                        !.id = pg.id, !.page = pg] \in Request
    <3>1. \A pg \in Page : pg.id \in PageIds
      BY DEF Page
    <3> QED
      BY <3>1, <1>l, BlankTypes DEF Request
  <2>3. LockedHomePages \subseteq Page
    BY <1>q DEF LockedHomePages
  <2> QED
    BY <1>2, <1>t, <1>q, <2>1, <2>2, <2>3, ArriveType DEF HomePageMiss
<1>3. CASE ListMiss(t)
  <2>1. ListKeys \subseteq ListKey
    BY DEF ListKeys, ListKey, ListNames, NoArgument
  <2>2. \A key \in ListKey :
         [Idle EXCEPT !.op = "list", !.pc = "list:pages", !.key = key] \in Request
    BY <1>l, BlankTypes DEF Request
  <2> QED
    BY <1>3, <1>t, <1>q, <2>1, <2>2, ArriveType DEF ListMiss
<1>4. CASE CompareMiss(t)
  <2>1. \A c \in PageContent, pg \in Page :
         c.version # 1 =>
           [Idle EXCEPT !.op = "compare", !.pc = "cmp:previous", !.id = c.pageId,
                        !.page = pg, !.ver = c.version - 1] \in Request
    <3>1. \A c \in PageContent :
            c.pageId \in PageIds /\ (c.version # 1 => c.version - 1 \in Nat)
      BY DEF PageContent
    <3> QED
      BY <3>1, <1>l, BlankTypes DEF Request
  <2>2. contents \subseteq PageContent
    BY <1>t DEF TablesTypeOK
  <2> QED
    BY <1>4, <1>t, <1>q, <2>1, <2>2, ArriveType DEF CompareMiss
<1>5. CASE AddPageRow(t)
  <2>1. PICK page \in Page, text \in Text, on \in UtcNow : InsertNewPage(t, page, text, on)
    <3>1. nextPage \in PageIds
      BY <1>5, <1>t, RepositoryAssumption DEF AddPageRow, TablesTypeOK, PageIds
    <3>2. TypedTexts \subseteq Text
      BY ServiceAssumption DEF TypedTexts, Text
    <3>3. \A title \in Titles, tags \in NewTags, user \in Users,
             locked \in {FALSE} \cup Admins :
            [id |-> nextPage, title |-> title, tags |-> tags, locked |-> locked,
             createdBy |-> user] \in Page
      BY <3>1, ServiceAssumption DEF Page
    <3> QED
      BY <1>5, <3>2, <3>3 DEF AddPageRow
  <2>t. on \in Nat /\ clock' \in Nat
    BY <1>t, <2>1, TakeTimeType DEF InsertNewPage, TablesTypeOK
  <2>2. [Idle EXCEPT !.op = "add", !.pc = "add:content", !.on = on,
                     !.id = nextPage, !.page = page,
                     !.model = [page |-> page, text |-> text, version |-> 1]]
          \in Request
    <3>1. [page |-> page, text |-> text, version |-> 1] \in View
      BY DEF View
    <3>2. nextPage \in PageIds
      BY <1>5, <1>t, RepositoryAssumption DEF AddPageRow, TablesTypeOK, PageIds
    <3> QED
      BY <1>l, <2>t, <3>1, <3>2, BlankTypes DEF Request
  <2>3. TablesTypeOK'
    BY <1>5, <1>t, <2>1, <2>t, InsertPageType DEF AddPageRow, InsertNewPage
  <2> QED
    BY <1>5, <2>1, <2>2, <2>3, ArriveType DEF AddPageRow, InsertNewPage
<1>6. CASE UpdateForm(t)
  <2>1. \A p \in PageIds, admin \in BOOLEAN, title \in Titles, model \in View :
          [Idle EXCEPT !.op = "update", !.pc = "upd:page", !.id = p, !.admin = admin,
                       !.prev = title, !.model = model] \in Request
    BY <1>l, BlankTypes DEF Request
  <2>2. \A form \in View, admin \in BOOLEAN :
          form.page.title \in Titles /\ Edited(form, admin) \subseteq View
    BY EditedType DEF View, Page
  <2>3. \A p \in Page : p.id \in PageIds
    BY DEF Page
  <2>4. \A form \in forms :
          form.view \in View /\ form.view.page \in Page /\ form.admin \in BOOLEAN
    BY DEF TypeOK, Form, View
  <2> QED
    BY <1>6, <2>1, <2>2, <2>3, <2>4, ArriveType DEF UpdateForm
<1>7. CASE RevertVersion(t)
  <2>1. \A c \in PageContent, pg \in Page :
         [Idle EXCEPT !.op = "revert", !.pc = "rev:max", !.id = c.pageId,
                      !.page = pg, !.view = ViewOf(pg, c)] \in Request
    <3>1. \A c \in PageContent : c.pageId \in PageIds
      BY DEF PageContent
    <3>2. \A c \in PageContent, pg \in Page : ViewOf(pg, c) \in View
      BY ViewOfType
    <3> QED
      BY <3>1, <3>2, <1>l, BlankTypes DEF Request
  <2>2. contents \subseteq PageContent
    BY <1>t DEF TablesTypeOK
  <2> QED
    BY <1>7, <1>t, <1>q, <2>1, <2>2, ArriveType DEF RevertVersion
<1>8. CASE RenameTagFind(t)
  <2> DEFINE Asked(old, new) ==
               [Idle EXCEPT !.op = "renametag", !.key = TagListKey(old),
                            !.newTag = new, !.admin = TRUE]
  <2>1. PICK old \in Tags, new \in Tags :
          \/ Begin(t, [Asked(old, new) EXCEPT !.pc = "list:pages"])
          \/ \E e \in CachedList(TagListKey(old)) :
               Begin(t, [Asked(old, new) EXCEPT !.pc = "tag:next", !.views = e.views])
    BY <1>8 DEF RenameTagFind
  <2>2. Asked(old, new) \in Request
    <3>1. TagListKey(old) \in ListKey
      BY DEF TagListKey, ListKey, ListNames
    <3> QED
      BY <3>1, BlankTypes DEF Request, AllOps
  <2> HIDE DEF Asked
  <2>3. [Asked(old, new) EXCEPT !.pc = "list:pages"] \in Request
    BY <2>2 DEF Request, Labels
  <2>4. \A items \in SUBSET View :
          [Asked(old, new) EXCEPT !.pc = "tag:next", !.views = items] \in Request
    BY <2>2 DEF Request, Labels
  <2>5. \A e \in CachedList(TagListKey(old)) : e.views \in SUBSET View
    BY <1>t DEF CachedList, CachesTypeOK
  <2> QED
    BY <1>8, <2>1, <2>3, <2>4, <2>5, ArriveType DEF RenameTagFind
<1>9. CASE DeletePageLoad(t)
  <2>1. \A p \in PageIds :
         [Idle EXCEPT !.op = "delete", !.pc = "del:latest", !.id = p] \in Request
    BY <1>l, BlankTypes DEF Request
  <2>2. \A pg \in pages : pg.id \in PageIds
    BY <1>t DEF TablesTypeOK, Page
  <2> QED
    BY <1>9, <1>t, <1>q, <2>1, <2>2, ArriveType DEF DeletePageLoad
<1>10. CASE ClearPagesRows(t)
  <2>1. \A label \in Labels : [Idle EXCEPT !.op = "clear", !.pc = label] \in Request
    BY BlankTypes DEF Request, AllOps
  <2>2. (IF MayDeleteAllPages THEN "clr:contents" ELSE "threw") \in Labels
    BY DEF Labels
  <2>3. TablesTypeOK'
    BY <1>10, <1>t, DeleteTypes DEF ClearPagesRows
  <2> QED
    BY <1>10, <2>1, <2>2, <2>3, ArriveType DEF ClearPagesRows
<1>11. CASE ClearCachePages(t)
  <2>1. [Idle EXCEPT !.op = "clearcache", !.pc = "cache:lists"] \in Request
    BY <1>l, BlankTypes DEF Request
  <2>2. CachesTypeOK'
    BY <1>11, <1>t, UncacheTypes DEF ClearCachePages
  <2> QED
    BY <1>11, <1>t, <1>q, <2>1, <2>2, ArriveType DEF ClearCachePages
<1>12. CASE CreateIndexPages(t)
  <2>1. [Idle EXCEPT !.op = "createindex", !.pc = "idx:contents",
                      !.todo = pages] \in Request
    BY <1>t, <1>l, BlankTypes DEF TablesTypeOK, Request
  <2>2. [Idle EXCEPT !.op = "createindex", !.pc = "threw"] \in Request
    BY <1>l, BlankTypes DEF Request
  <2>3. IndexTypeOK'
    BY <1>12, <1>t, IndexOtherTypes DEF CreateIndexPages
  <2> QED
    BY <1>12, <1>t, <1>q, <2>1, <2>2, <2>3, ArriveType DEF CreateIndexPages
<1> QED
  BY <1>1, <1>2, <1>3, <1>4, <1>5, <1>6, <1>7, <1>8, <1>9, <1>10, <1>11, <1>12 DEF Arrives, Arrive

-----------------------------------------------------------------------------
(* The theorem. *)

LEMMA InitTypes == Init => TypeOK
<1> SUFFICES ASSUME Init PROVE TypeOK
  OBVIOUS
<1>1. \A i \in DOMAIN Seed : /\ i \in Nat \ {0}
                             /\ i \in PageIds
                             /\ Seed[i].page \in Page
                             /\ Seed[i].text \in Text
  <2> DEFINE Seeds == [page : Page, text : Text]
  <2>1. \A s \in Seeds : s.page \in Page /\ s.text \in Text
    OBVIOUS
  <2> HIDE DEF Seeds
  <2>2. Seed \in Seq(Seeds) /\ Len(Seed) <= MaxPages /\ MaxPages \in Nat
    BY RepositoryAssumption DEF Seeds
  <2> QED
    BY <2>1, <2>2 DEF PageIds
<1>2. Len(Seed) \in Nat
  BY RepositoryAssumption
<1>3. TablesTypeOK
  <2>1. \A i \in DOMAIN Seed :
          [id |-> i, pageId |-> i, version |-> 1, text |-> Seed[i].text, editedOn |-> 0]
            \in PageContent
    BY <1>1 DEF PageContent
  <2>2. pages \subseteq Page
    BY <1>1 DEF Init, TablesInit
  <2>3. contents \subseteq PageContent
    BY <2>1 DEF Init, TablesInit
  <2> QED
    BY <1>2, <2>2, <2>3 DEF Init, TablesInit, TablesTypeOK
<1>4. CachesTypeOK
  BY DEF Init, CachesInit, CachesTypeOK
<1>5. IndexTypeOK
  <2>1. \A p \in PageIds : p \in DOMAIN Seed =>
          [page |-> Seed[p].page, text |-> Seed[p].text, version |-> 1] \in View
    BY <1>1 DEF View
  <2>2. \A p \in PageIds :
          (IF p \in DOMAIN Seed
           THEN <<[page |-> Seed[p].page, text |-> Seed[p].text, version |-> 1]>>
           ELSE <<>>) \in Seq(View)
    BY <2>1
  <2> QED
    BY <2>2 DEF Init, IndexInit, IndexTypeOK
<1>6. RequestsOK /\ started \in Nat
  BY BlankTypes DEF Init, RequestsOK
<1>7. BrowsersTypeOK
  <2>1. \A i \in DOMAIN Seed :
          [page |-> Seed[i].page, text |-> Seed[i].text, version |-> 1] \in View
    BY <1>1 DEF View
  <2>2. forms \subseteq Form
    BY <2>1, ServiceAssumption DEF Init, FormsInit, Form
  <2> QED
    BY <2>2 DEF Init, BrowsersTypeOK
<1> QED
  BY <1>3, <1>4, <1>5, <1>6, <1>7, TypeParts

LEMMA RecycleTypes ==
    ASSUME TypeOK, Recycle
    PROVE  SiteTypeOK'
<1>1. TablesTypeOK'
  BY DeleteTypes DEF TypeOK, Recycle
<1>2. CachesTypeOK'
  BY DEF Recycle, CachesTypeOK
<1>3. IndexTypeOK'
  BY DEF TypeOK, Recycle, IndexTypeOK
<1>4. (rq \in [Threads -> Request])'
  BY BlankTypes DEF Recycle
<1>5. (started \in Nat)'
  BY DEF TypeOK, Recycle
<1> QED
  BY <1>1, <1>2, <1>3, <1>4, <1>5 DEF SiteTypeOK, RequestsOK

LEMMA StutterTypes ==
    ASSUME TypeOK, UNCHANGED site
    PROVE  SiteTypeOK'
BY DEF TypeOK, SiteTypeOK, TablesTypeOK, CachesTypeOK, IndexTypeOK, RequestsOK, site, tables,
       caches, index

(* What a step does to the site.                                           *)
LEMMA SiteSteps ==
    ASSUME [Next]_vars
    PROVE  \/ \E t \in Threads : Arrives(t) \/ GoOn(t)
           \/ Recycle
           \/ UNCHANGED site
BY DEF Next, Arrives, GoOn, ReadOn, OpenLoadedForm, OpenCachedForm, Finished, vars

(* And to the browsers.                                                    *)
LEMMA OpenFormType ==
    ASSUME TypeOK, NEW view \in View, OpenForm(view)
    PROVE  BrowsersTypeOK'
BY ServiceAssumption DEF TypeOK, BrowsersTypeOK, OpenForm, Form

LEMMA BrowsersTypes ==
    ASSUME TypeOK, [Next]_vars
    PROVE  BrowsersTypeOK'
<1>1. ASSUME NEW t \in Threads, OpenLoadedForm(t)
      PROVE  BrowsersTypeOK'
  <2>1. rq[t].view \in View
    BY RequestFields, TypeParts
  <2> QED
    BY <1>1, <2>1, OpenFormType DEF OpenLoadedForm
<1>2. CASE OpenCachedForm
  <2>1. \A e \in pageCache : e.view \in View
    BY DEF TypeOK, CachesTypeOK
  <2> QED
    BY <1>2, <2>1, OpenFormType DEF OpenCachedForm
<1>3. ASSUME NEW t \in Threads, UpdateForm(t)
      PROVE  BrowsersTypeOK'
  <2>1. \A form : (outdated \/ ~UpToDate(form.view)) \in BOOLEAN
    OBVIOUS
  <2> QED
    BY <1>3, <2>1 DEF UpdateForm, TypeOK, BrowsersTypeOK
<1>4. CASE UNCHANGED browsers
  BY <1>4 DEF TypeOK, BrowsersTypeOK, browsers
<1> QED
  BY <1>1, <1>2, <1>3, <1>4 DEF Next, Recycle, Finished, vars, browsers

LEMMA NextTypes ==
    ASSUME TypeOK, [Next]_vars
    PROVE  TypeOK'
<1>1. SiteTypeOK'
  BY SiteSteps, ArriveTypes, ReadOnTypes, UpdateOnTypes, WriteOnTypes, RecycleTypes,
     StutterTypes DEF GoOn
<1>2. BrowsersTypeOK'
  BY BrowsersTypes
<1> QED
  BY <1>1, <1>2 DEF SiteTypeOK, BrowsersTypeOK, RequestsOK, TypeOK

(* Every table, cache entry, index document and request in progress holds  *)
(* what its declaration says, for any number of threads, pages and users:  *)
(* in particular the home page's entry is a view model, and no version     *)
(* number falls below 1.                                                   *)
THEOREM TypeCorrect == Spec => []TypeOK
<1>1. Init => TypeOK
  BY InitTypes
<1>2. TypeOK /\ [Next]_vars => TypeOK'
  BY NextTypes
<1> QED
  BY <1>1, <1>2, PTL DEF Spec

-----------------------------------------------------------------------------
(* Histories. *)


KeepsPages == Never({"delete", "clear"})

(* Where a request may be about to delete rows. *)
DeleteLabels ==
    {"del:latest", "del:unindex", "del:children", "del:contents", "del:row",
     "clr:contents"}

(* Where a request is about to insert a numbered version. *)
InsertLabels == {"upd:time", "upd:insert", "rev:time", "rev:insert"}

RowsAreNumbered ==
    /\ \A c \in contents : c.id < nextRow
    /\ \A c, d \in contents : c.id = d.id => c = d

NothingIsDeleted == \A t \in Threads : rq[t].pc \notin DeleteLabels

(* What UpdateLinksToPage has read is there still, but for the links. *)
SnapshotsAgree ==
    \A t \in Threads : \A c \in rq[t].rows : \E d \in contents : SameVersion(c, d)

HasVersion(saved, p, v) == \E d \in saved : d.pageId = p /\ d.version = v

(* The version number a request is about to use follows one that exists. *)
NumbersFollow ==
    \A t \in Threads :
       rq[t].pc \in InsertLabels =>
         rq[t].ver > 1 /\ HasVersion(contents, rq[t].id, rq[t].ver - 1)

NoGaps == \A c \in contents : c.version > 1 => HasVersion(contents, c.pageId, c.version - 1)

HistoryInv ==
    /\ TypeOK
    /\ RowsAreNumbered
    /\ NothingIsDeleted
    /\ SnapshotsAgree
    /\ NumbersFollow
    /\ NoGaps

(* What the rows become: each stays, as far as SameVersion goes. *)
RowsAreKept == \A c \in contents : \E d \in contents' : SameVersion(c, d)

-----------------------------------------------------------------------------
(* SameVersion. *)

LEMMA SameVersionIsEquivalence ==
    /\ \A c : SameVersion(c, c)
    /\ \A c, d, e : SameVersion(c, d) /\ SameVersion(d, e) => SameVersion(c, e)
BY DEF SameVersion

LEMMA KeptVersions ==
    ASSUME RowsAreKept, NEW p, NEW v, HasVersion(contents, p, v)
    PROVE  HasVersion(contents', p, v)
BY DEF RowsAreKept, HasVersion, SameVersion

-----------------------------------------------------------------------------
(* What happens to the rows. *)

LEMMA RowsUnchanged ==
    ASSUME RowsAreNumbered, NoGaps, UNCHANGED <<contents, nextRow>>
    PROVE  RowsAreKept /\ RowsAreNumbered' /\ NoGaps'
<1>1. RowsAreKept
  BY SameVersionIsEquivalence DEF RowsAreKept
<1>2. RowsAreNumbered'
  BY DEF RowsAreNumbered
<1>3. NoGaps'
  BY DEF NoGaps
<1> QED
  BY <1>1, <1>2, <1>3

LEMMA RowInserted ==
    ASSUME TablesTypeOK, RowsAreNumbered, NoGaps,
           NEW p \in PageIds, NEW v \in Nat \ {0}, NEW text \in Text,
           v > 1 => HasVersion(contents, p, v - 1),
           NEW on, InsertContent(p, v, text, on)
    PROVE  RowsAreKept /\ RowsAreNumbered' /\ NoGaps'
<1>1. /\ contents' = contents \cup
             {[id |-> nextRow, pageId |-> p, version |-> v, text |-> text,
               editedOn |-> on]}
        /\ nextRow' = nextRow + 1
  BY DEF InsertContent
<1> DEFINE row == [id |-> nextRow, pageId |-> p, version |-> v, text |-> text,
                   editedOn |-> on]
<1>2. row.id = nextRow /\ row.pageId = p /\ row.version = v
  OBVIOUS
<1>3. contents' = contents \cup {row}
  BY <1>1
<1> HIDE DEF row
<1>4. nextRow \in Nat /\ \A c \in contents : c.id \in Nat /\ c.id < nextRow
  BY DEF TablesTypeOK, RowsAreNumbered, PageContent
<1>5. RowsAreKept
  BY <1>3, SameVersionIsEquivalence DEF RowsAreKept
<1>6. RowsAreNumbered'
  BY <1>1, <1>2, <1>3, <1>4 DEF RowsAreNumbered
<1>7. NoGaps'
  <2> SUFFICES ASSUME NEW c \in contents', c.version > 1
               PROVE  HasVersion(contents', c.pageId, c.version - 1)
    BY DEF NoGaps
  <2>1. HasVersion(contents, c.pageId, c.version - 1)
    BY <1>2, <1>3 DEF NoGaps
  <2> QED
    BY <1>5, <2>1, KeptVersions
<1> QED
  BY <1>5, <1>6, <1>7

(* A row is written back with other links. *)
LEMMA RowRewritten ==
    ASSUME TablesTypeOK, RowsAreNumbered, NoGaps,
           NEW c \in PageContent, NEW links, NEW old \in contents, SameVersion(c, old),
           UpdatePageContent([c EXCEPT !.text.links = links])
    PROVE  RowsAreKept /\ RowsAreNumbered' /\ NoGaps'
<1> DEFINE row == [c EXCEPT !.text.links = links]
<1>1. SameVersion(old, row) /\ SameVersion(row, old)
  BY DEF SameVersion, PageContent, Text
<1>a. UpdatePageContent(row)
  OBVIOUS
<1> HIDE DEF row
<1>2. /\ contents' = {IF d.id = row.id THEN row ELSE d : d \in contents}
      /\ UNCHANGED nextRow
  BY <1>a DEF UpdatePageContent
<1>3. \A d \in contents : d.id = row.id => d = old
  BY <1>1 DEF SameVersion, RowsAreNumbered
<1>4. RowsAreKept
  BY <1>1, <1>2, <1>3, SameVersionIsEquivalence DEF RowsAreKept
<1>5. \A d \in contents' : \E e \in contents :
        /\ SameVersion(e, d)
        /\ (d = row /\ e = old) \/ (d = e /\ e.id # row.id)
  BY <1>1, <1>2, <1>3, SameVersionIsEquivalence
<1>6. RowsAreNumbered'
  BY <1>1, <1>2, <1>5 DEF RowsAreNumbered, SameVersion
<1>7. NoGaps'
  <2> SUFFICES ASSUME NEW d \in contents', d.version > 1
               PROVE  HasVersion(contents', d.pageId, d.version - 1)
    BY DEF NoGaps
  <2>1. PICK e \in contents : SameVersion(e, d)
    BY <1>5
  <2>2. HasVersion(contents, d.pageId, d.version - 1)
    BY <2>1 DEF NoGaps, SameVersion
  <2> QED
    BY <1>4, <2>2, KeptVersions
<1> QED
  BY <1>4, <1>6, <1>7

-----------------------------------------------------------------------------
(* What happens to the requests. *)

(* The request that thread t executes next: its rows are some it had, or   *)
(* rows of the table, and it is not about to insert or delete.             *)
Follows(t, r) ==
    /\ r.rows \subseteq rq[t].rows \cup contents
    /\ r.pc \notin DeleteLabels
    /\ r.pc \in InsertLabels =>
         r.ver > 1 /\ HasVersion(contents, r.id, r.ver - 1)

LEMMA RequestMoved ==
    ASSUME HistoryInv, NEW t \in Threads, RowsAreKept,
           NEW r, Follows(t, r), rq' = [rq EXCEPT ![t] = r]
    PROVE  NothingIsDeleted' /\ SnapshotsAgree' /\ NumbersFollow'
<1>1. \A s \in Threads : rq'[s] = IF s = t THEN r ELSE rq[s]
  BY DEF HistoryInv, TypeOK
<1>2. NothingIsDeleted'
  BY <1>1 DEF HistoryInv, NothingIsDeleted, Follows
<1>3. SnapshotsAgree'
  <2> SUFFICES ASSUME NEW s \in Threads, NEW c \in rq'[s].rows
               PROVE  \E d \in contents' : SameVersion(c, d)
    BY DEF SnapshotsAgree
  <2>1. c \in rq[s].rows \cup contents
    BY <1>1 DEF Follows
  <2>2. PICK e \in contents : SameVersion(c, e)
    BY <2>1, SameVersionIsEquivalence DEF HistoryInv, SnapshotsAgree
  <2>3. PICK d \in contents' : SameVersion(e, d)
    BY <2>2 DEF RowsAreKept
  <2> QED
    BY <2>2, <2>3, SameVersionIsEquivalence
<1>4. NumbersFollow'
  <2> SUFFICES ASSUME NEW s \in Threads, rq'[s].pc \in InsertLabels
               PROVE  rq'[s].ver > 1 /\ HasVersion(contents', rq'[s].id, rq'[s].ver - 1)
    BY DEF NumbersFollow
  <2>1. rq'[s].ver > 1 /\ HasVersion(contents, rq'[s].id, rq'[s].ver - 1)
    BY <1>1 DEF HistoryInv, NumbersFollow, Follows
  <2> QED
    BY <2>1, KeptVersions
<1> QED
  BY <1>2, <1>3, <1>4

(* What every step of a request is to be shown to do. *)
KeepsHistory(t) ==
    /\ RowsAreKept /\ RowsAreNumbered' /\ NoGaps'
    /\ \E r : Follows(t, r) /\ rq' = [rq EXCEPT ![t] = r]

LEMMA Returns ==
    ASSUME NEW t \in Threads, Return(t) \/ Throw(t)
    PROVE  \E r : Follows(t, r) /\ rq' = [rq EXCEPT ![t] = r]
BY DEF Return, Throw, Follows, Idle, DeleteLabels, InsertLabels

LEMMA Goes ==
    ASSUME HistoryInv, NEW t \in Threads, NEW label \in Labels \ (DeleteLabels \cup InsertLabels),
           Goto(t, label)
    PROVE  \E r : Follows(t, r) /\ rq' = [rq EXCEPT ![t] = r]
<1>1. rq[t] \in Request
  BY DEF HistoryInv, TypeOK
<1>2. Follows(t, [rq[t] EXCEPT !.pc = label])
  BY <1>1 DEF Follows, Request
<1>3. rq' = [rq EXCEPT ![t] = [rq[t] EXCEPT !.pc = label]]
  BY DEF Goto
<1> QED
  BY <1>2, <1>3

LEMMA Becomes ==
    ASSUME NEW t \in Threads, NEW r, Become(t, r),
           r.rows \subseteq rq[t].rows \cup contents,
           r.pc \notin DeleteLabels \cup InsertLabels
    PROVE  \E s : Follows(t, s) /\ rq' = [rq EXCEPT ![t] = s]
BY DEF Become, Follows

(* A step that leaves the rows alone. *)
LEMMA StepsAside ==
    ASSUME HistoryInv, NEW t \in Threads, UNCHANGED <<contents, nextRow>>,
           \E r : Follows(t, r) /\ rq' = [rq EXCEPT ![t] = r]
    PROVE  KeepsHistory(t)
BY RowsUnchanged DEF HistoryInv, KeepsHistory

-----------------------------------------------------------------------------
(* The steps of the requests that read. *)

LEMMA ReadOnKeeps ==
    ASSUME HistoryInv, KeepsPages, NEW t \in Threads, ReadOn(t)
    PROVE  KeepsHistory(t)
<1>r. rq[t] \in Request /\ TablesTypeOK
  BY DEF HistoryInv, TypeOK
<1>1. CASE GetByIdPage(t)
  <2>1. UNCHANGED <<contents, nextRow>>
    BY <1>1 DEF GetByIdPage, tables
  <2>2. \E r : Follows(t, r) /\ rq' = [rq EXCEPT ![t] = r]
    BY <1>1, <1>r, Returns, Goes, Becomes DEF GetByIdPage, Request, Labels, DeleteLabels,
       InsertLabels
  <2> QED
    BY <2>1, <2>2, StepsAside
<1>2. CASE GetByIdContent(t)
  <2>1. UNCHANGED <<contents, nextRow>>
    BY <1>2 DEF GetByIdContent, tables
  <2>2. \E r : Follows(t, r) /\ rq' = [rq EXCEPT ![t] = r]
    BY <1>2, <1>r, Returns, Goes, Becomes DEF GetByIdContent, Request, Labels, DeleteLabels,
       InsertLabels
  <2> QED
    BY <2>1, <2>2, StepsAside
<1>3. CASE GetByIdCache(t)
  <2>1. UNCHANGED <<contents, nextRow>>
    BY <1>3 DEF GetByIdCache, tables
  <2>2. \E r : Follows(t, r) /\ rq' = [rq EXCEPT ![t] = r]
    BY <1>3, Returns, Goes DEF GetByIdCache, Labels, DeleteLabels, InsertLabels
  <2> QED
    BY <2>1, <2>2, StepsAside
<1>4. CASE HomePageAny(t)
  <2>1. UNCHANGED <<contents, nextRow>>
    BY <1>4 DEF HomePageAny, tables
  <2>2. \E r : Follows(t, r) /\ rq' = [rq EXCEPT ![t] = r]
    BY <1>4, <1>r, Returns, Goes, Becomes DEF HomePageAny, Request, Labels, DeleteLabels,
       InsertLabels
  <2> QED
    BY <2>1, <2>2, StepsAside
<1>5. CASE HomePageContent(t)
  <2>1. UNCHANGED <<contents, nextRow>>
    BY <1>5 DEF HomePageContent, tables
  <2>2. \E r : Follows(t, r) /\ rq' = [rq EXCEPT ![t] = r]
    BY <1>5, <1>r, Returns, Goes, Becomes DEF HomePageContent, Request, Labels, DeleteLabels,
       InsertLabels
  <2> QED
    BY <2>1, <2>2, StepsAside
<1>6. CASE HomePageCache(t)
  <2>1. UNCHANGED <<contents, nextRow>>
    BY <1>6 DEF HomePageCache, tables
  <2>2. \E r : Follows(t, r) /\ rq' = [rq EXCEPT ![t] = r]
    BY <1>6, Returns, Goes DEF HomePageCache, Labels, DeleteLabels, InsertLabels
  <2> QED
    BY <2>1, <2>2, StepsAside
<1>7. CASE ListPages(t)
  <2>1. UNCHANGED <<contents, nextRow>>
    BY <1>7 DEF ListPages, tables
  <2>2. \E r : Follows(t, r) /\ rq' = [rq EXCEPT ![t] = r]
    BY <1>7, <1>r, Returns, Goes, Becomes DEF ListPages, Request, Labels, DeleteLabels,
       InsertLabels
  <2> QED
    BY <2>1, <2>2, StepsAside
<1>8. CASE ListContent(t)
  <2>1. UNCHANGED <<contents, nextRow>>
    BY <1>8 DEF ListContent, tables
  <2>2. \E r : Follows(t, r) /\ rq' = [rq EXCEPT ![t] = r]
    <3>1. \A pg, c :
            LET next == [rq[t] EXCEPT !.todo = @ \ {pg}, !.views = @ \cup {ViewOf(pg, c)}]
            IN next.rows = rq[t].rows /\ next.pc = rq[t].pc
      BY <1>r DEF Request
    <3>2. rq[t].pc = "list:contents"
      BY <1>8 DEF ListContent, At
    <3> QED
      BY <1>8, <3>1, <3>2, Returns, Goes, Becomes DEF ListContent, Labels, DeleteLabels,
         InsertLabels
  <2> QED
    BY <2>1, <2>2, StepsAside
<1>9. CASE ListCacheAdd(t)
  <2>1. UNCHANGED <<contents, nextRow>>
    BY <1>9 DEF ListCacheAdd, tables
  <2>2. \E r : Follows(t, r) /\ rq' = [rq EXCEPT ![t] = r]
    BY <1>9, <1>r, Returns, Goes, Becomes DEF ListCacheAdd, Request, Labels, DeleteLabels,
       InsertLabels
  <2> QED
    BY <2>1, <2>2, StepsAside
<1>10. CASE ComparePrevious(t)
  <2>1. UNCHANGED <<contents, nextRow>>
    BY <1>10 DEF ComparePrevious, tables
  <2>2. \E r : Follows(t, r) /\ rq' = [rq EXCEPT ![t] = r]
    BY <1>10, <1>r, Returns, Goes, Becomes DEF ComparePrevious, Request, Labels, DeleteLabels,
       InsertLabels
  <2> QED
    BY <2>1, <2>2, StepsAside
<1>11. CASE CompareCache(t)
  <2>1. UNCHANGED <<contents, nextRow>>
    BY <1>11 DEF CompareCache, tables
  <2>2. \E r : Follows(t, r) /\ rq' = [rq EXCEPT ![t] = r]
    BY <1>11, Returns, Goes DEF CompareCache, Labels, DeleteLabels, InsertLabels
  <2> QED
    BY <2>1, <2>2, StepsAside
<1> QED
  BY <1>1, <1>2, <1>3, <1>4, <1>5, <1>6, <1>7, <1>8, <1>9, <1>10, <1>11 DEF ReadOn

-----------------------------------------------------------------------------
(* The steps of an update. *)

LEMMA UpdateOnKeeps ==
    ASSUME HistoryInv, KeepsPages, NEW t \in Threads, UpdateOn(t)
    PROVE  KeepsHistory(t)
<1>r. rq[t] \in Request /\ TablesTypeOK
  BY DEF HistoryInv, TypeOK
<1>1. CASE UpdatePageLoad(t)
  <2>1. UNCHANGED <<contents, nextRow>>
    BY <1>1 DEF UpdatePageLoad, tables
  <2>2. \E r : Follows(t, r) /\ rq' = [rq EXCEPT ![t] = r]
    BY <1>1, <1>r, Returns, Goes, Becomes DEF UpdatePageLoad, Request, Labels, DeleteLabels,
       InsertLabels
  <2> QED
    BY <2>1, <2>2, StepsAside
<1>2. CASE UpdatePageSave(t)
  <2>1. UNCHANGED <<contents, nextRow>>
    BY <1>2 DEF UpdatePageSave, SaveOrUpdatePage
  <2>2. \E r : Follows(t, r) /\ rq' = [rq EXCEPT ![t] = r]
    BY <1>2, Returns, Goes DEF UpdatePageSave, Labels, DeleteLabels, InsertLabels
  <2> QED
    BY <2>1, <2>2, StepsAside
<1>3. CASE UpdatePageUncache(t)
  <2>1. UNCHANGED <<contents, nextRow>>
    BY <1>3 DEF UpdatePageUncache, tables
  <2>2. \E r : Follows(t, r) /\ rq' = [rq EXCEPT ![t] = r]
    BY <1>3, Returns, Goes DEF UpdatePageUncache, Labels, DeleteLabels, InsertLabels
  <2> QED
    BY <2>1, <2>2, StepsAside
<1>4. CASE UpdatePageUncacheHome(t)
  <2>1. UNCHANGED <<contents, nextRow>>
    BY <1>4 DEF UpdatePageUncacheHome, tables
  <2>2. \E r : Follows(t, r) /\ rq' = [rq EXCEPT ![t] = r]
    BY <1>4, Returns, Goes DEF UpdatePageUncacheHome, Labels, DeleteLabels, InsertLabels
  <2> QED
    BY <2>1, <2>2, StepsAside
<1>5. CASE UpdatePageUncacheLists(t)
  <2>1. UNCHANGED <<contents, nextRow>>
    BY <1>5 DEF UpdatePageUncacheLists, tables
  <2>2. \E r : Follows(t, r) /\ rq' = [rq EXCEPT ![t] = r]
    BY <1>5, Returns, Goes DEF UpdatePageUncacheLists, Labels, DeleteLabels, InsertLabels
  <2> QED
    BY <2>1, <2>2, StepsAside
<1>6. CASE UpdatePageMaxVersion(t)
  <2>1. UNCHANGED <<contents, nextRow>>
    BY <1>6 DEF UpdatePageMaxVersion, tables
  <2>2. CASE Throw(t)
    BY <2>1, <2>2, Returns, StepsAside
  <2>3. CASE \E c \in GetLatestPageContent(rq[t].id) :
               Become(t, [rq[t] EXCEPT !.pc = "upd:time", !.ver = c.version + 1])
    <3>1. PICK c \in GetLatestPageContent(rq[t].id) :
            Become(t, [rq[t] EXCEPT !.pc = "upd:time", !.ver = c.version + 1])
      BY <2>3
    <3>2. c \in contents /\ c.pageId = rq[t].id /\ c.version \in Nat \ {0}
      BY <1>r DEF GetLatestPageContent, FindPageContentsByPageId, TablesTypeOK,
         PageContent
    <3>3. HasVersion(contents, rq[t].id, (c.version + 1) - 1)
      BY <3>2 DEF HasVersion
    <3> DEFINE next == [rq[t] EXCEPT !.pc = "upd:time", !.ver = c.version + 1]
    <3>4. next.rows = rq[t].rows /\ next.pc = "upd:time" /\ next.ver = c.version + 1
             /\ next.id = rq[t].id
      BY <1>r DEF Request
    <3>5. rq' = [rq EXCEPT ![t] = next]
      BY <3>1 DEF Become
    <3> HIDE DEF next
    <3>6. Follows(t, next)
      BY <3>2, <3>3, <3>4 DEF Follows, DeleteLabels
    <3> QED
      BY <2>1, <3>5, <3>6, StepsAside
  <2> QED
    BY <1>6, <2>2, <2>3 DEF UpdatePageMaxVersion
<1>7. CASE UpdatePageInsert(t)
  <2>1. \E r : Follows(t, r) /\ rq' = [rq EXCEPT ![t] = r]
    BY <1>7, Returns, Goes DEF UpdatePageInsert, Labels, DeleteLabels, InsertLabels
  <2>2. CASE UNCHANGED tables
    BY <2>1, <2>2, StepsAside DEF tables
  <2>3. CASE AddNewPageContentVersion(rq[t].id, rq[t].ver, rq[t].model.text, rq[t].on)
    <3>1. /\ rq[t].ver > 1 /\ rq[t].ver \in Nat
          /\ HasVersion(contents, rq[t].id, rq[t].ver - 1)
      BY <1>7, <1>r DEF UpdatePageInsert, At, HistoryInv, NumbersFollow, InsertLabels, Request
    <3>2. InsertContent(rq[t].id, rq[t].ver, rq[t].model.text, rq[t].on)
      BY <2>3, <3>1 DEF AddNewPageContentVersion
    <3>3. rq[t].id \in PageIds /\ rq[t].model.text \in Text
      BY <1>r DEF Request, View
    <3>4. RowsAreKept /\ RowsAreNumbered' /\ NoGaps'
      BY <1>r, <3>1, <3>2, <3>3, RowInserted DEF HistoryInv
    <3> QED
      BY <2>1, <3>4 DEF KeepsHistory
  <2> QED
    BY <1>7, <2>2, <2>3 DEF UpdatePageInsert
<1>8. CASE UpdateLinksRead(t)
  <2>1. UNCHANGED <<contents, nextRow>>
    BY <1>8 DEF UpdateLinksRead, tables
  <2>2. \E r : Follows(t, r) /\ rq' = [rq EXCEPT ![t] = r]
    BY <1>8, <1>r, Returns, Goes, Becomes DEF UpdateLinksRead, Request, Labels, DeleteLabels,
       InsertLabels
  <2> QED
    BY <2>1, <2>2, StepsAside
<1>9. CASE UpdateLinksRewrite(t)
  <2>1. CASE Goto(t, "upd:clearpages") /\ UNCHANGED tables
    BY <2>1, Goes, StepsAside DEF Labels, DeleteLabels, InsertLabels, tables
  <2>2. CASE \E c \in rq[t].rows :
               /\ UpdatePageContent([c EXCEPT !.text = ReplacePageLinks(@,
                                       rq[t].prev, rq[t].model.page.title)])
               /\ Become(t, [rq[t] EXCEPT !.rows = @ \ {c}])
    <3>1. PICK c \in rq[t].rows :
            /\ UpdatePageContent([c EXCEPT !.text = ReplacePageLinks(@,
                                    rq[t].prev, rq[t].model.page.title)])
            /\ Become(t, [rq[t] EXCEPT !.rows = @ \ {c}])
      BY <2>2
    <3> DEFINE links == (c.text.links \ {rq[t].prev}) \cup {rq[t].model.page.title}
    <3>2. c \in PageContent
      BY <1>r DEF Request
    <3>3. PICK old \in contents : SameVersion(c, old)
      BY DEF HistoryInv, SnapshotsAgree
    <3>4. UpdatePageContent([c EXCEPT !.text.links = links])
      BY <3>1, <3>2 DEF ReplacePageLinks, PageContent, Text
    <3> HIDE DEF links
    <3>5. RowsAreKept /\ RowsAreNumbered' /\ NoGaps'
      BY <1>r, <3>2, <3>3, <3>4, RowRewritten DEF HistoryInv
    <3>6. \E r : Follows(t, r) /\ rq' = [rq EXCEPT ![t] = r]
      <4>1. rq[t].pc = "upd:rewrite"
        BY <1>9 DEF UpdateLinksRewrite, At
      <4> QED
        BY <1>r, <3>1, <4>1, Becomes DEF Request, DeleteLabels, InsertLabels
    <3> QED
      BY <3>5, <3>6 DEF KeepsHistory
  <2> QED
    BY <1>9, <2>1, <2>2 DEF UpdateLinksRewrite
<1>10. CASE UpdateLinksClearPages(t)
  <2>1. UNCHANGED <<contents, nextRow>>
    BY <1>10 DEF UpdateLinksClearPages, tables
  <2>2. \E r : Follows(t, r) /\ rq' = [rq EXCEPT ![t] = r]
    BY <1>10, Returns, Goes DEF UpdateLinksClearPages, Labels, DeleteLabels, InsertLabels
  <2> QED
    BY <2>1, <2>2, StepsAside
<1>11. CASE UpdateLinksClearLists(t)
  <2>1. UNCHANGED <<contents, nextRow>>
    BY <1>11 DEF UpdateLinksClearLists, tables
  <2>2. \E r : Follows(t, r) /\ rq' = [rq EXCEPT ![t] = r]
    BY <1>11, Returns, Goes DEF UpdateLinksClearLists, Labels, DeleteLabels, InsertLabels
  <2> QED
    BY <2>1, <2>2, StepsAside
<1>12. CASE UpdatePageReread(t)
  <2>1. UNCHANGED <<contents, nextRow>>
    BY <1>12 DEF UpdatePageReread, tables
  <2>2. \E r : Follows(t, r) /\ rq' = [rq EXCEPT ![t] = r]
    BY <1>12, <1>r, Returns, Goes, Becomes DEF UpdatePageReread, Request, Labels, DeleteLabels,
       InsertLabels
  <2> QED
    BY <2>1, <2>2, StepsAside
<1>13. CASE UpdatePageUnindex(t)
  <2>1. UNCHANGED <<contents, nextRow>>
    BY <1>13 DEF UpdatePageUnindex, tables
  <2>2. \E r : Follows(t, r) /\ rq' = [rq EXCEPT ![t] = r]
    BY <1>13, Returns, Goes DEF UpdatePageUnindex, Labels, DeleteLabels, InsertLabels
  <2> QED
    BY <2>1, <2>2, StepsAside
<1>14. CASE UpdatePageIndex(t)
  <2>1. UNCHANGED <<contents, nextRow>>
    BY <1>14 DEF UpdatePageIndex, tables
  <2>2. \E r : Follows(t, r) /\ rq' = [rq EXCEPT ![t] = r]
    BY <1>14, Returns, Goes DEF UpdatePageIndex, Labels, DeleteLabels, InsertLabels
  <2> QED
    BY <2>1, <2>2, StepsAside
<1>15. CASE UpdatePageTakeTime(t)
  <2>1. UNCHANGED <<contents, nextRow>>
    BY <1>15 DEF UpdatePageTakeTime, rows
  <2>2. PICK on : Become(t, [rq[t] EXCEPT !.pc = "upd:insert", !.on = on])
    BY <1>15 DEF UpdatePageTakeTime
  <2>3. PICK next : next = [rq[t] EXCEPT !.pc = "upd:insert", !.on = on]
    OBVIOUS
  <2>4. /\ next.rows = rq[t].rows /\ next.pc = "upd:insert" /\ next.ver = rq[t].ver
        /\ next.id = rq[t].id
    BY <1>r, <2>3 DEF Request
  <2>5. rq[t].ver > 1 /\ HasVersion(contents, rq[t].id, rq[t].ver - 1)
    BY <1>15 DEF UpdatePageTakeTime, At, HistoryInv, NumbersFollow, InsertLabels
  <2>6. Follows(t, next)
    BY <2>4, <2>5 DEF Follows, DeleteLabels
  <2> QED
    BY <2>1, <2>2, <2>3, <2>6, StepsAside DEF Become
<1> QED
  BY <1>1, <1>2, <1>3, <1>4, <1>5, <1>6, <1>7, <1>8, <1>9, <1>10, <1>11, <1>12, <1>13, <1>14,
     <1>15 DEF UpdateOn

-----------------------------------------------------------------------------
(* The steps of the other requests that write. *)

LEMMA WriteOnKeeps ==
    ASSUME HistoryInv, KeepsPages, NEW t \in Threads, WriteOn(t)
    PROVE  KeepsHistory(t)
<1>r. rq[t] \in Request /\ TablesTypeOK
  BY DEF HistoryInv, TypeOK
<1>1. CASE AddPageContent(t)
  <2>1. \E r : Follows(t, r) /\ rq' = [rq EXCEPT ![t] = r]
    BY <1>1, Returns, Goes DEF AddPageContent, Labels, DeleteLabels, InsertLabels
  <2>2. CASE UNCHANGED tables
    BY <2>1, <2>2, StepsAside DEF tables
  <2>3. CASE InsertContent(rq[t].id, 1, rq[t].model.text, rq[t].on)
    <3>1. rq[t].id \in PageIds /\ rq[t].model.text \in Text
      BY <1>r DEF Request, View
    <3>2. RowsAreKept /\ RowsAreNumbered' /\ NoGaps'
      BY <1>r, <2>3, <3>1, RowInserted DEF HistoryInv
    <3> QED
      BY <2>1, <3>2 DEF KeepsHistory
  <2> QED
    BY <1>1, <2>2, <2>3 DEF AddPageContent
<1>2. CASE AddPageClearLists(t)
  <2>1. UNCHANGED <<contents, nextRow>>
    BY <1>2 DEF AddPageClearLists, tables
  <2>2. \E r : Follows(t, r) /\ rq' = [rq EXCEPT ![t] = r]
    BY <1>2, Returns, Goes DEF AddPageClearLists, Labels, DeleteLabels, InsertLabels
  <2> QED
    BY <2>1, <2>2, StepsAside
<1>3. CASE AddPageClearPages(t)
  <2>1. UNCHANGED <<contents, nextRow>>
    BY <1>3 DEF AddPageClearPages, tables
  <2>2. \E r : Follows(t, r) /\ rq' = [rq EXCEPT ![t] = r]
    BY <1>3, Returns, Goes DEF AddPageClearPages, Labels, DeleteLabels, InsertLabels
  <2> QED
    BY <2>1, <2>2, StepsAside
<1>4. CASE AddPageIndex(t)
  <2>1. UNCHANGED <<contents, nextRow>>
    BY <1>4 DEF AddPageIndex, tables
  <2>2. \E r : Follows(t, r) /\ rq' = [rq EXCEPT ![t] = r]
    BY <1>4, Returns, Goes DEF AddPageIndex, Labels, DeleteLabels, InsertLabels
  <2> QED
    BY <2>1, <2>2, StepsAside
<1>5. CASE RevertMaxVersion(t)
  <2>1. UNCHANGED <<contents, nextRow>>
    BY <1>5 DEF RevertMaxVersion, tables
  <2>2. CASE Throw(t)
    BY <2>1, <2>2, Returns, StepsAside
  <2>3. CASE \E c \in GetLatestPageContent(rq[t].id) :
               Become(t, [rq[t] EXCEPT !.pc = "rev:time", !.ver = c.version + 1])
    <3>1. PICK c \in GetLatestPageContent(rq[t].id) :
            Become(t, [rq[t] EXCEPT !.pc = "rev:time", !.ver = c.version + 1])
      BY <2>3
    <3>2. c \in contents /\ c.pageId = rq[t].id /\ c.version \in Nat \ {0}
      BY <1>r DEF GetLatestPageContent, FindPageContentsByPageId, TablesTypeOK,
         PageContent
    <3>3. HasVersion(contents, rq[t].id, (c.version + 1) - 1)
      BY <3>2 DEF HasVersion
    <3> DEFINE next == [rq[t] EXCEPT !.pc = "rev:time", !.ver = c.version + 1]
    <3>4. next.rows = rq[t].rows /\ next.pc = "rev:time" /\ next.ver = c.version + 1
             /\ next.id = rq[t].id
      BY <1>r DEF Request
    <3>5. rq' = [rq EXCEPT ![t] = next]
      BY <3>1 DEF Become
    <3> HIDE DEF next
    <3>6. Follows(t, next)
      BY <3>2, <3>3, <3>4 DEF Follows, DeleteLabels
    <3> QED
      BY <2>1, <3>5, <3>6, StepsAside
  <2> QED
    BY <1>5, <2>2, <2>3 DEF RevertMaxVersion
<1>6. CASE RevertInsert(t)
  <2>1. \E r : Follows(t, r) /\ rq' = [rq EXCEPT ![t] = r]
    BY <1>6, Returns, Goes DEF RevertInsert, Labels, DeleteLabels, InsertLabels
  <2>2. CASE UNCHANGED tables
    BY <2>1, <2>2, StepsAside DEF tables
  <2>3. CASE AddNewPageContentVersion(rq[t].id, rq[t].ver, rq[t].view.text, rq[t].on)
    <3>1. /\ rq[t].ver > 1 /\ rq[t].ver \in Nat
          /\ HasVersion(contents, rq[t].id, rq[t].ver - 1)
      BY <1>6, <1>r DEF RevertInsert, At, HistoryInv, NumbersFollow, InsertLabels, Request
    <3>2. InsertContent(rq[t].id, rq[t].ver, rq[t].view.text, rq[t].on)
      BY <2>3, <3>1 DEF AddNewPageContentVersion
    <3>3. rq[t].id \in PageIds /\ rq[t].view.text \in Text
      BY <1>r DEF Request, View
    <3>4. RowsAreKept /\ RowsAreNumbered' /\ NoGaps'
      BY <1>r, <3>1, <3>2, <3>3, RowInserted DEF HistoryInv
    <3> QED
      BY <2>1, <3>4 DEF KeepsHistory
  <2> QED
    BY <1>6, <2>2, <2>3 DEF RevertInsert
<1>7. CASE RevertCache(t)
  <2>1. UNCHANGED <<contents, nextRow>>
    BY <1>7 DEF RevertCache, tables
  <2>2. \E r : Follows(t, r) /\ rq' = [rq EXCEPT ![t] = r]
    BY <1>7, Returns, Goes DEF RevertCache, Labels, DeleteLabels, InsertLabels
  <2> QED
    BY <2>1, <2>2, StepsAside
<1>8. CASE RenameTagNext(t)
  <2>1. UNCHANGED <<contents, nextRow>>
    BY <1>8 DEF RenameTagNext, tables
  <2>2. \A view : NextRenamed(t, view).rows = rq[t].rows /\ NextRenamed(t, view).pc = "tag:unindex"
    BY <1>r DEF NextRenamed, Request
  <2>3. \A view, pg :
          /\ [NextRenamed(t, view) EXCEPT !.todo = @ \ {pg}].rows = rq[t].rows
          /\ [NextRenamed(t, view) EXCEPT !.todo = @ \ {pg}].pc = "tag:unindex"
    BY <1>r DEF NextRenamed, Request
  <2>4. \E r : Follows(t, r) /\ rq' = [rq EXCEPT ![t] = r]
    <3>1. CASE \E view \in rq[t].views : Become(t, NextRenamed(t, view))
      BY <2>2, <3>1, Becomes DEF DeleteLabels, InsertLabels
    <3>2. CASE \E pg \in rq[t].todo : RenameTagQueried(t, pg)
      BY <2>3, <3>2, Becomes, Returns DEF RenameTagQueried, DeleteLabels, InsertLabels
    <3>3. CASE Goto(t, "tag:done")
      BY <3>3, Goes DEF Labels, DeleteLabels, InsertLabels
    <3> QED
      BY <1>8, <3>1, <3>2, <3>3 DEF RenameTagNext
  <2> QED
    BY <2>1, <2>4, StepsAside
<1>9. CASE RenameTagUnindex(t)
  <2>1. UNCHANGED <<contents, nextRow>>
    BY <1>9 DEF RenameTagUnindex, tables
  <2>2. \A view, views :
          LET next == [rq[t] EXCEPT !.pc = "upd:page", !.model = view, !.views = views]
          IN next.rows = rq[t].rows /\ next.pc = "upd:page"
    BY <1>r DEF Request
  <2>3. \E r : Follows(t, r) /\ rq' = [rq EXCEPT ![t] = r]
    BY <1>9, <2>2, Returns, Becomes DEF RenameTagUnindex, DeleteLabels, InsertLabels
  <2> QED
    BY <2>1, <2>3, StepsAside
<1>10. CASE RenameTagUncache(t)
  <2>1. UNCHANGED <<contents, nextRow>>
    BY <1>10 DEF RenameTagUncache, tables
  <2>2. \E r : Follows(t, r) /\ rq' = [rq EXCEPT ![t] = r]
    BY <1>10, Returns, Goes DEF RenameTagUncache, Labels, DeleteLabels, InsertLabels
  <2> QED
    BY <2>1, <2>2, StepsAside
<1>11. CASE DeletePageLatest(t)
  BY <1>11 DEF DeletePageLatest, At, HistoryInv, NothingIsDeleted, DeleteLabels
<1>12. CASE DeletePageUnindex(t)
  BY <1>12 DEF DeletePageUnindex, At, HistoryInv, NothingIsDeleted, DeleteLabels
<1>13. CASE DeletePageChildren(t)
  BY <1>13 DEF DeletePageChildren, At, HistoryInv, NothingIsDeleted, DeleteLabels
<1>14. CASE DeletePageContents(t)
  BY <1>14 DEF DeletePageContents, At, HistoryInv, NothingIsDeleted, DeleteLabels
<1>15. CASE DeletePageRow(t)
  BY <1>15 DEF DeletePageRow, At, HistoryInv, NothingIsDeleted, DeleteLabels
<1>16. CASE DeletePageClearLists(t)
  <2>1. UNCHANGED <<contents, nextRow>>
    BY <1>16 DEF DeletePageClearLists, tables
  <2>2. \E r : Follows(t, r) /\ rq' = [rq EXCEPT ![t] = r]
    BY <1>16, Returns, Goes DEF DeletePageClearLists, Labels, DeleteLabels, InsertLabels
  <2> QED
    BY <2>1, <2>2, StepsAside
<1>17. CASE DeletePageClearPages(t)
  <2>1. UNCHANGED <<contents, nextRow>>
    BY <1>17 DEF DeletePageClearPages, tables
  <2>2. \E r : Follows(t, r) /\ rq' = [rq EXCEPT ![t] = r]
    BY <1>17, Returns, Goes DEF DeletePageClearPages, Labels, DeleteLabels, InsertLabels
  <2> QED
    BY <2>1, <2>2, StepsAside
<1>18. CASE ClearPagesContents(t)
  BY <1>18 DEF ClearPagesContents, At, HistoryInv, NothingIsDeleted, DeleteLabels
<1>19. CASE ClearPagesLists(t)
  <2>1. UNCHANGED <<contents, nextRow>>
    BY <1>19 DEF ClearPagesLists, tables
  <2>2. \E r : Follows(t, r) /\ rq' = [rq EXCEPT ![t] = r]
    BY <1>19, Returns, Goes DEF ClearPagesLists, Labels, DeleteLabels, InsertLabels
  <2> QED
    BY <2>1, <2>2, StepsAside
<1>20. CASE ClearPagesPages(t)
  <2>1. UNCHANGED <<contents, nextRow>>
    BY <1>20 DEF ClearPagesPages, tables
  <2>2. \E r : Follows(t, r) /\ rq' = [rq EXCEPT ![t] = r]
    BY <1>20, Returns, Goes DEF ClearPagesPages, Labels, DeleteLabels, InsertLabels
  <2> QED
    BY <2>1, <2>2, StepsAside
<1>21. CASE ClearCacheLists(t)
  <2>1. UNCHANGED <<contents, nextRow>>
    BY <1>21 DEF ClearCacheLists, tables
  <2>2. \E r : Follows(t, r) /\ rq' = [rq EXCEPT ![t] = r]
    BY <1>21, Returns, Goes DEF ClearCacheLists, Labels, DeleteLabels, InsertLabels
  <2> QED
    BY <2>1, <2>2, StepsAside
<1>22. CASE CreateIndexContent(t)
  <2>1. UNCHANGED <<contents, nextRow>>
    BY <1>22 DEF CreateIndexContent, tables
  <2>2. \E r : Follows(t, r) /\ rq' = [rq EXCEPT ![t] = r]
    <3>1. \A pg, c :
            LET next == [rq[t] EXCEPT !.todo = @ \ {pg}, !.views = @ \cup {ViewOf(pg, c)}]
            IN next.rows = rq[t].rows /\ next.pc = rq[t].pc
      BY <1>r DEF Request
    <3>2. rq[t].pc = "idx:contents"
      BY <1>22 DEF CreateIndexContent, At
    <3> QED
      BY <1>22, <3>1, <3>2, Returns, Goes, Becomes DEF CreateIndexContent, Labels, DeleteLabels,
         InsertLabels
  <2> QED
    BY <2>1, <2>2, StepsAside
<1>23. CASE CreateIndexClose(t)
  <2>1. UNCHANGED <<contents, nextRow>>
    BY <1>23 DEF CreateIndexClose, tables
  <2>2. \E r : Follows(t, r) /\ rq' = [rq EXCEPT ![t] = r]
    BY <1>23, Returns, Goes DEF CreateIndexClose, Labels, DeleteLabels, InsertLabels
  <2> QED
    BY <2>1, <2>2, StepsAside
<1>24. CASE RevertTakeTime(t)
  <2>1. UNCHANGED <<contents, nextRow>>
    BY <1>24 DEF RevertTakeTime, rows
  <2>2. PICK on : Become(t, [rq[t] EXCEPT !.pc = "rev:insert", !.on = on])
    BY <1>24 DEF RevertTakeTime
  <2>3. PICK next : next = [rq[t] EXCEPT !.pc = "rev:insert", !.on = on]
    OBVIOUS
  <2>4. /\ next.rows = rq[t].rows /\ next.pc = "rev:insert" /\ next.ver = rq[t].ver
        /\ next.id = rq[t].id
    BY <1>r, <2>3 DEF Request
  <2>5. rq[t].ver > 1 /\ HasVersion(contents, rq[t].id, rq[t].ver - 1)
    BY <1>24 DEF RevertTakeTime, At, HistoryInv, NumbersFollow, InsertLabels
  <2>6. Follows(t, next)
    BY <2>4, <2>5 DEF Follows, DeleteLabels
  <2> QED
    BY <2>1, <2>2, <2>3, <2>6, StepsAside DEF Become
<1>25. CASE DatabaseFails(t)
  BY <1>25, Returns, StepsAside DEF DatabaseFails, tables
<1> QED
  BY <1>1, <1>2, <1>3, <1>4, <1>5, <1>6, <1>7, <1>8, <1>9, <1>10, <1>11, <1>12, <1>13, <1>14,
     <1>15, <1>16, <1>17, <1>18, <1>19, <1>20, <1>21, <1>22, <1>23,
     <1>24, <1>25 DEF WriteOn, WriteStep

-----------------------------------------------------------------------------
(* The first step of a request. *)

LEMMA Begins ==
    ASSUME NEW t \in Threads, NEW r, Begin(t, r), r.rows = {},
           r.pc \notin DeleteLabels \cup InsertLabels
    PROVE  \E s : Follows(t, s) /\ rq' = [rq EXCEPT ![t] = s]
BY DEF Begin, Become, Follows

LEMMA ArriveKeeps ==
    ASSUME HistoryInv, KeepsPages, NEW t \in Threads, Arrives(t)
    PROVE  KeepsHistory(t)
<1>i. Idle \in Request /\ Idle.rows = {}
  BY BlankTypes DEF Idle
<1>1. CASE GetByIdMiss(t)
  <2>1. UNCHANGED <<contents, nextRow>>
    BY <1>1 DEF GetByIdMiss, tables
  <2>2. \E r : Follows(t, r) /\ rq' = [rq EXCEPT ![t] = r]
    BY <1>1, <1>i, Begins DEF GetByIdMiss, Request, DeleteLabels, InsertLabels
  <2> QED
    BY <2>1, <2>2, StepsAside
<1>2. CASE HomePageMiss(t)
  <2>1. UNCHANGED <<contents, nextRow>>
    BY <1>2 DEF HomePageMiss, tables
  <2>2. \E r : Follows(t, r) /\ rq' = [rq EXCEPT ![t] = r]
    BY <1>2, <1>i, Begins DEF HomePageMiss, Request, DeleteLabels, InsertLabels
  <2> QED
    BY <2>1, <2>2, StepsAside
<1>3. CASE ListMiss(t)
  <2>1. UNCHANGED <<contents, nextRow>>
    BY <1>3 DEF ListMiss, tables
  <2>2. \E r : Follows(t, r) /\ rq' = [rq EXCEPT ![t] = r]
    BY <1>3, <1>i, Begins DEF ListMiss, Request, DeleteLabels, InsertLabels
  <2> QED
    BY <2>1, <2>2, StepsAside
<1>4. CASE CompareMiss(t)
  <2>1. UNCHANGED <<contents, nextRow>>
    BY <1>4 DEF CompareMiss, tables
  <2>2. \E r : Follows(t, r) /\ rq' = [rq EXCEPT ![t] = r]
    BY <1>4, <1>i, Begins DEF CompareMiss, Request, DeleteLabels, InsertLabels
  <2> QED
    BY <2>1, <2>2, StepsAside
<1>5. CASE AddPageRow(t)
  <2>1. UNCHANGED <<contents, nextRow>>
    BY <1>5 DEF AddPageRow, InsertNewPage, InsertPage
  <2>2. \E r : Follows(t, r) /\ rq' = [rq EXCEPT ![t] = r]
    <3>1. PICK page, text, on : InsertNewPage(t, page, text, on)
      BY <1>5 DEF AddPageRow
    <3> QED
      BY <1>i, <3>1, Begins DEF InsertNewPage, Request, DeleteLabels, InsertLabels
  <2> QED
    BY <2>1, <2>2, StepsAside
<1>6. CASE UpdateForm(t)
  <2>1. UNCHANGED <<contents, nextRow>>
    BY <1>6 DEF UpdateForm, tables
  <2>2. \E r : Follows(t, r) /\ rq' = [rq EXCEPT ![t] = r]
    BY <1>6, <1>i, Begins DEF UpdateForm, Request, DeleteLabels, InsertLabels
  <2> QED
    BY <2>1, <2>2, StepsAside
<1>7. CASE RevertVersion(t)
  <2>1. UNCHANGED <<contents, nextRow>>
    BY <1>7 DEF RevertVersion, tables
  <2>2. \E r : Follows(t, r) /\ rq' = [rq EXCEPT ![t] = r]
    BY <1>7, <1>i, Begins DEF RevertVersion, Request, DeleteLabels, InsertLabels
  <2> QED
    BY <2>1, <2>2, StepsAside
<1>8. CASE RenameTagFind(t)
  <2>1. UNCHANGED <<contents, nextRow>>
    BY <1>8 DEF RenameTagFind, tables
  <2>2. \E r : Follows(t, r) /\ rq' = [rq EXCEPT ![t] = r]
    BY <1>8, <1>i, Begins DEF RenameTagFind, Request, DeleteLabels, InsertLabels
  <2> QED
    BY <2>1, <2>2, StepsAside
<1>9. CASE DeletePageLoad(t)
  BY <1>9, <1>i DEF DeletePageLoad, Begin, KeepsPages, Never
<1>10. CASE ClearPagesRows(t)
  BY <1>10, <1>i DEF ClearPagesRows, Begin, KeepsPages, Never
<1>11. CASE ClearCachePages(t)
  <2>1. UNCHANGED <<contents, nextRow>>
    BY <1>11 DEF ClearCachePages, tables
  <2>2. \E r : Follows(t, r) /\ rq' = [rq EXCEPT ![t] = r]
    BY <1>11, <1>i, Begins DEF ClearCachePages, Request, DeleteLabels, InsertLabels
  <2> QED
    BY <2>1, <2>2, StepsAside
<1>12. CASE CreateIndexPages(t)
  <2>1. UNCHANGED <<contents, nextRow>>
    BY <1>12 DEF CreateIndexPages, tables
  <2>2. \E r : Follows(t, r) /\ rq' = [rq EXCEPT ![t] = r]
    BY <1>12, <1>i, Begins DEF CreateIndexPages, Request, DeleteLabels, InsertLabels
  <2> QED
    BY <2>1, <2>2, StepsAside
<1> QED
  BY <1>1, <1>2, <1>3, <1>4, <1>5, <1>6, <1>7, <1>8, <1>9, <1>10, <1>11, <1>12 DEF Arrives, Arrive

-----------------------------------------------------------------------------
(* The theorems. *)

LEMMA InitHistory == Init => HistoryInv
<1> SUFFICES ASSUME Init PROVE HistoryInv
  OBVIOUS
<1>1. TypeOK
  BY InitTypes
<1>2. /\ nextRow = Len(Seed) + 1
      /\ contents = {[id |-> i, pageId |-> i, version |-> 1,
                      text |-> Seed[i].text, editedOn |-> 0] : i \in DOMAIN Seed}
  BY DEF Init, TablesInit
<1>3. \A c \in contents : \E i \in 1..Len(Seed) :
        c = [id |-> i, pageId |-> i, version |-> 1, text |-> Seed[i].text, editedOn |-> 0]
  BY <1>2, RepositoryAssumption
<1>4. \A c \in contents : c.id \in 1..Len(Seed) /\ c.version = 1
  BY <1>3
<1>5. RowsAreNumbered
  <2>1. Len(Seed) \in Nat
    BY RepositoryAssumption
  <2>2. \A c, d \in contents : c.id = d.id => c = d
    BY <1>3
  <2> QED
    BY <1>2, <1>4, <2>1, <2>2 DEF RowsAreNumbered
<1>6. NoGaps
  BY <1>4 DEF NoGaps
<1>7. \A t \in Threads : rq[t].pc = "idle" /\ rq[t].rows = {}
  BY DEF Init, Idle
<1>8. NothingIsDeleted /\ SnapshotsAgree /\ NumbersFollow
  BY <1>7 DEF NothingIsDeleted, SnapshotsAgree, NumbersFollow, DeleteLabels, InsertLabels
<1> QED
  BY <1>1, <1>5, <1>6, <1>8 DEF HistoryInv

LEMMA NextHistory ==
    ASSUME HistoryInv, KeepsPages, [Next]_vars
    PROVE  HistoryInv' /\ RowsAreKept
<1>1. TypeOK'
  BY NextTypes DEF HistoryInv
<1>2. ASSUME NEW t \in Threads, Arrives(t) \/ GoOn(t)
      PROVE  HistoryInv' /\ RowsAreKept
  <2>1. KeepsHistory(t)
    BY <1>2, ArriveKeeps, ReadOnKeeps, UpdateOnKeeps, WriteOnKeeps DEF GoOn
  <2>2. NothingIsDeleted' /\ SnapshotsAgree' /\ NumbersFollow'
    BY <2>1, RequestMoved DEF KeepsHistory
  <2> QED
    BY <1>1, <2>1, <2>2 DEF HistoryInv, KeepsHistory
<1>3. CASE Recycle
  <2>1. RowsAreKept /\ RowsAreNumbered' /\ NoGaps'
    BY <1>3, RowsUnchanged DEF HistoryInv, Recycle, tables
  <2>2. \A t \in Threads : rq'[t].pc = "idle" /\ rq'[t].rows = {}
    BY <1>3 DEF Recycle, Idle
  <2>3. NothingIsDeleted' /\ SnapshotsAgree' /\ NumbersFollow'
    BY <2>2 DEF NothingIsDeleted, SnapshotsAgree, NumbersFollow, DeleteLabels, InsertLabels
  <2> QED
    BY <1>1, <2>1, <2>3 DEF HistoryInv
<1>4. CASE UNCHANGED site
  <2>1. RowsAreKept /\ RowsAreNumbered' /\ NoGaps'
    BY <1>4, RowsUnchanged DEF HistoryInv, site, tables
  <2>2. NothingIsDeleted' /\ SnapshotsAgree' /\ NumbersFollow'
    BY <1>4 DEF HistoryInv, NothingIsDeleted, SnapshotsAgree, NumbersFollow, site, tables
  <2> QED
    BY <1>1, <2>1, <2>2 DEF HistoryInv
<1> QED
  BY <1>2, <1>3, <1>4, SiteSteps

(* The strengthened invariant, of a site where nobody deletes or clears    *)
(* pages.                                                                  *)
THEOREM HistoryInvariant == Spec => [](KeepsPages => HistoryInv)
<1>1. Init => (KeepsPages => HistoryInv)
  BY InitHistory
<1>2. (KeepsPages => HistoryInv) /\ [Next]_vars => (KeepsPages => HistoryInv)'
  BY NextHistory DEF KeepsPages, Never
<1> QED
  BY <1>1, <1>2, PTL DEF Spec

(* However many requests save, revert and rename pages at once, and        *)
(* whatever order the clock puts their versions in, the version before     *)
(* each but the first is there for CompareVersions to find.                *)
THEOREM HistoryCorrect == Spec => []HistoryHasNoGaps
<1>1. TypeOK /\ (KeepsPages => HistoryInv) => HistoryHasNoGaps
  <2> SUFFICES ASSUME TypeOK, KeepsPages, HistoryInv
               PROVE  HistoryHasNoGaps
    BY DEF KeepsPages, HistoryHasNoGaps
  <2>1. \A c \in contents : c.version >= 1
    BY DEF TypeOK, TablesTypeOK, PageContent
  <2> QED
    BY <2>1 DEF HistoryInv, NoGaps, HasVersion, HistoryHasNoGaps
<1> QED
  BY <1>1, TypeCorrect, HistoryInvariant, PTL

(* No step of any of them loses or rewords a version.                      *)
THEOREM HistoryKept == Spec => HistoryIsKept
<1>1. (KeepsPages => HistoryInv) /\ [Next]_vars =>
        [Never({"delete", "clear"}) =>
           \A c \in contents : \E d \in contents' : SameVersion(c, d)]_vars
  BY NextHistory DEF KeepsPages, RowsAreKept
<1> QED
  BY <1>1, HistoryInvariant, PTL DEF Spec, HistoryIsKept

=============================================================================
