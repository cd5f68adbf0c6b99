----------------------------- MODULE PageReads ------------------------------
(***************************************************************************)
(* The calls of PageService and PageHistoryService that only read the      *)
(* tables: each looks in the cache, reads what it misses from the          *)
(* database, and caches the answer.                                        *)
(***************************************************************************)
EXTENDS PageRequests

-----------------------------------------------------------------------------
(* GetById, after a cache miss. *)

GetByIdMiss(t) ==
    /\ \E p \in PageIds :
         /\ CachedPage(p, LATEST_VERSION_NUMBER) = {}
         /\ Begin(t, [Idle EXCEPT !.op = "get", !.pc = "get:page", !.id = p])
    /\ UNCHANGED <<tables, caches, index>>

GetByIdPage(t) ==
    /\ At(t, "get:page")
    /\ \/ GetPageById(rq[t].id) = {} /\ Return(t)
       \/ \E pg \in GetPageById(rq[t].id) :
            Become(t, [rq[t] EXCEPT !.pc = "get:content", !.page = pg])
    /\ UNCHANGED <<tables, caches, index, started>>

(* PageViewModel's constructor throws when there is no content. *)
GetByIdContent(t) ==
    /\ At(t, "get:content")
    /\ \/ GetLatestPageContent(rq[t].id) = {} /\ Throw(t)
       \/ \E c \in GetLatestPageContent(rq[t].id) :
            Become(t, [rq[t] EXCEPT !.pc = "get:cache",
                                    !.view = ViewOf(rq[t].page, c)])
    /\ UNCHANGED <<tables, caches, index, started>>

GetByIdCache(t) ==
    /\ At(t, "get:cache")
    /\ CachePage(rq[t].id, LATEST_VERSION_NUMBER, rq[t].view)
    /\ Return(t)
    /\ UNCHANGED <<tables, index, started>>

-----------------------------------------------------------------------------
(* FindHomePage, after a cache miss: a locked page first, then any. *)

LockedHomePages == {pg \in FindPagesContainingTag(HomepageTag) : pg.locked}

HomePageMiss(t) ==
    /\ homeCache = {}
    /\ \/ /\ LockedHomePages = {}
          /\ Begin(t, [Idle EXCEPT !.op = "home", !.pc = "home:any"])
       \/ \E pg \in LockedHomePages :
            Begin(t, [Idle EXCEPT !.op = "home", !.pc = "home:content",
                                  !.id = pg.id, !.page = pg])
    /\ UNCHANGED <<tables, caches, index>>

HomePageAny(t) ==
    /\ At(t, "home:any")
    /\ \/ FindPagesContainingTag(HomepageTag) = {} /\ Return(t)
       \/ \E pg \in FindPagesContainingTag(HomepageTag) :
            Become(t, [rq[t] EXCEPT !.pc = "home:content", !.id = pg.id,
                                    !.page = pg])
    /\ UNCHANGED <<tables, caches, index, started>>

HomePageContent(t) ==
    /\ At(t, "home:content")
    /\ \/ GetLatestPageContent(rq[t].id) = {} /\ Throw(t)
       \/ \E c \in GetLatestPageContent(rq[t].id) :
            Become(t, [rq[t] EXCEPT !.pc = "home:cache",
                                    !.view = ViewOf(rq[t].page, c)])
    /\ UNCHANGED <<tables, caches, index, started>>

HomePageCache(t) ==
    /\ At(t, "home:cache")
    /\ CacheHomePage(rq[t].view)
    /\ Return(t)
    /\ UNCHANGED <<tables, index, started>>

-----------------------------------------------------------------------------
(* The lists: AllPages, AllPagesCreatedBy, AllTags and FindByTag.          *)

NoArgument == "none"

(* The key each method looks its list up with.  AllPages takes its key     *)
(* from CacheKeys, where it already carries the prefix.                    *)
ListKeys ==
    {[list |-> "allpages", arg |-> NoArgument, prefixes |-> 1],
     [list |-> "allpages.with.content", arg |-> NoArgument, prefixes |-> 1],
     [list |-> "alltags", arg |-> NoArgument, prefixes |-> 0]}
    \cup {[list |-> "createdby", arg |-> u, prefixes |-> 0] : u \in Users}
    \cup {[list |-> "pagesbytag", arg |-> tag, prefixes |-> 0] : tag \in Tags}

(* The lists whose items carry the latest content of each page. *)
WithContent(key) ==
    key.list \in {"createdby", "pagesbytag", "allpages.with.content"}

ListedPages(key) ==
    CASE key.list = "createdby"  -> FindPagesCreatedBy(key.arg)
      [] key.list = "pagesbytag" -> FindPagesContainingTag(key.arg)
      [] OTHER                   -> pages

(* An item of a list that is built from the page alone. *)
PageOnly(pg) == [BlankView EXCEPT !.page = pg]

ListMiss(t) ==
    /\ \E key \in ListKeys :
         /\ key.list \in Lists
         /\ CachedList(key) = {}
         /\ Begin(t, [Idle EXCEPT !.op = "list", !.pc = "list:pages",
                                  !.key = key])
    /\ UNCHANGED <<tables, caches, index>>

ListPages(t) ==
    /\ At(t, "list:pages")
    /\ IF WithContent(rq[t].key)
       THEN Become(t, [rq[t] EXCEPT !.pc = "list:contents",
                                    !.todo = ListedPages(rq[t].key)])
       ELSE Become(t, [rq[t] EXCEPT !.pc = "list:cache",
                                    !.views = {PageOnly(pg) : pg \in pages}])
    /\ UNCHANGED <<tables, caches, index, started>>

ListContent(t) ==
    /\ At(t, "list:contents")
    /\ \/ rq[t].todo = {} /\ Goto(t, "list:cache")
       \/ \E pg \in rq[t].todo :
            \/ GetLatestPageContent(pg.id) = {} /\ Throw(t)
            \/ \E c \in GetLatestPageContent(pg.id) :
                 Become(t, [rq[t] EXCEPT !.todo = @ \ {pg},
                                         !.views = @ \cup {ViewOf(pg, c)}])
    /\ UNCHANGED <<tables, caches, index, started>>

(* FindByTag returns the deferred query, not the list it has cached: its   *)
(* caller RenameTag reads the content of each page once more.              *)
ListCacheAdd(t) ==
    /\ At(t, "list:cache")
    /\ CacheList(rq[t].key, rq[t].views)
    /\ IF rq[t].op = "renametag"
       THEN Become(t, [rq[t] EXCEPT !.pc = "tag:next", !.views = {},
                                    !.todo = {v.page : v \in rq[t].views}])
       ELSE Return(t)
    /\ UNCHANGED <<tables, index, started>>

-----------------------------------------------------------------------------
(* CompareVersions, of a version above 1 whose predecessor is not cached.  *)

CompareMiss(t) ==
    /\ \E c \in contents : \E pg \in GetPageById(c.pageId) :
         /\ c.version # 1
         /\ CachedPage(c.pageId, c.version - 1) = {}
         /\ Begin(t, [Idle EXCEPT !.op = "compare", !.pc = "cmp:previous",
                                  !.id = c.pageId, !.page = pg,
                                  !.ver = c.version - 1])
    /\ UNCHANGED <<tables, caches, index>>

ComparePrevious(t) ==
    /\ At(t, "cmp:previous")
    /\ LET found == GetPageContentByPageIdAndVersionNumber(rq[t].id, rq[t].ver)
       IN \/ found = {} /\ Return(t)
          \/ \E c \in found :
               Become(t, [rq[t] EXCEPT !.pc = "cmp:cache",
                                       !.view = ViewOf(rq[t].page, c)])
    /\ UNCHANGED <<tables, caches, index, started>>

CompareCache(t) ==
    /\ At(t, "cmp:cache")
    /\ CachePage(rq[t].id, rq[t].ver, rq[t].view)
    /\ Return(t)
    /\ UNCHANGED <<tables, index, started>>

=============================================================================
