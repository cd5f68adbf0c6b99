----------------------------- MODULE PageWrites -----------------------------
(***************************************************************************)
(* The calls of PageService, PageHistoryService, SearchService and         *)
(* ToolsController that change the tables or the search index.             *)
(***************************************************************************)
EXTENDS PageReads

-----------------------------------------------------------------------------
(* AddPage.  The two inserts of AddNewPage are two transactions; the time  *)
(* is taken before the first.  (No other request can tell a time between   *)
(* the two apart: the times of a page's other versions are all later.)     *)

InsertNewPage(t, page, text, on) ==
    /\ Begin(t, [Idle EXCEPT !.op = "add", !.pc = "add:content", !.on = on,
                             !.id = nextPage, !.page = page,
                             !.model = [page |-> page, text |-> text,
                                        version |-> 1]])
    /\ TakeTime(on)
    /\ InsertPage(page)

(* Only an administrator can lock the new page. *)
AddPageRow(t) ==
    /\ nextPage <= MaxPages
    /\ \E title \in Titles, tags \in NewTags, user \in Users, text \in TypedTexts,
          locked \in {FALSE} \cup Admins, on \in UtcNow :
         InsertNewPage(t, [id |-> nextPage, title |-> title, tags |-> tags,
                           locked |-> locked, createdBy |-> user], text, on)
    /\ UNCHANGED <<caches, index>>

AddPageContent(t) ==
    /\ At(t, "add:content")
    /\ IF MayReference(rq[t].id)
       THEN /\ InsertContent(rq[t].id, 1, rq[t].model.text, rq[t].on)
            /\ Goto(t, "add:lists")
       ELSE Throw(t) /\ UNCHANGED tables
    /\ UNCHANGED <<caches, index, started>>

AddPageClearLists(t) ==
    /\ At(t, "add:lists")
    /\ UncacheAllLists
    /\ Goto(t, "add:pages")
    /\ UNCHANGED <<tables, index, started>>

AddPageClearPages(t) ==
    /\ At(t, "add:pages")
    /\ UncacheAllPages
    /\ Goto(t, "add:index")
    /\ UNCHANGED <<tables, index, started>>

(* A SearchException is swallowed. *)
AddPageIndex(t) ==
    /\ At(t, "add:index")
    /\ \/ IndexAdd(rq[t].model)
       \/ IndexFails
    /\ Return(t)
    /\ UNCHANGED <<tables, caches, started>>

-----------------------------------------------------------------------------
(* RevertTo, called by PagesController.Revert for a page it may revert.    *)

RevertVersion(t) ==
    /\ \E c \in contents, admin \in Admins : \E pg \in GetPageById(c.pageId) :
         /\ \E view \in AnswerViews(c.pageId) : view.page.locked => admin
         /\ Begin(t, [Idle EXCEPT !.op = "revert", !.pc = "rev:max",
                                  !.id = c.pageId, !.page = pg,
                                  !.view = ViewOf(pg, c)])
    /\ UNCHANGED <<tables, caches, index>>

(* A slip: the new version follows the one that is restored. *)
RevertAfterOldVersion(t) ==
    /\ At(t, "rev:max")
    /\ Become(t, [rq[t] EXCEPT !.pc = "rev:time", !.ver = rq[t].view.version + 1])
    /\ UNCHANGED <<tables, caches, index, started>>

(* MaxVersion is the version of the latest content. *)
RevertMaxVersion(t) ==
    /\ At(t, "rev:max")
    /\ \/ GetLatestPageContent(rq[t].id) = {} /\ Throw(t)
       \/ \E c \in GetLatestPageContent(rq[t].id) :
            Become(t, [rq[t] EXCEPT !.pc = "rev:time", !.ver = c.version + 1])
    /\ UNCHANGED <<tables, caches, index, started>>

RevertTakeTime(t) ==
    /\ At(t, "rev:time")
    /\ \E on \in UtcNow :
         /\ TakeTime(on)
         /\ Become(t, [rq[t] EXCEPT !.pc = "rev:insert", !.on = on])
    /\ UNCHANGED <<rows, caches, index, started>>

(* The version is saved before the audit columns of the page, which the    *)
(* database may refuse.                                                    *)
RevertInsert(t) ==
    /\ At(t, "rev:insert")
    /\ IF MayReference(rq[t].id)
       THEN /\ AddNewPageContentVersion(rq[t].id, rq[t].ver, rq[t].view.text,
                                        rq[t].on)
            /\ Goto(t, "rev:cache") \/ (DatabaseMayFail /\ Throw(t))
       ELSE Throw(t) /\ UNCHANGED tables
    /\ UNCHANGED <<caches, index, started>>

(* Only this entry goes: not the home page's, not the lists. *)
RevertCache(t) ==
    /\ At(t, "rev:cache")
    /\ UncachePage(rq[t].id, LATEST_VERSION_NUMBER)
    /\ Return(t)
    /\ UNCHANGED <<tables, index, started>>

-----------------------------------------------------------------------------
(* UpdatePage: the row, then three caches, then the new version, then the  *)
(* links to the page, then the index.  RenameTag runs the same steps.      *)

(* GET /pages/edit: the form of a page, of a locked one for administrators *)
(* only, in place of what the browser showed.                              *)
OpenForm(view) ==
    /\ \E editor \in Editors, admin \in Admins :
         /\ view.page.locked => admin
         /\ forms' = {f \in forms : f.editor # editor} \cup
                      {[editor |-> editor, view |-> view, admin |-> admin]}
    /\ UNCHANGED outdated

OpenCachedForm ==
    /\ \E e \in pageCache : e.version = LATEST_VERSION_NUMBER /\ OpenForm(e.view)
    /\ UNCHANGED site

(* After a miss the form is the answer of GetById. *)
OpenLoadedForm(t) == GetByIdCache(t) /\ OpenForm(rq[t].view)

(* What a user may make of the form: only an administrator has the lock in *)
(* it.                                                                     *)
Edited(form, admin) ==
    [page : [id : {form.page.id}, createdBy : {form.page.createdBy},
             title : Titles, tags : NewTags \cup {form.page.tags},
             locked : IF admin THEN BOOLEAN ELSE {form.page.locked}],
     text : TypedTexts \cup {form.text}, version : {form.version}]

(* The page and those its text links to have the titles the form knows.    *)
UpToDate(view) ==
    /\ \E pg \in GetPageById(view.page.id) : pg.title = view.page.title
    /\ view.text.links \subseteq {pg.title : pg \in pages}

(* POST /pages/edit: the user posts a form, which shows the page as it was *)
(* when it was opened.  It stays in the browser's history, and may be      *)
(* posted again.                                                           *)
UpdateForm(t) ==
    /\ \E form \in forms : \E model \in Edited(form.view, form.admin) :
         /\ Begin(t, [Idle EXCEPT
              !.op = "update", !.pc = "upd:page", !.id = form.view.page.id,
              !.admin = form.admin, !.prev = form.view.page.title,
              !.model = model])
         /\ outdated' = (outdated \/ ~UpToDate(form.view))
    /\ UNCHANGED <<tables, caches, index, forms>>

(* The posted title and tags go into the page just read; the lock only if  *)
(* the user is an administrator.                                           *)
UpdatePageLoad(t) ==
    /\ At(t, "upd:page")
    /\ \/ GetPageById(rq[t].id) = {} /\ Throw(t)
       \/ \E pg \in GetPageById(rq[t].id) :
            Become(t, [rq[t] EXCEPT
              !.pc = "upd:save",
              !.page = [rq[t].model.page EXCEPT
                          !.id = pg.id, !.createdBy = pg.createdBy,
                          !.locked = IF rq[t].admin THEN @ ELSE pg.locked]])
    /\ UNCHANGED <<tables, caches, index, started>>

UpdatePageSave(t) ==
    /\ At(t, "upd:save")
    /\ SaveOrUpdatePage(rq[t].page)
    /\ Goto(t, "upd:cache")
    /\ UNCHANGED <<caches, index, started>>

HasHomepageTag(pg) == \E i \in DOMAIN pg.tags : pg.tags[i] = HomepageTag

UpdatePageUncache(t) ==
    /\ At(t, "upd:cache")
    /\ UncachePage(rq[t].id, LATEST_VERSION_NUMBER)
    /\ Goto(t, IF HasHomepageTag(rq[t].model.page) THEN "upd:home" ELSE "upd:lists")
    /\ UNCHANGED <<tables, index, started>>

UpdatePageUncacheHome(t) ==
    /\ At(t, "upd:home")
    /\ UncacheHomePage
    /\ Goto(t, "upd:lists")
    /\ UNCHANGED <<tables, index, started>>

UpdatePageUncacheLists(t) ==
    /\ At(t, "upd:lists")
    /\ UncacheAllLists
    /\ Goto(t, "upd:max")
    /\ UNCHANGED <<tables, index, started>>

UpdatePageMaxVersion(t) ==
    /\ At(t, "upd:max")
    /\ \/ GetLatestPageContent(rq[t].id) = {} /\ Throw(t)
       \/ \E c \in GetLatestPageContent(rq[t].id) :
            Become(t, [rq[t] EXCEPT !.pc = "upd:time", !.ver = c.version + 1])
    /\ UNCHANGED <<tables, caches, index, started>>

UpdatePageTakeTime(t) ==
    /\ At(t, "upd:time")
    /\ \E on \in UtcNow :
         /\ TakeTime(on)
         /\ Become(t, [rq[t] EXCEPT !.pc = "upd:insert", !.on = on])
    /\ UNCHANGED <<rows, caches, index, started>>

UpdatePageInsert(t) ==
    /\ At(t, "upd:insert")
    /\ IF MayReference(rq[t].id)
       THEN /\ AddNewPageContentVersion(rq[t].id, rq[t].ver, rq[t].model.text,
                                        rq[t].on)
            /\ \/ Goto(t, IF rq[t].prev = rq[t].model.page.title
                          THEN "upd:latest" ELSE "upd:links")
               \/ DatabaseMayFail /\ Throw(t)
       ELSE Throw(t) /\ UNCHANGED tables
    /\ UNCHANGED <<caches, index, started>>

(* A slip: only the latest version of each page is looked at. *)
UpdateLatestLinksRead(t) ==
    /\ At(t, "upd:links")
    /\ LET linking == {c \in contents : /\ rq[t].prev \in c.text.links
                                        /\ c \in GetLatestPageContent(c.pageId)}
       IN Become(t, [rq[t] EXCEPT
            !.rows = linking,
            !.pc = IF linking = {} THEN "upd:latest" ELSE "upd:rewrite"])
    /\ UNCHANGED <<tables, caches, index, started>>

(* UpdateLinksToPage reads every version of every page at once, and then   *)
(* writes those that link to the old title back, one at a time.            *)
UpdateLinksRead(t) ==
    /\ At(t, "upd:links")
    /\ LET linking == {c \in contents : rq[t].prev \in c.text.links}
       IN Become(t, [rq[t] EXCEPT
            !.rows = linking,
            !.pc = IF linking = {} THEN "upd:latest" ELSE "upd:rewrite"])
    /\ UNCHANGED <<tables, caches, index, started>>

ReplacePageLinks(text, oldTitle, newTitle) ==
    [text EXCEPT !.links = (@ \ {oldTitle}) \cup {newTitle}]

UpdateLinksRewrite(t) ==
    /\ At(t, "upd:rewrite")
    /\ \/ /\ rq[t].rows = {}
          /\ Goto(t, "upd:clearpages")
          /\ UNCHANGED tables
       \/ \E c \in rq[t].rows :
            /\ UpdatePageContent([c EXCEPT !.text = ReplacePageLinks(@,
                                    rq[t].prev, rq[t].model.page.title)])
            /\ Become(t, [rq[t] EXCEPT !.rows = @ \ {c}])
    /\ UNCHANGED <<caches, index, started>>

UpdateLinksClearPages(t) ==
    /\ At(t, "upd:clearpages")
    /\ UncacheAllPages
    /\ Goto(t, "upd:clearlists")
    /\ UNCHANGED <<tables, index, started>>

UpdateLinksClearLists(t) ==
    /\ At(t, "upd:clearlists")
    /\ UncacheAllLists
    /\ Goto(t, "upd:latest")
    /\ UNCHANGED <<tables, index, started>>

(* A slip: the posted model is indexed as it is. *)
UpdatePageIndexPosted(t) ==
    /\ At(t, "upd:latest")
    /\ Become(t, [rq[t] EXCEPT !.pc = "upd:unindex", !.view = rq[t].model])
    /\ UNCHANGED <<tables, caches, index, started>>

UpdatePageReread(t) ==
    /\ At(t, "upd:latest")
    /\ \/ GetLatestPageContent(rq[t].id) = {} /\ Throw(t)
       \/ \E c \in GetLatestPageContent(rq[t].id) :
            Become(t, [rq[t] EXCEPT !.pc = "upd:unindex",
                                    !.view = ViewOf(rq[t].page, c)])
    /\ UNCHANGED <<tables, caches, index, started>>

(* SearchService.Update deletes the page's documents and adds one.  Here   *)
(* a SearchException is not caught.                                        *)
UpdatePageUnindex(t) ==
    /\ At(t, "upd:unindex")
    /\ \/ (IndexDelete(rq[t].id) \/ IndexIgnoresError) /\ Goto(t, "upd:index")
       \/ IndexThrows /\ Throw(t)
    /\ UNCHANGED <<tables, caches, started>>

UpdatePageIndex(t) ==
    /\ At(t, "upd:index")
    /\ \/ /\ IndexAdd(rq[t].view) \/ IndexIgnoresError
          /\ IF rq[t].op = "renametag" THEN Goto(t, "tag:next") ELSE Return(t)
       \/ IndexThrows /\ Throw(t)
    /\ UNCHANGED <<tables, caches, started>>

-----------------------------------------------------------------------------
(* RenameTag.  When FindByTag answers from the cache, the pages are saved  *)
(* as the cache has them; otherwise their content is read once more.       *)

TagListKey(tag) == [list |-> "pagesbytag", arg |-> tag, prefixes |-> 0]

RenameTagFind(t) ==
    /\ \E old, new \in Tags :
         LET key == TagListKey(old)
             request == [Idle EXCEPT !.op = "renametag", !.key = key,
                                     !.newTag = new, !.admin = TRUE]
         IN \/ /\ CachedList(key) = {}
               /\ Begin(t, [request EXCEPT !.pc = "list:pages"])
            \/ \E e \in CachedList(key) :
                 Begin(t, [request EXCEPT !.pc = "tag:next", !.views = e.views])
    /\ UNCHANGED <<tables, caches, index>>

(* The replacement works on the comma-separated tags: of several tags, all *)
(* but the last are followed by the comma it looks for.                    *)
RenamedTags(tags, old, new) ==
    [i \in DOMAIN tags |->
       IF tags[i] = old /\ (Len(tags) = 1 \/ i < Len(tags)) THEN new ELSE tags[i]]

(* The page the loop has come to. *)
NextRenamed(t, view) ==
    [rq[t] EXCEPT !.pc = "tag:unindex", !.id = view.page.id,
                  !.prev = view.page.title, !.model = view]

RenameTagQueried(t, pg) ==
    \/ GetLatestPageContent(pg.id) = {} /\ Throw(t)
    \/ \E c \in GetLatestPageContent(pg.id) :
         Become(t, [NextRenamed(t, ViewOf(pg, c)) EXCEPT !.todo = @ \ {pg}])

RenameTagNext(t) ==
    /\ At(t, "tag:next")
    /\ \/ \E view \in rq[t].views : Become(t, NextRenamed(t, view))
       \/ \E pg \in rq[t].todo : RenameTagQueried(t, pg)
       \/ rq[t].views = {} /\ rq[t].todo = {} /\ Goto(t, "tag:done")
    /\ UNCHANGED <<tables, caches, index, started>>

Retagged(t) ==
    [rq[t].model EXCEPT !.page.tags = RenamedTags(@, rq[t].key.arg, rq[t].newTag)]

(* A view model that came from the cache is the one the cache holds: its   *)
(* tags change there too.                                                  *)
RetagCached(t) ==
    /\ listCache' =
         {IF rq[t].model \in rq[t].views \cap e.views /\ e.key = LookupKey(rq[t].key)
          THEN [e EXCEPT !.views = (@ \ {rq[t].model}) \cup {Retagged(t)}]
          ELSE e : e \in listCache}
    /\ UNCHANGED <<pageCache, homeCache>>

(* Only when the page is out of the index do its tags change. *)
RenameTagUnindex(t) ==
    /\ At(t, "tag:unindex")
    /\ \/ /\ IndexDelete(rq[t].id) \/ IndexIgnoresError
          /\ RetagCached(t)
          /\ Become(t, [rq[t] EXCEPT !.pc = "upd:page", !.model = Retagged(t),
                                     !.views = @ \ {rq[t].model}])
       \/ IndexThrows /\ Throw(t) /\ UNCHANGED caches
    /\ UNCHANGED <<tables, started>>

(* The key comes from CacheKeys.PagesByTagKey, with its prefix. *)
RenameTagUncache(t) ==
    /\ At(t, "tag:done")
    /\ UncacheList([rq[t].key EXCEPT !.prefixes = 1])
    /\ Return(t)
    /\ UNCHANGED <<tables, index, started>>

-----------------------------------------------------------------------------
(* DeletePage.  It reads the latest content for the index first, so that a *)
(* page that has none cannot be deleted.                                   *)

DeletePageLoad(t) ==
    /\ \E pg \in pages :
         Begin(t, [Idle EXCEPT !.op = "delete", !.pc = "del:latest",
                               !.id = pg.id])
    /\ UNCHANGED <<tables, caches, index>>

DeletePageLatest(t) ==
    /\ At(t, "del:latest")
    /\ IF GetLatestPageContent(rq[t].id) = {}
       THEN Throw(t)
       ELSE Goto(t, "del:unindex")
    /\ UNCHANGED <<tables, caches, index, started>>

(* A SearchException is logged. *)
DeletePageUnindex(t) ==
    /\ At(t, "del:unindex")
    /\ \/ IndexDelete(rq[t].id)
       \/ IndexFails
    /\ Goto(t, "del:children")
    /\ UNCHANGED <<tables, caches, started>>

DeletePageChildren(t) ==
    /\ At(t, "del:children")
    /\ Become(t, [rq[t] EXCEPT !.pc = "del:contents",
                               !.rows = FindPageContentsByPageId(rq[t].id)])
    /\ UNCHANGED <<tables, caches, index, started>>

(* A slip: the loop does not advance. *)
DeletePageContentsAgain(t) ==
    /\ At(t, "del:contents")
    /\ \/ /\ rq[t].rows = {}
          /\ Goto(t, "del:row")
          /\ UNCHANGED tables
       \/ \E c \in rq[t].rows : DeletePageContent(c) /\ UNCHANGED rq
    /\ UNCHANGED <<caches, index, started>>

DeletePageContents(t) ==
    /\ At(t, "del:contents")
    /\ \/ /\ rq[t].rows = {}
          /\ Goto(t, "del:row")
          /\ UNCHANGED tables
       \/ \E c \in rq[t].rows :
            /\ DeletePageContent(c)
            /\ Become(t, [rq[t] EXCEPT !.rows = @ \ {c}])
    /\ UNCHANGED <<caches, index, started>>

DeletePageRow(t) ==
    /\ At(t, "del:row")
    /\ DeletePage(rq[t].id)
    /\ Goto(t, "del:lists")
    /\ UNCHANGED <<caches, index, started>>

DeletePageClearLists(t) ==
    /\ At(t, "del:lists")
    /\ UncacheAllLists
    /\ Goto(t, "del:pages")
    /\ UNCHANGED <<tables, index, started>>

DeletePageClearPages(t) ==
    /\ At(t, "del:pages")
    /\ UncacheAllPages
    /\ Return(t)
    /\ UNCHANGED <<tables, index, started>>

-----------------------------------------------------------------------------
(* ToolsController.ClearPages: the tables, then the two caches; the search *)
(* index keeps its documents.                                              *)

ClearPagesRows(t) ==
    /\ Begin(t, [Idle EXCEPT !.op = "clear",
                             !.pc = IF MayDeleteAllPages THEN "clr:contents"
                                    ELSE "threw"])
    /\ IF MayDeleteAllPages THEN DeleteAllPageRows ELSE UNCHANGED tables
    /\ UNCHANGED <<caches, index>>

ClearPagesContents(t) ==
    /\ At(t, "clr:contents")
    /\ DeleteAllContentRows
    /\ Goto(t, "clr:lists")
    /\ UNCHANGED <<caches, index, started>>

ClearPagesLists(t) ==
    /\ At(t, "clr:lists")
    /\ UncacheAllLists
    /\ Goto(t, "clr:pages")
    /\ UNCHANGED <<tables, index, started>>

ClearPagesPages(t) ==
    /\ At(t, "clr:pages")
    /\ UncacheAllPages
    /\ Return(t)
    /\ UNCHANGED <<tables, index, started>>

-----------------------------------------------------------------------------
(* CacheController.Clear. *)

ClearCachePages(t) ==
    /\ Begin(t, [Idle EXCEPT !.op = "clearcache", !.pc = "cache:lists"])
    /\ UncacheAllPages
    /\ UNCHANGED <<tables, index>>

ClearCacheLists(t) ==
    /\ At(t, "cache:lists")
    /\ UncacheAllLists
    /\ Return(t)
    /\ UNCHANGED <<tables, index, started>>

-----------------------------------------------------------------------------
(* SearchService.CreateIndex reads the pages, then the latest content of   *)
(* each.  Closing the writer, which an exception does too, publishes the   *)
(* documents it was given.                                                 *)

CreateIndexPages(t) ==
    /\ \/ /\ IndexOpen
          /\ Begin(t, [Idle EXCEPT !.op = "createindex", !.pc = "idx:contents",
                                   !.todo = pages])
       \/ /\ IndexFails
          /\ Begin(t, [Idle EXCEPT !.op = "createindex", !.pc = "threw"])
    /\ UNCHANGED <<tables, caches>>

CreateIndexContent(t) ==
    /\ At(t, "idx:contents")
    /\ \/ /\ rq[t].todo = {}
          /\ Goto(t, "idx:close")
          /\ UNCHANGED index
       \/ \E pg \in rq[t].todo :
            \/ /\ GetLatestPageContent(pg.id) = {} \/ DatabaseMayFail
               /\ IndexReplace(rq[t].views)
               /\ Throw(t)
            \/ \E c \in GetLatestPageContent(pg.id) :
                 /\ Become(t, [rq[t] EXCEPT !.todo = @ \ {pg},
                                            !.views = @ \cup {ViewOf(pg, c)}])
                 /\ UNCHANGED index
    /\ UNCHANGED <<tables, caches, started>>

CreateIndexClose(t) ==
    /\ At(t, "idx:close")
    /\ \/ IndexReplace(rq[t].views) /\ Return(t)
       \/ IndexAbandon /\ Throw(t)
    /\ UNCHANGED <<tables, caches, started>>

-----------------------------------------------------------------------------
(* Any call of the repository may throw DatabaseException, which ends the  *)
(* request: the services catch it only to throw it again.  What a request  *)
(* whose first call fails would do is nothing.                             *)

DatabaseLabels ==
    {"add:content", "get:page", "get:content", "home:any", "home:content",
     "list:pages", "list:contents", "cmp:previous", "rev:max", "rev:insert",
     "upd:page", "upd:save", "upd:max", "upd:insert", "upd:links",
     "upd:rewrite", "upd:latest", "tag:next", "del:latest", "del:children",
     "del:contents", "del:row", "clr:contents"}

DatabaseFails(t) ==
    /\ DatabaseMayFail
    /\ rq[t].pc \in DatabaseLabels
    /\ rq[t].pc \in {"upd:rewrite", "del:contents"} => rq[t].rows # {}
    /\ rq[t].pc \in {"list:contents", "tag:next"} => rq[t].todo # {}
    /\ Throw(t)
    /\ UNCHANGED <<tables, caches, index, started>>

=============================================================================
