---------------------------- MODULE PageProperties ----------------------------
(***************************************************************************)
(* What the page service is expected to do, stated over PageService.       *)
(*                                                                         *)
(* Some of it holds however the requests interleave; the rest holds when   *)
(* one request runs at a time and between two requests ("Serial" and       *)
(* "Quiet").                                                               *)
(***************************************************************************)
EXTENDS PageService

Never(ops) == Ops \cap ops = {}

Serial == \A s, t \in Threads : s = t

-----------------------------------------------------------------------------
(* Under any interleaving. *)

(* The history of a page has no gaps: the version before any but the first *)
(* is there, although the number is computed from a row read in one call   *)
(* and stored by another.  This is what CompareVersions counts on, which   *)
(* looks for VersionNumber - 1.                                            *)
HistoryHasNoGaps ==
    Never({"delete", "clear"}) =>
      \A c \in contents :
         /\ c.version >= 1
         /\ c.version > 1 =>
              \E d \in contents : d.pageId = c.pageId /\ d.version = c.version - 1

SameVersion(c, d) ==
    /\ d.id = c.id
    /\ d.pageId = c.pageId
    /\ d.version = c.version
    /\ d.editedOn = c.editedOn
    /\ d.text.body = c.text.body

(* No step loses or rewords a version, other than by deleting a page: of   *)
(* two editors who save the same page at once neither overwrites the       *)
(* other, and UpdateLinksToPage, which writes rows it read some time ago,  *)
(* puts back the wording those rows have.                                  *)
HistoryIsKept ==
    [][Never({"delete", "clear"}) =>
         \A c \in contents : \E d \in contents' : SameVersion(c, d)]_vars

ListedViews ==
    UNION {e.views : e \in {f \in listCache : WithContent(f.key)}}

IndexedViews ==
    UNION {{documents[p][i] : i \in DOMAIN documents[p]} : p \in PageIds}

Served == {e.view : e \in pageCache} \cup homeCache \cup ListedViews
            \cup IndexedViews

(* Whatever a cache or the search index shows, however stale, is the       *)
(* wording of a version of the very page it is shown for.                  *)
ServedTextsWereSaved ==
    Never({"delete", "clear"}) =>
      \A view \in Served :
        \E c \in contents : /\ c.pageId = view.page.id
                            /\ c.version = view.version
                            /\ c.text.body = view.text.body

(* The page service keeps the promise of VersionedPages: versions are only *)
(* added, one at a time, none dated before the one it is numbered after,   *)
(* and the caches and the index show only what has been saved, as long as  *)
(* nobody deletes pages.  The links of a version are left out, for Update- *)
(* LinksToPage rewrites them in place.                                     *)
VP == INSTANCE VersionedPages WITH
        live    <- {pg.id : pg \in pages},
        history <- {[row |-> c.id, page |-> c.pageId, version |-> c.version,
                     body |-> c.text.body, at |-> c.editedOn] : c \in contents},
        shown   <- {[page |-> view.page.id, version |-> view.version,
                     body |-> view.text.body] : view \in Served}

KeepsVersions == VP!Spec

AtWork(t, p) ==
    rq[t].id = p /\ rq[t].pc \in {"add:content", "del:contents", "del:row"}

AtWorkOn(p) == \E t \in Threads : AtWork(t, p)

(* A page that has no content and that no request is about to give one or  *)
(* to delete.  It cannot be viewed, edited or deleted, and stays for good. *)
Unattended(p) ==
    GetPageById(p) # {} /\ FindPageContentsByPageId(p) = {} /\ ~AtWorkOn(p)

(* AddPage, which saves the page before its content, and DeletePage, which *)
(* deletes the content before the page, leave such a page behind only when *)
(* they are cut short, by an exception or because the process stops.       *)
(* ClearPages, which deletes the contents of all pages after the pages,    *)
(* may leave one whoever does what.  Nothing else does.                    *)
ContentlessPagesAreExplained ==
    [][\A p \in PageIds : Unattended(p)' /\ ~Unattended(p) =>
         \E t \in Threads :
           \/ AtWork(t, p) /\ Between(t)'
           \/ At(t, "clr:contents") /\ At(t, "clr:lists")']_vars

(* Every request comes to an end, by itself or by an exception: the loops  *)
(* over rows, pages and view models work on what was read once, and not on *)
(* what other requests go on adding.                                       *)
RequestsFinish == \A t \in Threads : ~Between(t) ~> Between(t)

-----------------------------------------------------------------------------
(* One request at a time, between two requests. *)

(* The versions of a page, by number, are in the order they were saved in, *)
(* and no two have the same number: the history, ordered by number, and    *)
(* "latest", ordered by time, mean the same.  Of two requests at once both *)
(* may take the same number.                                               *)
HistoryIsOrdered ==
    Serial /\ ~CoarseClock =>
      \A c, d \in contents :
         (c.pageId = d.pageId /\ c.id # d.id) =>
            /\ c.version # d.version
            /\ c.version < d.version <=> c.editedOn < d.editedOn

IsCurrent(view) ==
    \E pg \in GetPageById(view.page.id), c \in GetLatestPageContent(view.page.id) :
       view = ViewOf(pg, c)

(* What is cached as the latest version of a page is the page and its      *)
(* latest version; what is cached as an older version has the text of that *)
(* version, the links rewritten by UpdateLinksToPage included.             *)
PageCacheIsCurrent ==
    Serial /\ Quiet /\ ~DatabaseMayFail =>
      \A e \in pageCache :
        IF e.version = LATEST_VERSION_NUMBER
        THEN e.view.page.id = e.id /\ IsCurrent(e.view)
        ELSE \E c \in GetPageContentByPageIdAndVersionNumber(e.id, e.version) :
               e.view.text = c.text

(* A cached list lists the pages the query would find, and, as long as     *)
(* nobody reverts a page (RevertTo leaves the lists alone), their latest   *)
(* versions.                                                               *)
ListCacheIsCurrent ==
    Serial /\ Quiet /\ ~DatabaseMayFail =>
      \A e \in listCache :
        /\ {view.page : view \in e.views} = ListedPages(e.key)
        /\ (WithContent(e.key) /\ Never({"revert"})) =>
              \A view \in e.views : IsCurrent(view)

(* The search index has one document for each page and none for a page     *)
(* that was deleted.  The document has the page's title and tags and, as   *)
(* long as nobody reverts a page (RevertTo leaves the index alone), its    *)
(* latest wording (one of them, if two were saved at the same instant).    *)
IndexNamesEachPageOnce ==
    Serial /\ Quiet /\ ~DatabaseMayFail /\ ~SearchMayFail /\ Never({"clear", "recycle"}) =>
      \A p \in PageIds :
        /\ {documents[p][i].page : i \in DOMAIN documents[p]} = GetPageById(p)
        /\ Len(documents[p]) <= 1
        /\ Never({"revert"}) =>
             \A i \in DOMAIN documents[p] : \E c \in GetLatestPageContent(p) :
               documents[p][i].text.body = c.text.body

PageIdsInUse == {pg.id : pg \in pages}

(* A page that is gone leaves no version behind, and no cache shows it.    *)
DeletedPagesAreGone ==
    Serial /\ Quiet /\ ~DatabaseMayFail /\ Never({"recycle"}) =>
      /\ \A c \in contents : c.pageId \in PageIdsInUse
      /\ \A e \in pageCache : e.id \in PageIdsInUse
      /\ \A view \in homeCache \cup UNION {e.views : e \in listCache} :
           view.page.id \in PageIdsInUse

SeedTitles == {Seed[i].page.title : i \in DOMAIN Seed}

(* Renaming pages breaks no link: if every link in every version leads to  *)
(* a page, and users type no new ones, it stays so, reverts to versions    *)
(* from before the renaming included.  Forms may be posted long after they *)
(* were opened, and again; but once one has been posted that had the title *)
(* of its page or of a page it links to as it was before a renaming, links *)
(* do break: UpdatePage goes by the title in the form.                     *)
LinksResolve ==
    /\ Serial /\ Quiet /\ ~DatabaseMayFail /\ ~outdated
    /\ \A i \in DOMAIN Seed : Seed[i].text.links \subseteq SeedTitles
    /\ Never({"delete", "clear", "recycle"})
    /\ NewLinks \subseteq {{}}
    => \A c \in contents : c.text.links \subseteq {pg.title : pg \in pages}

=============================================================================
