----------------------------- MODULE PageService -----------------------------
(***************************************************************************)
(* The pages of a running Roadkill site: what the requests do, in any      *)
(* interleaving, and what is to be expected of the tables, the caches and  *)
(* the search index while they do it.                                      *)
(***************************************************************************)
EXTENDS PageWrites

(* The first step of a request. *)
Arrive(t) ==
    \/ GetByIdMiss(t) \/ HomePageMiss(t) \/ ListMiss(t) \/ CompareMiss(t)
    \/ AddPageRow(t) \/ RevertVersion(t) \/ RenameTagFind(t)
    \/ DeletePageLoad(t) \/ ClearPagesRows(t) \/ ClearCachePages(t)
    \/ CreateIndexPages(t)

(* Its later steps. *)
ReadOn(t) ==
    \/ GetByIdPage(t) \/ GetByIdContent(t) \/ GetByIdCache(t)
    \/ HomePageAny(t) \/ HomePageContent(t) \/ HomePageCache(t)
    \/ ListPages(t) \/ ListContent(t) \/ ListCacheAdd(t)
    \/ ComparePrevious(t) \/ CompareCache(t)

UpdateOn(t) ==
    \/ UpdatePageLoad(t) \/ UpdatePageSave(t) \/ UpdatePageUncache(t)
    \/ UpdatePageUncacheHome(t) \/ UpdatePageUncacheLists(t)
    \/ UpdatePageMaxVersion(t) \/ UpdatePageTakeTime(t) \/ UpdatePageInsert(t)
    \/ UpdateLinksRead(t) \/ UpdateLinksRewrite(t)
    \/ UpdateLinksClearPages(t) \/ UpdateLinksClearLists(t)
    \/ UpdatePageReread(t) \/ UpdatePageUnindex(t) \/ UpdatePageIndex(t)

WriteStep(t) ==
    \/ AddPageContent(t) \/ AddPageClearLists(t) \/ AddPageClearPages(t)
    \/ AddPageIndex(t)
    \/ RevertMaxVersion(t) \/ RevertTakeTime(t) \/ RevertInsert(t)
    \/ RevertCache(t)
    \/ RenameTagNext(t) \/ RenameTagUnindex(t) \/ RenameTagUncache(t)
    \/ DeletePageLatest(t) \/ DeletePageUnindex(t) \/ DeletePageChildren(t)
    \/ DeletePageContents(t) \/ DeletePageRow(t)
    \/ DeletePageClearLists(t) \/ DeletePageClearPages(t)
    \/ ClearPagesContents(t) \/ ClearPagesLists(t) \/ ClearPagesPages(t)
    \/ ClearCacheLists(t)
    \/ CreateIndexContent(t) \/ CreateIndexClose(t)

WriteOn(t) == WriteStep(t) \/ DatabaseFails(t)

GoOn(t) == ReadOn(t) \/ UpdateOn(t) \/ WriteOn(t)

(* The forms that are open, and what is known of those that were posted.   *)
browsers == <<forms, outdated>>

(* The application pool is recycled: the requests in progress and the      *)
(* object cache are gone, the database and the index files stay.           *)
Recycle ==
    /\ "recycle" \in Ops
    /\ started < MaxRequests
    /\ started' = started + 1
    /\ rq' = [t \in Threads |-> Idle]
    /\ pageCache' = {} /\ homeCache' = {} /\ listCache' = {}
    /\ indexLock' = FALSE
    /\ UNCHANGED <<tables, documents, forms, outdated>>

Between(t) == rq[t].pc \in {"idle", "threw"}

Quiet == \A t \in Threads : Between(t)

(* The bound on requests is reached and all of them have finished. *)
Finished ==
    /\ started = MaxRequests
    /\ Quiet
    /\ UNCHANGED vars

Next ==
    \/ \E t \in Threads :
         \/ (Arrive(t) \/ GoOn(t)) /\ UNCHANGED browsers
         \/ UpdateForm(t)
         \/ OpenLoadedForm(t)
    \/ OpenCachedForm
    \/ Recycle
    \/ Finished

Spec == Init /\ [][Next]_vars

(* A request that has begun is executed by a thread of its own, which the  *)
(* operating system runs now and then: there is no lock to wait for.  That *)
(* the database fails is not counted on.                                   *)
Proceed(t) == (ReadOn(t) \/ UpdateOn(t) \/ WriteStep(t)) /\ UNCHANGED browsers

FairSpec == Spec /\ \A t \in Threads : WF_vars(Proceed(t))

=============================================================================
