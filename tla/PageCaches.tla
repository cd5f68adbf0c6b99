----------------------------- MODULE PageCaches -----------------------------
(***************************************************************************)
(* The object cache the requests share: PageViewModelCache (a page view    *)
(* model per page and version, and one for the home page) and ListCache    *)
(* (lists of page view models).  Both sit on one MemoryCache, whose Add    *)
(* keeps an entry that is already there and whose calls are atomic, one    *)
(* key at a time.                                                          *)
(*                                                                         *)
(* RemoveAll enumerates the keys and removes them one by one; it is one    *)
(* step here.  UpdateHomePage (Remove, then Add) is one as well.           *)
(***************************************************************************)
EXTENDS PageRepository

CONSTANTS
    UseObjectCache,     \* the useObjectCache setting
    UncacheableBodies   \* the texts a plugin marks as not cacheable

ASSUME CacheAssumption ==
    /\ UseObjectCache \in BOOLEAN
    /\ UncacheableBodies \subseteq Bodies

(* A PageViewModel: the page it was built from, and a version of its text. *)
View == [page : Page, text : Text, version : Nat]

ViewOf(pg, c) == [page |-> pg, text |-> c.text, version |-> c.version]

(* Set by MarkupConverter.ToHtml when the view model is built. *)
IsCacheable(view) == view.text.body \notin UncacheableBodies

VARIABLES
    pageCache,  \* entries of PageViewModelCache, keyed by page and version
    homeCache,  \* the home page's entry, if there is one
    listCache   \* entries of ListCache

caches == <<pageCache, homeCache, listCache>>

(* The version number under which the current version of a page is cached. *)
LATEST_VERSION_NUMBER == 0

(* A cache key of a list: which list, its argument, and how many times the *)
(* prefix "list." has been put in front of the name.                       *)
ListNames ==
    {"allpages", "allpages.with.content", "createdby", "alltags", "pagesbytag"}
ListKey == [list : ListNames, arg : Tags \cup Users \cup {"none"},
            prefixes : Nat]

CachesTypeOK ==
    /\ pageCache \subseteq [id : PageIds, version : Nat, view : View]
    /\ homeCache \subseteq View
    /\ listCache \subseteq [key : ListKey, views : SUBSET View]

CachesInit == pageCache = {} /\ homeCache = {} /\ listCache = {}

-----------------------------------------------------------------------------
(* PageViewModelCache *)

CachedPage(p, v) == {e \in pageCache : e.id = p /\ e.version = v}

CachePage(p, v, view) ==
    /\ pageCache' =
         IF UseObjectCache /\ IsCacheable(view) /\ CachedPage(p, v) = {}
         THEN pageCache \cup {[id |-> p, version |-> v, view |-> view]}
         ELSE pageCache
    /\ UNCHANGED <<homeCache, listCache>>

(* A slip: nothing is removed. *)
UncacheNothing(p, v) == UNCHANGED caches

UncachePage(p, v) ==
    /\ pageCache' = pageCache \ CachedPage(p, v)
    /\ UNCHANGED <<homeCache, listCache>>

(* A slip: the page goes into the untyped cache instead of its view model. *)
CacheHomePageEntity(view) ==
    /\ homeCache' = IF UseObjectCache THEN {view.page} ELSE homeCache
    /\ UNCHANGED <<pageCache, listCache>>

(* Unlike CachePage, this does not ask whether the view is cacheable. *)
CacheHomePage(view) ==
    /\ homeCache' = IF UseObjectCache THEN {view} ELSE homeCache
    /\ UNCHANGED <<pageCache, listCache>>

UncacheHomePage ==
    /\ homeCache' = {}
    /\ UNCHANGED <<pageCache, listCache>>

(* A slip: the home page, kept under a key of its own, is overlooked. *)
UncacheAllButHome ==
    /\ pageCache' = {}
    /\ UNCHANGED <<homeCache, listCache>>

(* Every key that starts with "page.", the home page's among them. *)
UncacheAllPages ==
    /\ pageCache' = {}
    /\ homeCache' = {}
    /\ UNCHANGED listCache

-----------------------------------------------------------------------------
(* ListCache.  Add puts the prefix in front of a key that lacks it; Get    *)
(* and Remove always do.                                                   *)

StoredKey(key) == [key EXCEPT !.prefixes = IF @ = 0 THEN 1 ELSE @]

LookupKey(key) == [key EXCEPT !.prefixes = @ + 1]

CachedList(key) == {e \in listCache : e.key = LookupKey(key)}

CacheList(key, views) ==
    /\ listCache' =
         IF UseObjectCache /\ \A e \in listCache : e.key # StoredKey(key)
         THEN listCache \cup {[key |-> StoredKey(key), views |-> views]}
         ELSE listCache
    /\ UNCHANGED <<pageCache, homeCache>>

UncacheList(key) ==
    /\ listCache' = listCache \ CachedList(key)
    /\ UNCHANGED <<pageCache, homeCache>>

(* A slip: the lists by tag are forgotten. *)
UncacheOtherLists ==
    /\ listCache' = {e \in listCache : e.key.list = "pagesbytag"}
    /\ UNCHANGED <<pageCache, homeCache>>

UncacheAllLists ==
    /\ listCache' = {}
    /\ UNCHANGED <<pageCache, homeCache>>

=============================================================================
