---------------------------- MODULE PageRequests ----------------------------
(***************************************************************************)
(* PageService and PageHistoryService as the requests of a running site    *)
(* execute them: each thread runs one call at a time, one repository,      *)
(* cache or search-index call per step, with no lock and no transaction    *)
(* around them, so that the steps of different requests interleave.        *)
(*                                                                         *)
(* A request is a record: where it is ("pc"), what it was asked, and the   *)
(* values it has read and not yet used.  Calls that read and change        *)
(* nothing (a cache hit, the page history, a search) are left out.         *)
(*                                                                         *)
(* The users have edit forms open in their browsers, which show a page as  *)
(* it was when the form was opened, and which they post when they like.    *)
(***************************************************************************)
EXTENDS SearchIndex

CONSTANTS
    Threads,      \* the request threads
    MaxRequests,  \* how many requests the clients send (a bound)
    Ops,          \* the calls the clients make, and "recycle"
    Lists,        \* the lists the clients ask for
    NewTags,      \* the tags the clients type: a set of lists of tags
    NewLinks,     \* the links the clients type: a set of sets of titles
    Admins,       \* the values of IsAdmin among the clients
    Editors       \* the browsers in which forms are opened

AllOps == {"add", "update", "renametag", "delete", "get", "home", "list",
           "compare", "revert", "clear", "createindex", "clearcache"}

ASSUME ServiceAssumption ==
    /\ MaxRequests \in Nat
    /\ Ops \subseteq AllOps \cup {"recycle"}
    /\ Lists \subseteq ListNames
    /\ NewTags \subseteq Seq(Tags)
    /\ NewLinks \subseteq SUBSET Titles
    /\ Admins \subseteq BOOLEAN

VARIABLES
    rq,      \* the request each thread is executing
    started, \* the number of requests sent so far
    forms,   \* the edit forms that are open, at most one in each browser
    outdated \* has a form been posted that was not up to date?

site == <<tables, caches, index, rq, started>>

vars == <<site, forms, outdated>>

Labels ==
    {"idle", "threw",
     "add:content", "add:lists", "add:pages", "add:index",
     "get:page", "get:content", "get:cache",
     "home:any", "home:content", "home:cache",
     "list:pages", "list:contents", "list:cache",
     "cmp:previous", "cmp:cache",
     "rev:max", "rev:time", "rev:insert", "rev:cache",
     "upd:page", "upd:save", "upd:cache", "upd:home", "upd:lists", "upd:max",
     "upd:time", "upd:insert", "upd:links", "upd:rewrite", "upd:clearpages",
     "upd:clearlists", "upd:latest", "upd:unindex", "upd:index",
     "tag:next", "tag:unindex", "tag:done",
     "del:latest", "del:unindex", "del:children", "del:contents", "del:row",
     "del:lists", "del:pages",
     "clr:contents", "clr:lists", "clr:pages", "cache:lists",
     "idx:contents", "idx:close"}

Request ==
    [op : AllOps, pc : Labels,
     id : PageIds,               \* the page it is about
     model : View,               \* the PageViewModel it was given
     prev : Titles,              \* model.PreviousTitle
     admin : BOOLEAN,            \* _context.IsAdmin
     key : ListKey,              \* the list it asks for
     newTag : Tags,              \* RenameTag's newTagName
     page : Page,                \* a Page entity it has read
     view : View,                \* a view model it has built
     ver : Nat,                  \* a version number it has computed
     on : Nat,                   \* the time it has taken
     rows : SUBSET PageContent,  \* PageContents it has read and must process
     todo : SUBSET Page,         \* Pages it has read and must process
     views : SUBSET View]        \* view models it has built, or must process

(* An edit form: the view model it was filled from, and who the user is. *)
Form == [editor : Editors, view : View, admin : BOOLEAN]

BlankPage ==
    [id |-> 1, title |-> CHOOSE x \in Titles : TRUE, tags |-> <<>>,
     locked |-> FALSE, createdBy |-> CHOOSE u \in Users : TRUE]

BlankView ==
    [page |-> BlankPage, version |-> 0,
     text |-> [body |-> CHOOSE b \in Bodies : TRUE, links |-> {}]]

(* A thread between two requests. *)
Idle ==
    [op |-> "get", pc |-> "idle", id |-> 1, model |-> BlankView,
     prev |-> BlankPage.title, admin |-> FALSE,
     key |-> [list |-> "allpages", arg |-> "none", prefixes |-> 0],
     newTag |-> HomepageTag, page |-> BlankPage, view |-> BlankView, ver |-> 0,
     on |-> 0, rows |-> {}, todo |-> {}, views |-> {}]

TypeOK ==
    /\ TablesTypeOK
    /\ CachesTypeOK
    /\ IndexTypeOK
    /\ rq \in [Threads -> Request]
    /\ started \in Nat
    /\ forms \subseteq Form
    /\ outdated \in BOOLEAN

(* The site was restarted while users had forms of its pages open. *)
FormsInit ==
    forms \in
      {open \in SUBSET [editor : Editors, admin : Admins,
                        view : {[page |-> Seed[i].page, text |-> Seed[i].text,
                                 version |-> 1] : i \in DOMAIN Seed}] :
         \A f \in open :
           /\ f.view.page.locked => f.admin
           /\ \A g \in open : f.editor = g.editor => f = g}

Init ==
    /\ TablesInit
    /\ CachesInit
    /\ IndexInit
    /\ rq = [t \in Threads |-> Idle]
    /\ started = 0
    /\ FormsInit
    /\ outdated = FALSE

-----------------------------------------------------------------------------
(* How a request moves. *)

At(t, label) == rq[t].pc = label

Become(t, request) == rq' = [rq EXCEPT ![t] = request]

Goto(t, label) == rq' = [rq EXCEPT ![t].pc = label]

Return(t) == rq' = [rq EXCEPT ![t] = Idle]

(* An exception leaves the call; what it has done so far stays done. *)
Throw(t) == rq' = [rq EXCEPT ![t] = [Idle EXCEPT !.pc = "threw", !.op = rq[t].op]]

Begin(t, request) ==
    /\ rq[t].pc \in {"idle", "threw"}
    /\ request.op \in Ops
    /\ started < MaxRequests
    /\ started' = started + 1
    /\ Become(t, request)

(* What GetById answers. *)
AnswerViews(p) ==
    IF CachedPage(p, LATEST_VERSION_NUMBER) # {}
    THEN {e.view : e \in CachedPage(p, LATEST_VERSION_NUMBER)}
    ELSE {ViewOf(pg, c) : pg \in GetPageById(p), c \in GetLatestPageContent(p)}

TypedTexts == [body : Bodies, links : NewLinks]

=============================================================================
