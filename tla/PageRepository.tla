--------------------------- MODULE PageRepository ---------------------------
(***************************************************************************)
(* The two tables the wiki keeps its pages in, and what each call of       *)
(* IPageRepository does to them (LightSpeedPageRepository over             *)
(* SQL Server, MySQL or Postgres).  One call is one database transaction;  *)
(* nothing ties two calls of the same request together.                    *)
(*                                                                         *)
(* Abstracted: the audit columns (who and when) of a page, except the      *)
(* creator, which selects a cached list; the wording of a text, of which   *)
(* only its identity ("body") and the titles it links to are kept.  Titles *)
(* and tags stand for themselves up to letter case, and no modelled tag is *)
(* a substring of another, so that LIKE-style tag matching is membership.  *)
(***************************************************************************)
EXTENDS Integers, Sequences

CONSTANTS
    MaxPages,     \* how many page ids the identity column may hand out (a bound)
    Titles,       \* page titles
    Tags,         \* tag names
    HomepageTag,  \* the tag "homepage"
    Users,        \* user names
    Bodies,       \* identities of page texts
    Seed,         \* the pages, in order of id, the database starts with
    ForeignKey,   \* is FK_roadkill_pageid declared? (SQL Server: yes, the others: no)
    DatabaseMayFail,  \* can a call throw DatabaseException?
    CoarseClock   \* may two saves carry the same EditedOn? (MySQL keeps seconds)

PageIds == 1..MaxPages

Text == [body : Bodies, links : SUBSET Titles]

(* A row of roadkill_pages. *)
Page == [id : PageIds, title : Titles, tags : Seq(Tags), locked : BOOLEAN,
         createdBy : Users]

(* A row of roadkill_pagecontent.  The GUID key is a counter here. *)
PageContent == [id : Nat, pageId : PageIds, version : Nat \ {0}, text : Text,
                editedOn : Nat]

ASSUME RepositoryAssumption ==
    /\ MaxPages \in Nat \ {0}
    /\ HomepageTag \in Tags
    /\ Titles # {} /\ Users # {} /\ Bodies # {}
    /\ ForeignKey \in BOOLEAN
    /\ DatabaseMayFail \in BOOLEAN
    /\ CoarseClock \in BOOLEAN
    /\ Seed \in Seq([page : Page, text : Text])
    /\ Len(Seed) <= MaxPages
    /\ \A i \in DOMAIN Seed : Seed[i].page.id = i

VARIABLES
    pages,     \* the rows of roadkill_pages
    contents,  \* the rows of roadkill_pagecontent
    nextPage,  \* the identity column's next value
    nextRow,   \* the next GUID
    clock      \* the latest time a request has taken for an EditedOn

rows == <<pages, contents, nextPage, nextRow>>

tables == <<pages, contents, nextPage, nextRow, clock>>

TablesTypeOK ==
    /\ pages \subseteq Page
    /\ contents \subseteq PageContent
    /\ nextPage \in Nat \ {0}
    /\ nextRow \in Nat
    /\ clock \in Nat

TablesInit ==
    /\ pages = {Seed[i].page : i \in DOMAIN Seed}
    /\ contents = {[id |-> i, pageId |-> i, version |-> 1,
                    text |-> Seed[i].text, editedOn |-> 0] : i \in DOMAIN Seed}
    /\ nextPage = Len(Seed) + 1
    /\ nextRow = Len(Seed) + 1
    /\ clock = 0

-----------------------------------------------------------------------------
(* Queries.  Each returns the set of rows the SQL statement may answer     *)
(* with: FirstOrDefault picks any of them, and null when there are none.   *)

GetPageById(p) == {pg \in pages : pg.id = p}

FindPagesContainingTag(tag) ==
    {pg \in pages : \E i \in DOMAIN pg.tags : pg.tags[i] = tag}

FindPagesCreatedBy(user) == {pg \in pages : pg.createdBy = user}

FindPageContentsByPageId(p) == {c \in contents : c.pageId = p}

(* Ordered by EditedOn, not by version; rows saved at the same instant tie. *)
GetLatestPageContent(p) ==
    {c \in FindPageContentsByPageId(p) :
        \A d \in FindPageContentsByPageId(p) : d.editedOn <= c.editedOn}

GetPageContentByPageIdAndVersionNumber(p, v) ==
    {c \in FindPageContentsByPageId(p) : c.version = v}

-----------------------------------------------------------------------------
(* Updates, one transaction each. *)

(* DateTime.UtcNow.  Whoever saves a text takes the time first and inserts *)
(* the row later, with the time it took.                                   *)
UtcNow == IF CoarseClock THEN {clock, clock + 1} ELSE {clock + 1}

TakeTime(on) == on \in UtcNow /\ clock' = on

(* The check of FK_roadkill_pageid. *)
MayReference(p) == ForeignKey => GetPageById(p) # {}

InsertContent(p, v, text, on) ==
    /\ contents' = contents \cup
         {[id |-> nextRow, pageId |-> p, version |-> v, text |-> text,
           editedOn |-> on]}
    /\ nextRow' = nextRow + 1
    /\ UNCHANGED <<pages, nextPage, clock>>

InsertPage(pg) ==
    /\ pages' = pages \cup {[pg EXCEPT !.id = nextPage]}
    /\ nextPage' = nextPage + 1
    /\ UNCHANGED <<contents, nextRow>>

(* A slip: the caller has already added one. *)
AddNextPageContentVersion(p, v, text, on) == InsertContent(p, v + 1, text, on)

(* The entity of a page read earlier in the request is still tracked, so a *)
(* page deleted meanwhile does not stop the insert: only a foreign key     *)
(* does.                                                                   *)
AddNewPageContentVersion(p, v, text, on) ==
    InsertContent(p, IF v < 1 THEN 1 ELSE v, text, on)

(* Every column is written; a page deleted meanwhile matches no row. *)
SaveOrUpdatePage(pg) ==
    /\ pages' = {IF q.id = pg.id THEN pg ELSE q : q \in pages}
    /\ UNCHANGED <<contents, nextPage, nextRow, clock>>

(* A slip: the row is found by its page instead of by its own id. *)
UpdateEveryVersion(c) ==
    /\ contents' = {IF d.pageId = c.pageId THEN [c EXCEPT !.id = d.id] ELSE d :
                        d \in contents}
    /\ UNCHANGED <<pages, nextPage, nextRow, clock>>

UpdatePageContent(c) ==
    /\ contents' = {IF d.id = c.id THEN c ELSE d : d \in contents}
    /\ UNCHANGED <<pages, nextPage, nextRow, clock>>

(* A slip: the row is found by its version number alone. *)
DeleteVersionOfEveryPage(c) ==
    /\ contents' = {d \in contents : d.version # c.version}
    /\ UNCHANGED <<pages, nextPage, nextRow, clock>>

DeletePageContent(c) ==
    /\ contents' = {d \in contents : d.id # c.id}
    /\ UNCHANGED <<pages, nextPage, nextRow, clock>>

(* The context's CascadeDeletes is on: the versions the page has left, such *)
(* as one saved since the caller read them, go with it.                    *)
DeletePage(p) ==
    /\ pages' = {pg \in pages : pg.id # p}
    /\ contents' = contents \ FindPageContentsByPageId(p)
    /\ UNCHANGED <<nextPage, nextRow, clock>>

(* DeleteAllPages is two statements, with no cascade: the pages go first.  *)
MayDeleteAllPages == ForeignKey => contents = {}

DeleteAllPageRows ==
    /\ pages' = {}
    /\ UNCHANGED <<contents, nextPage, nextRow, clock>>

DeleteAllContentRows ==
    /\ contents' = {}
    /\ UNCHANGED <<pages, nextPage, nextRow, clock>>

=============================================================================
