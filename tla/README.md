# Roadkill in TLA+

Roadkill is a wiki on ASP.NET MVC: pages with a title, tags and a history of
texts, users who may edit or administer them, an object cache in the process,
a Lucene index for searching, a folder of attachments, and a relational (or
Mongo) database. This directory models how those parts work together while several requests run at
once, checks the models with TLC and proves the main results with TLAPS.

Paths below are relative to `src/src/Roadkill.Core/`; the scripts (`.ts`) are
in `src/src/Roadkill.Web/Assets/Scripts/roadkill/`. `PROJECT.json` maps every
definition to the lines it translates.

## 1. Inventory

| Component | State it keeps | Operations | Talks to | What makes it correct |
|---|---|---|---|---|
| Page storage (`Database/Repositories/Lightspeed/LightSpeedPageRepository.cs`) | the tables `roadkill_pages`, `roadkill_pagecontent` | add a page (two saves), add a version, write a row back, delete, delete all, queries by id, tag, creator, version | the database; LightSpeed cascades a page's deletion to its versions | no version is lost or changed by saving another; a page has content |
| Object cache (`Cache/`) | one `MemoryCache`: page view models by page and version, the home page, lists of view models | add (keeps what is there), get, remove one, remove all | filled and emptied by the services | what is cached is what the tables say; what is cached is found again |
| Search index (`Services/SearchService.cs`) | Lucene documents, a write lock | add, delete, update = delete + add, rebuild | called by the services, after the tables | one document per page, of its latest version |
| Page service (`Services/PageService.cs`, `PageHistoryService.cs`) | none: each request holds what it has read in local variables | AddPage, UpdatePage, DeletePage, RenameTag, UpdateLinksToPage, RevertTo, GetById, FindHomePage, the lists, CompareVersions, ClearPageTables | all of the above, one call after another, no lock, no transaction | histories without gaps, links that lead somewhere, pages that are wholly there or gone |
| Page controllers (`Mvc/Controllers/`) | the forms users have open in the browser | edit form and its posting, delete, revert, tools (clear, rename tag, rebuild index), cache page | page service | a stale form destroys nothing |
| Users (`Security/FormsAuthUserService.cs`, `UserController`, `UserManagementController`) | the users table, activation and reset keys, the login cookie | sign up, activate, log in, reset and change password, update, add, delete, toggle roles | user repository, email | unique names and emails under check-then-save; a key works once; a renamed user stays logged in |
| Site and plugin settings (`Services/SettingsService.cs`, `Plugins/`, `Cache/SiteCache.cs`) | the settings row, a row per plugin, the object of a plugin's settings that all requests share, the date of the last save of a plugin | save, load, edit a plugin, first use of a plugin | database, `SiteCache`, page cache | a change of settings reaches the reader |
| Menu (`Text/MenuParser.cs`) | three cached menus (guest, editor, admin) | get, remove | `SiteCache`, settings | the menu of the right kind of user, current |
| Browser cache (`Mvc/Attributes/BrowserCacheAttribute.cs`, `Attachments/ResponseWrapper.cs`) | the copy of a page in a browser | answer 304 or send the page | the date of the page and the date of the last plugin save | a 304 is given only for a copy that is current |
| Text pipeline (`Text/`) | the list of custom tokens, which is static | markup to HTML: tokens, plugins before, parser, plugins after, around; links; diff | the page service builds every view model through it; the shared settings of plugins | each plugin runs whole or not at all; the tokens of the file; the cacheable flag |
| Installer (`InstallController`, `InstallationService`, `Configuration/`, `installer/*.ts`) | Roadkill.config, its copy in each application domain, the schema, the first administrator | the steps of the wizard, the unattended installation, tests of the configuration, reset on failure | database, configuration file | installed means usable |
| Files (`FileManagerController`, `LocalFileService`, `AttachmentPathUtil`, `filemanager/*.ts`; `AzureFileService`) | a tree of files on the server; in each browser window the trail of crumbs, the table, the upload folder, an open dialog | list, create folder, upload, delete file or folder | file system or blob storage, by calls whose answers come in any order | window and disk agree; nothing is deleted but what was named |
| Editor and settings pages (`editpage/*.ts`, `sitesettings/*.ts`) | what is in the form | toolbar, tags, preview, validation | page controllers | |
| Import and export | none | import a Screwturn wiki, export SQL, XML, attachments | repositories | every version arrives, in order |
| Web API, email, Active Directory, registry, routing, views, localisation, logging | none of their own | wrappers and output | | |

What is hard: requests run on threads of their own and share the database, the
cache and the index, and a call such as `UpdatePage` is a dozen separate
transactions and cache operations. Values read early are written late
(`UpdateLinksToPage` holds every text of the wiki while others edit); the order
of cache clearing and saving lets readers cache what is about to be replaced;
a call that fails half way, or a recycled application pool, leaves what was
done done; "latest" is decided by a clock that may tie. Objects that look
private to a request are shared (the settings of a plugin, the list of tokens,
cached view models). In the browser, calls are sent without waiting for the
answers to earlier ones. The installer is a sequence of steps on a file and a
database with no transaction around it. `PROJECT.json` lists
these hazards line by line with the properties that bear on them.

## 2. Modules

| Module | Models | Correspondence |
|---|---|---|
| `PageRepository` | the two tables | `pages`, `contents` are the rows; one operator per call of `IPageRepository`; `nextPage`, `nextRow`, `clock` stand for the identity column, `Guid.NewGuid` and `DateTime.UtcNow` |
| `PageCaches` | `PageViewModelCache`, `ListCache`, `CacheKeys` | `pageCache`, `homeCache`, `listCache`; a list's key counts how many times "list." was put in front of it |
| `SearchIndex` | `SearchService` | `documents` per page id, `indexLock` while `CreateIndex` has its writer open |
| `PageRequests` | what a request is | `rq[t]` is the request of thread `t`: its program counter and locals; `started` bounds them; `forms` are the edit forms that are open in browsers |
| `PageReads` | GetById, FindHomePage, the lists, CompareVersions | one action per repository or cache call, after a cache miss |
| `PageWrites` | AddPage, UpdatePage with UpdateLinksToPage, RevertTo, RenameTag, DeletePage, ClearPages, clearing the cache, CreateIndex | likewise |
| `PageService` | all of it together | `Next`: any thread takes its next step, a request arrives, a form is opened, or the process is recycled |
| `PageProperties` | what is expected | invariants, action properties, liveness |
| `MCPages` | values for TLC | seeds, tags, symmetry |
| `PageHistory_proofs`, `PageProperties_proofs`, `PageSerial_proofs` | proofs | section 6 |
| `UserRepository` | the table of users, the author columns of pages and versions | `users`, `pages`, `contents` are the rows; one operator per repository call; `Tracked` is the unit of work, which answers with the rows it has read |
| `UserService` | `FormsAuthUserService`, the validation in `UserViewModel`, `UserController`, `UserManagementController`, and the author of a page that is written | `rq[t]` as above; `cookies` the accounts that are logged in, `forms` the profile and edit forms that are open in a browser |
| `UserProperties`, `MCUsers`, `UserService_proofs` | what is expected of accounts, values for TLC; proofs, section 6 | |
| `VersionedPages` | what the page service promises of histories | no requests and no caches: pages, versions, and the texts that readers may be shown; `PageProperties` states the refinement (`KeepsVersions`) |
| `AttachmentFolder` | the disk, `LocalFileService` | `folders`, `files`; a check and the change it allows are two operators |
| `FileManager` | `FileManagerController`, the script of the file manager | `win[w]` is the document of window `w`; `calls` the requests that are on their way, at work in the server, or answered and not yet handled |
| `FileProperties`, `MCFiles`, `FileManager_proofs` | what is expected of the file manager; proofs, section 6 | |
| `Installer` | the wizard, `InstallController`, the configuration file, the installer repositories | `installed` is in the file, `memory[d]` in application domain `d`; `tables`, `admins`, `settings` are the database; `calls` the requests |
| `InstallerProperties`, `MCInstaller`, `Installer_proofs` | what is expected of an installation; proofs, section 6 | |
| `SiteSettings` | the settings of the site and of a plugin, the menus, the date of the last plugin save, the answer 304 | the rows, the three caches and the browser's `copy`; `clock` ticks between the steps; `objects` are the settings objects in memory, `cachedPlugin` names the one in the cache |
| `SiteProperties`, `MCSite`, `SiteSettings_proofs` | what is expected of what is made from settings; proofs, section 6 | |
| `TextPipeline` | `MarkupConverter.ToHtml`, `TextPluginRunner`, `CustomTokenParser` | `tokens` is the static list, `enabled` the shared settings; `rq[t]` is a conversion and where its loop is |
| `PipelineProperties`, `MCPipeline`, `TextPipeline_proofs` | what is expected of a conversion; proofs, section 6 | |

There are six specifications: pages (`PageService`), accounts (`UserService`),
files (`FileManager`), installation (`Installer`), settings (`SiteSettings`) and
conversions (`TextPipeline`). They are checked apart because they share little:
accounts and pages meet in the names that pages bear, which `UserRepository`
has; settings and pages in the page cache and in the two dates of a page, which
`SiteSettings` has; conversions and pages in whether a page may be cached, which
`PageCaches` has as `UncacheableBodies`. In each, a module extends the one above
it, so that the state of one component is changed only by the operators of its
own module.

An action name starts with the method's: `UpdatePageSave`, `UpdatePageUncache`,
... are the consecutive calls of `UpdatePage`. An exception ends a request
("threw") and undoes nothing, as in the code. Definitions marked "a slip" are
not part of the specification: each is the plausible bug that shows that a
property can fail.

### Decisions and abstractions

- One step is one call on the repository, the cache or the index. A repository
  call is a unit of work with one `SaveChanges`; the two calls of `SaveChanges`
  in `AddNewPage` are two steps. `RemoveAll` on a cache (which enumerates keys
  and removes them one at a time) and `UpdateHomePage` (remove, then add) are
  one step each.
- Requests that change nothing at all (a hit in the cache, a search, the
  history page) are left out. A call that would read twice in a row what
  nothing else depends on (RevertTo's two reads of the version and its page)
  reads once.
- Rows are sets, found by id. Writing a row back writes all of its columns;
  LightSpeed's UPDATE of a row that is gone matches nothing. A page read earlier
  in the request is still tracked by the unit of work, so the insert of a
  version for a page deleted meanwhile is stopped by nothing but the foreign
  key, which only the SQL Server schema declares (`ForeignKey`).
- `DeletePage` cascades to the versions (`CascadeDeletes` is on);
  `DeleteAllPages` is a bulk statement and does not.
- A text is its identity and the titles it links to; titles and tags are up to
  letter case; no modelled tag is part of another (the code matches tags with
  `LIKE`). Who and when are left out, except the creator, which selects a list,
  and `EditedOn`, which decides what the latest version is. The time is taken in a
  step before the insert (`TakeTime`), as `DateTime.UtcNow` is, so that versions may
  be stored in another order than their times; `AddPage` takes it together with
  saving the row of a page that nobody else has versions of yet. Each time taken is
  later than the one before, or, if `CoarseClock`, may be the same (MySQL keeps
  whole seconds).
- An edit form is opened by one request and posted by another. It stays open in
  the browser of an editor (`Editors`; each has one form, which the next one
  replaces), shows the page as it was when it was opened, and may be posted late, and
  again. `FormsInit`: when the site starts, forms may be open that were filled
  before. `outdated` is in no code: a form has been posted although the title of its
  page, or of a page its text links to, had changed since it was filled.
- `DatabaseMayFail`: any call on the repository may throw instead of doing what it
  does. What is saved stays: `AddPage`, whose second `SaveChanges` fails, leaves the
  row of its page behind; `RevertTo` and `UpdatePage` may be cut short after their
  version is saved. A request whose first call fails does nothing, and is left out.
- The order of lists is left out. The cached view model that RenameTag
  changes is the one the list holds; a view model that another request has put
  in its place with equal values counts as the same object.
- Accounts: a password stands for its salted hash, first and last names are left
  out (their save, which writes the row as it was read, is not). Who may manage
  accounts is left out. A form, once opened, stays open and may be posted again:
  the page shown after a post carries the same hidden fields. `UserEntity`
  rows are also cached across requests by LightSpeed, by key; every lookup by
  key in a save follows a query of the same request and finds its row in the unit
  of work, so that this cache decides nothing here.
- The key of an author (`who`) and `cut` (a request was cut short) are in no
  column; they let the properties speak of the account behind a name.
- Files: the calls of a window go to the server at once and their answers come
  back in any order; those of an `Unreliable` window may be lost on either way. A
  `Patient` user acts when all answers have come, but may drop a file on the table,
  which causes three calls: the folder is listed while the file is on its way, and
  again when it has arrived. Selecting a row and pressing
  delete are one step, and so are asking for the row of a new folder and typing
  its name. File names are up to letter case and no folder has the name of a
  file. `fresh` and `failed` are in no document; they tell whether the disk is as it
  was when the listing that is shown was read, changes that the window itself has
  accounted for aside, and whether a call has failed.
- Installation: steps 2 to 4 of the wizard are one form, and what is typed is
  valid. Only forms authentication is modelled, and of the tables the two that
  the installer writes to. An installation ends with the registration of the route of
  attachments, which may throw. Once the site is installed only the test of the
  configuration lets anybody in, an administrator who has logged in. A change of the
  file replaces the application domain some time later; what it is at work on goes on in the old one. Resetting the
  attribute by hand is what `docs/installing.md` tells one to do; it puts every
  domain but the next out of step with the file. `stuck` is in no code: an
  installation failed and was not taken back.
- Settings: one plugin with one value, one page, one browser. The clock
  ticks between any two steps, `TicksPerSecond` times a second, until `LastTick`; a
  date is taken between the step that saves it and the request's step before that
  (`Taken`), and is cut to its second where the code does so (`Second`). The server's
  local time is UTC: elsewhere the date of a plugin is sent to the browser shifted, and
  fewer answers are a 304. Saving the settings also writes the configuration file;
  what it writes is taken to be what was there. A conversion reads the plugin's settings once.
  `sound` is in no code: it names what no overlap and no failure has disturbed
  since it was last saved or emptied by a request that was alone. So is `sent`, when
  the copy was sent (the browser is told so by `Expires`).
- Conversions: `GetPreContainerHtml` and `GetPostContainerHtml` are one loop.
  Every plugin's token is in the text. The parser, the white list and the
  conversion that Jumbotron does within the conversion are left out. The
  file of tokens is any file at the start. `threw`, `switched`, `fileKept` and
  `undisturbed` are in no code; they tell what happened during a
  conversion.
- The Lucene write lock is held across steps only by `CreateIndex`; another
  writer then fails (after its timeout) or comes later.

## 3. Runs

The runs of one configuration file each instantiate the MC module of their
specification. "Serial" runs have one thread: they show what holds between
requests when requests do not overlap.

| Run | Question | Bounds | Result |
|---|---|---|---|
| `History` | Do two editors of one page, with a clock that ties, keep the history free of gaps, and do the caches and the index show only texts that were saved? | 2 threads, 3 requests, edits keep the page's tag; two editors' forms, the database may fail | holds, about 750,000 states |
| `Renames` | Do two who rename pages that a third links to, or revert them, lose a version or its wording? Does the page service implement `VersionedPages`? | 2 threads, 2 requests, 3 pages and one to come; two editors' forms, the database may fail | holds, about 1.3 million states |
| `Serial` | Every call but RevertTo: caches, lists, index and deletions agree with the tables | 1 thread, 4 requests, two editors' forms | holds, about 2.3 million states |
| `Links` | Renaming, reverting, renaming a tag: do all links resolve, and are the numbers in the order of saving? | 1 thread, 3 requests, two editors' forms | holds |
| `Finish` | Types; does every request of every kind come to an end, and is a page left without content only by a request that is cut short, or by clearing all pages? | 2 threads, 2 requests; recycling, the index and the database may fail | holds |
| `Accounts` | Accounts of every kind of request, cut short or not, with forms posted late: distinct, with their pages under their present name, and with the password an administrator gave them? | 1 thread, 3 requests, one form, two accounts and a page that one of them has written | holds, about 310,000 states |
| `Files` | A patient user beside one who does not wait and whose calls may be lost: do the trail, the table and the upload folder agree, is the table current, and does no file go but by its name? | 2 windows, 2 calls and 1, folders 2 deep, one folder name, one file name; a folder and a file are there | holds, about 350,000 states |
| `Install` | Two windows, wizard and unattended, SQL and MongoDB, with faults, crashes and recycling: is a site that says it is installed complete, and is the answer true? | 2 windows, 2 requests and 1, one window at the wizard and one that has yet to come, 2 domains, 1 fault | holds, about 1.9 million states |
| `Settings` | Saving settings, editing a plugin, emptying caches, editing and viewing a page at once, with failures: does the next one, alone, put menus, plugin settings and copies right? | 2 threads, 3 requests, 1 fault, 2 ticks a second; the caches are empty, or a page has been viewed | holds, about 2.7 million states |
| `Pipeline` | Two conversions while plugins are switched and tokens edited: does each plugin run whole or not at all, are tokens replaced, is an objection to caching kept? | 2 threads, 2 plugins, 3 conversions, 1 edit, 1 fault; any file of tokens | holds, about 1.8 million states |
| `Cacheable` | What a comment says of plugins before parsing, section 5 | 1 thread, 1 conversion | violated |
| `Tokens` | What the manual says of an edit of the file of tokens, section 5 | 1 thread, 2 conversions, 1 edit | violated |

Why the bounds are enough: each hazard needs at most two requests at once and
a third before or after them that sets the stage (a cached page, a second
version) or shows the effect (a read). One page suffices for histories; two
pages for links to one another; three for a page that links to two that are
renamed; two tags tell the last of a list from the others. Two editors' forms are
enough for one to go stale while the other is posted.
Requests, page ids (`MaxRequests`, `MaxPages`, for accounts also `MaxForms`) are the
only bounds, and for settings when the clock stops; rows, versions and documents
grow with the requests. Of accounts, a form that is posted twice, with another
account taking the name in between, needs three requests and one form; the page
that was written before that is there to start with; three names and emails for
two accounts leave one free to change to. Of files, there is a folder to go into
or delete, and a file in the root that is in the way of nothing but its name: two
calls of a patient user (go in, then create, upload, delete or go back), and one
call of the other window between any two of their steps; a tree two deep has a
folder that is neither the first nor the last of a trail. Of installations, two
that overlap and one after a failure are three requests; a fault strikes once, at
any step, and a crash starts the second domain. Of settings, two requests that
overlap and spoil a cache and one that saves alone are three; a page that has been
viewed before them, with all that was cached for it, is a start of its own. The page is
dated by the first tick of a second at the start; with two ticks a second and
`LastTick = 6` what is saved afterwards is dated by that tick, by the other one of that
second, or in the second after. Of
conversions, two plugins tell the one that objects or throws from the one that
does not, before and after it; two conversions overlap and one comes after them;
one edit switches a plugin in the middle of a conversion or changes the tokens. The
proofs of section 6 do away with the bounds for the results they cover, and for
the invariants of accounts, installations, settings and conversions they cover all.

## 4. Fairness

`FairSpec` assumes weak fairness of each thread's own steps once its request
has started (`Proceed(t)`): requests run on threads of the pool, which the
operating system schedules, and no step waits for another request (a locked
index is an error, after Lucene's timeout, not a wait). Nothing is assumed of
clients (`Arrive`, `UpdateForm`, the forms that are opened), of a database that fails
or of recycling.

## 5. Where code and documentation differ

Two runs show a difference:

- `Cacheable`: a comment in `TextPluginRunner.BeforeParse` says that once a plugin
  marks the page as not cacheable the false value is kept. It is, within that
  loop; `AfterParse` starts again with "cacheable" and replaces it.
  `ObjectionsAreKept` says what remains true.
- `Tokens`: `docs/custom-markup-tokens.md:4` says that a restart is needed for any new
  tokens to show. `CustomTokenParser` reads the file again for each conversion, and a
  new token shows on every page that is not in the cache. `TokensAreReplaced` says
  what a conversion can count on.

The following were found with TLC or by reading while the models were made; no
run is kept for them. The properties of the runs above state what holds
nevertheless.

- `PageService.cs:477` drops the cached home page only if the page still has the
  tag after the edit; the page whose tag was taken off stays the home page.
- `ListCache.cs:59`: the key of the list of all pages carries its prefix already,
  `Get` puts another in front, `Add` does not: the entry is never found. The unit
  test that says otherwise stores the entry under a key of its own.
- `PageService.cs:590`: two pages that a third links to are renamed at once; the
  second update writes back a text it read before the first, and with it a title
  that no longer exists.
- `PageService.cs:521`: of several tags, the last is not followed by the comma
  that RenameTag's replacement looks for, and stays.
- `UserController.cs:238`: a profile saved with a new email and a new password
  changes the email first and then looks for the account by its old email to
  change the password: nothing is changed, and the page says it was. `EditUser`,
  which takes the new email, does not do so (`EditUserSetsPassword`).
- `RevertTo` does not touch the search index, though `docs/searching.md` says the
  index is updated each time a page is edited (`IndexNamesEachPageOnce` and
  `ListCacheIsCurrent` except reverts); `UpdateHomePage` does not ask whether a page
  may be cached.
- `LocalFileService.cs:167`: two uploads of one name at once both save, though
  `SiteSettings.cs:115` says that a file of the same name is overwritten or an
  exception is thrown. `LocalFileService.cs:91` throws with a format string and one
  argument too few, and the answer is an error 500.
- `filemanager`: listing a folder whose name is missing fails if there are files
  in the root (`LocalFileService.cs:244`).
- `installer/step4.ts:33` prevents a second click on `#next-button`, which no view
  has; the form can be posted twice.
- `MongoDbInstallerRepository.cs:79` drops a collection that has another name; the
  settings are then replaced rather than inserted, so that nothing is seen of it.
  Installing again drops every page.
- `PluginSettingsController.cs:97` takes the date that is to invalidate the copies in
  browsers before it empties the caches: a copy that is made in between is younger
  than the date and holds the old page.
- `PagesController.cs:148`: a form carries the title and the text of its page as they
  were when it was opened (`:120`). Posted after another has renamed the page, or a
  page its text links to, it breaks links: `UpdateLinksToPage` looks for a title
  that is gone, or an old link is saved again. `LinksResolve` excepts such posts.
- `LightSpeedPageRepository.cs:55`: if the second `SaveChanges` of `AddNewPage` fails, a
  page without content stays, which can be neither viewed nor edited nor deleted
  (`ContentlessPagesAreExplained`).
- `setup.ts:93`: a dropped file has its folder listed while it is uploaded, and again
  after that. If the answer to the first listing comes last, a user who waits for all
  answers is left with a table that lacks the file (`TableIsCurrent` excepts this).
- `BrowserCacheAttribute.cs:78`, `ResponseWrapper.cs:129` and `:150`: dates are compared in
  whole seconds. A copy that was sent in the second its page was saved in is called
  current although the page is saved again later in that second (`CopyIsCurrent`
  excepts such copies, which are `Ambiguous`).

Accounts that two requests add or rename at once may be equal, for nothing but the
queries before the save forbids it; a form that is posted late may change the
email, name or password of the account that has the old ones by now. The
properties of `UserProperties` say what holds nevertheless.

Two saves at once may also store two versions under one number. No document
says they may not, so this is no run; `HistoryIsOrdered` states that one request
at a time they do not, and `HistoryHasNoGaps` what remains true when they do.

## 6. Proofs

Each module rests on the assumptions on its constants alone, for the pages
`RepositoryAssumption`, `CacheAssumption`, `SearchAssumption` and `ServiceAssumption`, for any
number of threads, requests, pages, titles, tags and users:

- `PageHistory_proofs`, first `TypeCorrect == Spec => []TypeOK`. `TypeOK` is inductive:
  there is a lemma for what each call of a component does to that component,
  `StepType` and `ArriveType` combine the four parts for a step of a request,
  and each action has a case of its own.
- `PageHistory_proofs`, then `HistoryCorrect == Spec => []HistoryHasNoGaps` and
  `HistoryKept == Spec => HistoryIsKept`. `HistoryHasNoGaps` is not inductive: a
  request that has read the largest version number and not yet inserted its
  successor must know that the version it read is still there
  (`NumbersFollow`); this in turn needs that no step loses a version, and that
  needs to know of `UpdateLinksToPage`, which writes back rows it read long
  before, that those rows have changed in nothing but their links
  (`SnapshotsAgree`) and that a row is found by its id (`RowsAreNumbered`). With
  `NothingIsDeleted` and the types these make up `HistoryInv`. Three lemmas say
  what the ways to change the rows do (`RowsUnchanged`, `RowInserted`,
  `RowRewritten`), one (`RequestMoved`) what moving one request does to the
  facts about all; each action is then a case that names one of each.
- `PageProperties_proofs` follows the texts. `ServedTextsAreSaved == Spec =>
  []ServedTextsWereSaved` rests on `TextsInv`, which says of every place of a request
  what it has in its hands (`Sound`): a view model about to be cached or indexed is the
  wording of a saved version (`ViewLabels`, `AddLabels`, the lists), a page that has been
  read is the page the request is about (`PageLabels`), and a version is only added to a
  page that is there (`SaveLabels`). That a step of another request takes none of this
  away (`SoundLater`) is where `RowsAreKept`, the proof of `HistoryIsKept`, is needed.
  `PagesImplementVersions == KeepsPages => (Spec => KeepsVersions)` is the refinement:
  every step creates a page whose id is new (`PagesAreNumbered`), or saves a version that
  is numbered after one that is there and not dated later, or changes no more than
  what is shown, which `TextsInv` says was saved (`Shows`, `Creates`, `Saves`, and a
  lemma for each that maps it to `VersionedPages`). For the dates it takes `DatesInv`,
  with `TextsInv` as a part: a request that has taken its time and not yet inserted its
  version has taken it after the version it follows was dated (`Timely`), whatever
  others have stored in between.
  `ContentlessPagesMove == Spec => ContentlessPagesAreExplained` rests on `FlightInv`:
  the rows that `DeletePage` has read and goes through are of the page it deletes, and
  no row is written back under another page (`RowsStay`). So a step that leaves a page
  without content, and without a request at work on it, is the end of that request or
  the deletion of all contents.
- `PageSerial_proofs` has what is true when one request runs at a time (`Serial`), between
  two requests: six theorems, each `Spec => []P`. All but `HistoryIsOrdered` speak of a
  database that does not fail (`~DatabaseMayFail`), for a request that is cut short
  puts nothing right. Within a request hardly any of these
  properties holds: `UpdatePage` saves the page before it empties the caches, and the
  text after it. Their invariants therefore have two halves: what is not as it should
  be is what the only request is about to put right, as its label tells
  (`PageEntryIsToGo`, `ListsAreToGo`, `IndexIsToCome`, `HomeIsToGo`, `LinksAreToChange`),
  and what that request has in its hands is still so (`PageCacheKnown`, `ListsKnown`,
  `IndexKnown`, `HomeKnown`, `LinksKnown`). Each is shown for the start, for each action
  of the four groups `ReadOn`, `UpdateOn`, `WriteOn` and `Arrive`, for a restart and for a
  stutter; a case names the lemma on how the request moves (`...Moves`) and the lemma
  on what the step does to the property (`...Aside`, `...Emptied`, `...Goes`, ...).
  - `HistoryStaysOrdered` (of `HistoryIsOrdered`) from `TablesInv`: keys are handed out in
    order (`KeysInOrder`), the version a request is about to insert is larger than
    all of its page, and where a step counts on its page the page is there
    (`PageIsThere`). The other five build on it.
  - `PageCacheStaysCurrent` from `PageCacheInv`. Between removing its page from the
    cache and saving the text nobody puts the page back (`PageHasGone`).
  - `ListCacheStaysCurrent` from `ListsInv`. What `RenameTag` changes in place in a cached
    list is on its way to the step that clears the lists (`UpdateLabels`).
  - `DeletedPagesStayGone` from `GoneInv` and the two invariants of the caches: a version
    belongs to a page that is there unless `ClearPages` is at work.
  - `IndexStaysTrue` (of `IndexNamesEachPageOnce`) from `IndexInv`. The page of the only
    request may lack its document, which the request has taken out and has the right
    successor of in its hands (`IsToIndex`). A page that is there has a version to index
    (`PageHasLatest`): no exception leaves the index without it.
  - `LinksStayResolved` (of `LinksResolve`) from `outdated \/ LinksInv`: a form that is
    not up to date ends what is known of links, and any other has the titles of the
    tables when it is posted, however old it is (`UpToDate`). While a title changes, links
    lead to a title that is there or to the old one, the text to be saved included;
    the rows read at `upd:links` are all that link to the old one, and those not
    written back yet the ones that still do. The hazard is `RenameTag`, which saves
    pages as a list in the cache has them: `TitleHolds` says that the titles in it are
    those of the tables, so that it renames nothing, with links or without.

- `FileManager_proofs`, from `FolderAssumption` and `FileManagerAssumption`, for any
  number of windows, calls, folders and files. `FilesKept == Spec =>
  FilesAreDeletedByName` needs no invariant: only `DeleteFile` and `SaveAs` touch the
  files, and `SaveAs` leaves a file of every name there was (`SaveAsKeepsNames`).
  What the proof rests on is that a folder is removed by the call that refuses one
  with something in it, so that a check that has gone stale does no harm.
  `FileTypes`, `TrailsLeadToTables` and `TablesAreCurrent` (of `TypeOK`,
  `TrailLeadsToTable` and `TableIsCurrent`) follow from `FileInv`. These properties
  speak of a window at rest; `FileInv` says besides what it waits for otherwise. The
  window of a patient user has at most one call on the way, but for a dropped file,
  whose upload and listings may meet (`MayMeet`), and none while a dialog is open
  (which was then opened from the table that is there, `DialogOf`). If that
  call lists a folder, its answer completes the trail and brings rows that belong to
  the folder (`AwaitsFolder`: this is where the crumb that `folderCreated` takes off is
  accounted for); if it deletes a file, the table has just that row too many
  (`AwaitsDeletion`); if it is another, the window is in order, and its table is
  current until the call has changed the disk (`AwaitsChange`). What meets does not
  disturb: both listings are of the folder that is shown, and whichever is handled last,
  its rows are those of the disk if they are fresh. A step of the server
  for another window makes nothing fresh that was not (`WaitsDisturbed`). Lemmas on
  trails (`ChainOfChild`, `ChainOfSame`, `ChainOfCrumb`) stand for the data.
- `TextPipeline_proofs`, from `PipelineAssumption`, for any number of conversions,
  plugins, tokens and edits. `PipelineTypes` is `TypeOK`, which is inductive. For
  `PluginsAreWhole` (of `PluginsRunWhole`), `LoopsInv` says which plugins have run up
  to the place that each of the three loops has reached; for `ObjectionsStand` (of
  `ObjectionsAreKept`), `VerdictInv` says what the verdict is before and within
  `AfterParse`; for `TokensAreAllReplaced` (of `TokensAreReplaced`), `ListInv` says
  what a conversion knows of the static list as long as nobody edits the file, whoever
  else converts (from the step that reads the list it is the file's, and no bad token
  is replaced), and `TokensInv` what one that nothing has disturbed knows (every other
  token is).
- `SiteSettings_proofs`, from `SiteAssumption`, for any finite number of threads and
  any settings. `SiteInv` has the types, what a request holds at each step (`Held`),
  that a request that is alone overlaps no other (`Overlaps`), and what is known
  while it runs: which caches hold what the rows say, and which are about to be
  emptied (`MenusSound`, `PluginSound`, `PageSound`, `ViewSound`, `CopySound`). Nothing is
  known of requests that overlap; what they have spoilt is not in `sound`. Of the copy
  in the browser it says that it was sent before anything was dated that it may lack
  (`CopySound`). Cutting dates to their seconds keeps their order (`SecondsAreOrdered`),
  so such a date is a later one for the browser too, unless the copy is ambiguous. It gives
  `SettingsTypes`, `MenusStayCurrent`, `PluginSettingsStayCurrent` and the action property
  `CopiesStayCurrent` (a 304 only for a copy that is current, ambiguous ones excepted).
- `Installer_proofs`, from `InstallerAssumption`, for any number of windows, domains,
  requests and faults. `InstallInv` adds to the types that what a site that is
  installed lacks is owed by a call that is still at work (`UsersDue`, `SettingsDue`,
  also while installations overlap), that a domain which takes the site for
  installed by mistake is about to be told (`MistakesEnd`; only
  domains in which something may yet be saved count, `Live`, and a test of the
  configuration saves nothing), and what each stage of an
  installation that has run alone has left behind (`AloneInv`). It gives
  `InstallerTypes`, `InstalledIsComplete` and `AnswersAreTrue`. That a new call finds a
  free number is a lemma on finite sets.
- `UserService_proofs`, from `RequestAssumption` and `UserAssumption`. `UserTypes` holds
  for any number of threads. The other three speak of one request at a time
  (`Serial`), for any number of requests, accounts, pages and open forms:
  `AccountsStayDistinct`, `AuthorshipFollows` and the action property
  `EditUserSetsItsPassword`. `SerialInv` says what that request relies on: that what it
  has read is still so, that the names it is about to give are nobody's
  (`CheckSound`), that the rows a rename goes through bear the old name
  (`RenameSound`), that keys are unique and never used again; and of authorship, which
  rows the rename has yet to reach (`ContentsNamed`, `CreatedNamed`, `ModifiedNamed`).

Each inductive invariant was checked with TLC on a small instance before it was
proved. The proofs of `PageHistory_proofs` and `PageProperties_proofs` hold with ties of
the clock and without: `GetLatestPageContent` may answer with any row, `NumbersFollow`
needs only that it is a row of the page. So do those of `PageSerial_proofs`, but for
`HistoryStaysOrdered`, whose property excludes them.

The proofs of one request at a time changed three things. `RenameTagUnindex`: the
code changes the tags of a cached view model only after the index has let go of the
page (`PageService.cs:517`), so that an index that throws leaves the cached list
as it was; the model changed it a step earlier, and then `ListCacheIsCurrent` fails.
`IndexNamesEachPageOnce` asks for the wording of a latest version, not of all: of two
saved at the same instant one is indexed. `LinksResolve` names what it starts from: in
the pages the site has at first, links lead to pages.

With these, every invariant and action property that a passing run checks, and the
refinement of `VersionedPages`, is proved. Only model-checked is `RequestsFinish`, which
is liveness under fairness and beyond TLAPS; the runs `Cacheable` and
`Tokens` are counterexamples.

## 7. Not modelled, and what is left

Not modelled because there is no state or nothing to interleave: the markup
parsers, the HTML diff, the views, localisation, email, logging, the dependency
registry, Active Directory (read only), the exporters, and the Web API, which calls
the same services. The Screwturn importer writes version after version through
the page repository before the wiki is in use. The MongoDB and Dapper
repositories are alternative back ends of the interface that `PageRepository`
models.

Of components that are modelled in part: of the page service the reads that have
no cache (`FindByTitle`, the history list); of the page controllers import and
export; of the installer Windows authentication and the tests of connections and
folders, which change nothing; of the browser cache the home page and
attachments, which use the same two dates; of the files the Azure service, whose
every operation is one call on the storage account, and the handler that sends
attachments. The scripts of the edit and settings pages keep nothing but what is
in the form; their one hazard (the answer to an old preview coming last) is
listed in `PROJECT.json`.

Of the JavaScript and TypeScript in the repository nearly all lines are vendored
(jQuery, jQuery UI, Bootstrap, validation and upload plugins) or the bundle
`roadkill.js`, which is generated from these and Roadkill's own scripts. The own
scripts are under two thousand lines, of which the file manager and the
installer, the ones with calls that overlap, are modelled. The server, which is
the subject of the other modules, is C#. A share of the JavaScript alone therefore
stays small whatever is modelled.

The plan is carried out: the six specifications are written and what they promise is
proved. What is left is to state more of overlapping requests: how long a stale entry
of a cache may live when requests overlap, where now only its wording is known
(`ServedTextsWereSaved`), and which of two renamings at once leaves a link to a
title that is gone (section 5, `PageService.cs:590`).
