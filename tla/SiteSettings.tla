----------------------------- MODULE SiteSettings -----------------------------
(***************************************************************************)
(* The settings of the site and of a text plugin, with everything that is  *)
(* made from them: the menus in SiteCache, the plugin's settings in        *)
(* SiteCache, the converted page in PageViewModelCache, and the copy of    *)
(* the page that a visitor's browser keeps (BrowserCacheAttribute).        *)
(*                                                                         *)
(* Requests run side by side; each step is one call to the database or to  *)
(* a cache.  Caches are only filled where there is nothing, and emptied    *)
(* when something is saved: what was read before the saving may be put     *)
(* there after the emptying.  The settings of a plugin are worse off: the  *)
(* cache holds an object that all requests share, and saving changes that  *)
(* object first.                                                           *)
(*                                                                         *)
(* There is one plugin, one page and one browser; editing the page is here *)
(* for its two dates only (PageWrites has the whole of it).  The clock     *)
(* ticks on its own, several times a second: dates may be equal, and those *)
(* that are sent to a browser lose all but the whole seconds.  The server  *)
(* is one whose local time is UTC, for elsewhere the date of a plugin is   *)
(* sent to the browser shifted, and fewer answers are a 304.               *)
(***************************************************************************)
EXTENDS Naturals, FiniteSets, TLC

CONSTANTS
    Threads,      \* requests that run at the same time
    MaxRequests,  \* how many requests there are (a bound)
    MaxFaults,    \* how many calls to the database fail (a bound)
    Ops,          \* the kinds of requests there are
    Menus,        \* menu markups
    Kinds,        \* kinds of users: "visitor", "editor", "admin"
    TicksPerSecond,
    LastTick      \* when the clock stops (a bound)

ASSUME SiteAssumption ==
    /\ {MaxRequests, MaxFaults, LastTick} \subseteq Nat
    /\ TicksPerSecond \in Nat \ {0}
    /\ Ops \subseteq {"savesettings", "editplugin", "clearcache", "savepage", "view"}
    /\ Menus # {} /\ IsFiniteSet(Threads)
    /\ Kinds \subseteq {"visitor", "editor", "admin"}

VARIABLES
    settings,     \* the row of the site's settings
    plugin,       \* the row of the plugin's settings, if there is one
    page,         \* the page and its latest version
    menus,        \* SiteCache: the menu of each kind of user
    cachedPlugin, \* SiteCache: which object holds the plugin's settings
    objects,      \* the objects of plugin settings in memory
    cachedPage,   \* PageViewModelCache
    copy,         \* what the browser keeps
    clock,
    rq,           \* what each request is at, and what it holds
    begun, faults,\* counters for the bounds
    sound         \* what is as it should be by now (in no code)

rows == <<settings, plugin, page>>
caches == <<menus, cachedPlugin, objects, cachedPage>>
vars == <<rows, caches, copy, clock, rq, begun, faults, sound>>

None == "none"
Values == {"on", "off"}
Default == "off"
Dates == Nat

Objects == 1..(Cardinality(Threads) + 1)

Row == [menu : Menus, date : Dates]
NoRow == [menu |-> CHOOSE m \in Menus : TRUE, date |-> 0]

(* The text of a page is told by how many there have been. *)
Page == [text : Nat, modified : Dates]
NoPage == [text |-> 0, modified |-> 0]

ViewModel == [text : Nat, modified : Dates, plugin : Values]
NoModel == [text |-> 0, modified |-> 0, plugin |-> Default]

(* What the browser has been sent, its Last-Modified, and when it was sent *)
(* (which the code tells by Expires).                                      *)
Copy == [text : Nat, plugin : Values, menu : Menus \cup {None}, lastModified : Dates,
         sent : Dates]
NoCopy == [text |-> 0, plugin |-> Default, menu |-> None, lastModified |-> 0, sent |-> 0]

Idle == [op |-> None, pc |-> "idle", alone |-> FALSE, kind |-> None, form |-> None,
         obj |-> 0, row |-> NoRow, read |-> NoPage, vm |-> NoModel, body |-> NoModel,
         menu |-> None, since |-> 0]

Steps == {"idle", "save:row", "save:menus", "plugin:get", "plugin:load", "plugin:first",
          "plugin:cache", "edit:set", "edit:read", "edit:date", "edit:save",
          "edit:uncache", "edit:pages", "clear:pages", "clear:site", "page:row",
          "page:uncache", "page:text", "view:row", "view:page", "view:load",
          "view:convert", "view:add", "view:menu", "view:addmenu", "view:again",
          "view:answer"}

Request == [op : Ops \cup {None}, pc : Steps, alone : BOOLEAN, kind : Kinds \cup {None},
            form : Menus \cup Values \cup {None}, obj : Objects \cup {0}, row : Row,
            read : Page, vm : ViewModel, body : ViewModel, menu : Menus \cup {None},
            since : Dates]

Parts == {"menus", "plugin", "page", "copy"}

TypeOK ==
    /\ settings \in Row /\ plugin \in Values \cup {None} /\ page \in Page
    /\ menus \in [Kinds -> Menus \cup {None}]
    /\ cachedPlugin \in Objects \cup {0} /\ objects \in [Objects -> Values]
    /\ cachedPage \in ViewModel /\ copy \in Copy /\ clock \in Dates
    /\ rq \in [Threads -> Request]
    /\ begun \in 0..MaxRequests /\ faults \in 0..MaxFaults
    /\ sound \subseteq Parts

NoMenus == [k \in Kinds |-> None]

(* The process has just started; or a visitor, the first one of all, has   *)
(* seen the page since.                                                    *)
NothingCached ==
    /\ plugin = None /\ menus = NoMenus /\ cachedPlugin = 0
    /\ cachedPage = NoModel /\ copy = NoCopy

PageSeen ==
    /\ "visitor" \in Kinds
    /\ plugin = Default /\ cachedPlugin = 1
    /\ menus = [NoMenus EXCEPT !["visitor"] = settings.menu]
    /\ cachedPage = [text |-> 1, modified |-> page.modified, plugin |-> Default]
    /\ copy = [text |-> 1, plugin |-> Default, menu |-> settings.menu,
               lastModified |-> settings.date, sent |-> clock]

(* No date is of the first second, DateTime.MinValue: the settings are of  *)
(* the next, and the page of the one after, which has just begun.          *)
Init ==
    /\ settings \in [menu : Menus, date : {TicksPerSecond}]
    /\ page = [text |-> 1, modified |-> TicksPerSecond + TicksPerSecond]
    /\ clock = page.modified
    /\ NothingCached \/ PageSeen
    /\ objects = [o \in Objects |-> Default]
    /\ rq = [t \in Threads |-> Idle]
    /\ begun = 0 /\ faults = 0
    /\ sound = Parts

-----------------------------------------------------------------------------
(* Requests. *)

At(t, pc) == rq[t].pc = pc

Go(t, r, pc) == rq' = [rq EXCEPT ![t] = [r EXCEPT !.pc = pc]] /\ UNCHANGED sound

(* A request that ran alone puts in order what it saves or empties.  What  *)
(* "sound" says holds as long as no two requests overlap, and no call of a *)
(* request that changes a plugin fails.                                    *)
End(t, parts) ==
    /\ rq' = [rq EXCEPT ![t] = Idle]
    /\ sound' = IF rq[t].alone THEN sound \cup parts ELSE sound

(* The clock is read some time before what is dated by it is saved, but    *)
(* after the request's step before that.                                   *)
Taken(t) == rq[t].since..clock

Tick ==
    /\ clock < LastTick /\ clock' = clock + 1
    /\ UNCHANGED <<rows, caches, copy, rq, begun, faults, sound>>

Begin(t, r, pc) ==
    LET alone == \A u \in Threads : At(u, "idle")
    IN /\ At(t, "idle") /\ r.op \in Ops
       /\ begun < MaxRequests /\ begun' = begun + 1
       /\ rq' = [u \in Threads |->
                   IF u = t THEN [r EXCEPT !.pc = pc, !.alone = alone]
                   ELSE [rq[u] EXCEPT !.alone = FALSE]]
       /\ sound' = IF alone THEN sound ELSE {}
       /\ UNCHANGED <<rows, caches, copy, clock, faults>>

Step(t) == UNCHANGED <<copy, clock, begun, faults>>

(* The database throws: the answer is an error, and what the request has   *)
(* done is not undone.  Only the requests that change a plugin's settings, *)
(* which do so in memory first, are made to fail.                          *)
DatabaseThrows(t) ==
    /\ rq[t].pc \in {"edit:read", "edit:date", "edit:save"}
    /\ faults < MaxFaults /\ faults' = faults + 1
    /\ rq' = [rq EXCEPT ![t] = Idle] /\ sound' = {}
    /\ UNCHANGED <<rows, caches, copy, clock, begun>>

-----------------------------------------------------------------------------
(* SettingsController.Index (POST).  It saves the configuration file       *)
(* first, which has settings of its own and is taken to stay as it is: a   *)
(* change of it restarts the process (Installer), which empties the        *)
(* caches.                                                                 *)

BeginSaveSettings(t) ==
    \E m \in Menus :
       Begin(t, [Idle EXCEPT !.op = "savesettings", !.form = m, !.since = clock],
             "save:row")

(* SaveSiteSettings takes no date from its caller: each new SiteSettings   *)
(* has that of its making, as PluginLastSaveDate.                          *)
SaveSiteSettings(t, menu) ==
    \E now \in Taken(t) : settings' = [menu |-> menu, date |-> now]

SaveRow(t) ==
    /\ At(t, "save:row")
    /\ SaveSiteSettings(t, rq[t].form)
    /\ Go(t, [rq[t] EXCEPT !.since = 0], "save:menus")
    /\ UNCHANGED <<plugin, page, caches>>

(* A slip: only the menu of the user who saves, an administrator. *)
RemoveAdminMenu ==
    /\ menus' = [k \in Kinds |-> IF k = "admin" THEN None ELSE menus[k]]
    /\ UNCHANGED <<cachedPlugin, objects, cachedPage>>

RemoveMenuCacheItems ==
    /\ menus' = NoMenus
    /\ UNCHANGED <<cachedPlugin, objects, cachedPage>>

SaveMenus(t) ==
    /\ At(t, "save:menus")
    /\ RemoveMenuCacheItems
    /\ End(t, {"menus"} \cup (IF {"plugin", "page"} \subseteq sound THEN {"copy"} ELSE {}))
    /\ UNCHANGED <<rows>>

SaveSettings(t) == SaveRow(t) \/ SaveMenus(t)

-----------------------------------------------------------------------------
(* TextPlugin.EnsureSettings: a new instance of the plugin finds its       *)
(* settings in the cache, loads them, or makes and saves the defaults.     *)

Get(t, next) ==
    /\ At(t, "plugin:get")
    /\ IF cachedPlugin # 0
       THEN Go(t, [rq[t] EXCEPT !.obj = cachedPlugin], next)
       ELSE Go(t, rq[t], "plugin:load")
    /\ UNCHANGED <<rows, caches>>

Free(o) == o # cachedPlugin /\ \A u \in Threads : rq[u].obj # o

NewObject == CHOOSE o \in Objects : Free(o)

Load(t) ==
    /\ At(t, "plugin:load")
    /\ objects' = [objects EXCEPT ![NewObject] = IF plugin = None THEN Default ELSE plugin]
    /\ Go(t, [rq[t] EXCEPT !.obj = NewObject],
          IF plugin = None THEN "plugin:first" ELSE "plugin:cache")
    /\ UNCHANGED <<rows, menus, cachedPlugin, cachedPage>>

SaveTextPluginSettings(t) ==
    /\ plugin' = objects[rq[t].obj]
    /\ UNCHANGED <<settings, page>>

First(t) ==
    /\ At(t, "plugin:first")
    /\ SaveTextPluginSettings(t)
    /\ Go(t, rq[t], "plugin:cache")
    /\ UNCHANGED <<caches>>

UpdatePluginSettings(t, next) ==
    /\ At(t, "plugin:cache")
    /\ cachedPlugin' = rq[t].obj
    /\ Go(t, rq[t], next)
    /\ UNCHANGED <<rows, menus, objects, cachedPage>>

EnsureSettings(t) ==
    LET next == IF rq[t].op = "view" THEN "view:convert" ELSE "edit:set"
    IN Get(t, next) \/ Load(t) \/ First(t) \/ UpdatePluginSettings(t, next)

-----------------------------------------------------------------------------
(* PluginSettingsController.Edit (POST). *)

BeginEditPlugin(t) ==
    \E v \in Values :
       Begin(t, [Idle EXCEPT !.op = "editplugin", !.form = v], "plugin:get")

EditSet(t) ==
    /\ At(t, "edit:set")
    /\ objects' = [objects EXCEPT ![rq[t].obj] = rq[t].form]
    /\ Go(t, rq[t], "edit:read")
    /\ UNCHANGED <<rows, menus, cachedPlugin, cachedPage>>

EditRead(t) ==
    /\ At(t, "edit:read")
    /\ Go(t, [rq[t] EXCEPT !.row = settings, !.since = clock], "edit:date")
    /\ UNCHANGED <<rows, caches>>

(* A slip: the row is saved as it was read, with the date it had. *)
EditDateAsRead(t) ==
    /\ At(t, "edit:date")
    /\ settings' = rq[t].row
    /\ Go(t, [rq[t] EXCEPT !.since = 0], "edit:save")
    /\ UNCHANGED <<plugin, page, caches>>

(* A slip: new settings are saved, that have nothing but their date. *)
EditDateOfNewSettings(t) ==
    /\ At(t, "edit:date")
    /\ SaveSiteSettings(t, None)
    /\ Go(t, [rq[t] EXCEPT !.since = 0], "edit:save")
    /\ UNCHANGED <<plugin, page, caches>>

EditDate(t) ==
    /\ At(t, "edit:date")
    /\ SaveSiteSettings(t, rq[t].row.menu)
    /\ Go(t, [rq[t] EXCEPT !.since = 0], "edit:save")
    /\ UNCHANGED <<plugin, page, caches>>

EditSave(t) ==
    /\ At(t, "edit:save")
    /\ SaveTextPluginSettings(t)
    /\ Go(t, rq[t], "edit:uncache")
    /\ UNCHANGED <<caches>>

EditUncache(t) ==
    /\ At(t, "edit:uncache")
    /\ cachedPlugin' = 0
    /\ Go(t, rq[t], "edit:pages")
    /\ UNCHANGED <<rows, menus, objects, cachedPage>>

EditPages(t) ==
    /\ At(t, "edit:pages")
    /\ cachedPage' = NoModel
    /\ End(t, {"plugin", "page"} \cup (IF "menus" \in sound THEN {"copy"} ELSE {}))
    /\ UNCHANGED <<rows, menus, cachedPlugin, objects>>

EditPlugin(t) ==
    \/ EditSet(t) \/ EditRead(t) \/ EditDate(t) \/ EditSave(t)
    \/ EditUncache(t) \/ EditPages(t)

-----------------------------------------------------------------------------
(* CacheController.Clear. *)

BeginClearCache(t) == Begin(t, [Idle EXCEPT !.op = "clearcache"], "clear:pages")

ClearPages(t) ==
    /\ At(t, "clear:pages")
    /\ cachedPage' = NoModel
    /\ Go(t, rq[t], "clear:site")
    /\ UNCHANGED <<rows, menus, cachedPlugin, objects>>

(* A slip: the settings of the plugin stay. *)
ClearSiteMenus(t) ==
    /\ At(t, "clear:site")
    /\ menus' = NoMenus /\ UNCHANGED cachedPlugin
    /\ End(t, {"menus", "plugin", "page"})
    /\ UNCHANGED <<rows, objects, cachedPage>>

ClearSite(t) ==
    /\ At(t, "clear:site")
    /\ menus' = NoMenus /\ cachedPlugin' = 0
    /\ End(t, {"menus", "plugin", "page"})
    /\ UNCHANGED <<rows, objects, cachedPage>>

ClearCache(t) == ClearPages(t) \/ ClearSite(t)

-----------------------------------------------------------------------------
(* PageService.UpdatePage: the row, the cache, the new version. *)

BeginSavePage(t) ==
    Begin(t, [Idle EXCEPT !.op = "savepage", !.since = clock], "page:row")

PageRow(t) ==
    /\ At(t, "page:row")
    /\ \E now \in Taken(t) : page' = [page EXCEPT !.modified = now]
    /\ Go(t, [rq[t] EXCEPT !.since = 0], "page:uncache")
    /\ UNCHANGED <<settings, plugin, caches>>

PageUncache(t) ==
    /\ At(t, "page:uncache")
    /\ cachedPage' = NoModel
    /\ Go(t, [rq[t] EXCEPT !.since = clock], "page:text")
    /\ UNCHANGED <<rows, menus, cachedPlugin, objects>>

PageText(t) ==
    /\ At(t, "page:text")
    /\ \E now \in Taken(t) : page' = [text |-> page.text + 1, modified |-> now]
    /\ End(t, {})
    /\ UNCHANGED <<settings, plugin, caches>>

SavePage(t) == PageRow(t) \/ PageUncache(t) \/ PageText(t)

-----------------------------------------------------------------------------
(* WikiController.Index, its layout, and the filter after it.              *)

(* The browser waits for one page before it asks again. *)
BeginView(t) ==
    \E k \in Kinds :
       /\ k = "visitor" => \A u \in Threads : rq[u].kind # "visitor"
       /\ Begin(t, [Idle EXCEPT !.op = "view", !.kind = k], "view:row")

(* The constructor of MarkupConverter reads the settings, to know which    *)
(* markup there is; the request's unit of work has the row from then on.   *)
ViewRow(t) ==
    /\ At(t, "view:row")
    /\ Go(t, [rq[t] EXCEPT !.row = settings], "view:page")
    /\ UNCHANGED <<rows, caches>>

(* PageService.GetById is called by the action and by the filter; the      *)
(* first model is shown, the second dates it.                              *)
Found(t, vm) ==
    IF rq[t].body = NoModel
    THEN Go(t, [rq[t] EXCEPT !.vm = vm, !.body = vm], "view:menu")
    ELSE Go(t, [rq[t] EXCEPT !.vm = vm], "view:answer")

ViewPage(t) ==
    /\ At(t, "view:page") \/ At(t, "view:again")
    /\ IF cachedPage # NoModel THEN Found(t, cachedPage) ELSE Go(t, rq[t], "view:load")
    /\ UNCHANGED <<rows, caches>>

(* A page that the request has read is not read again. *)
ViewLoad(t) ==
    /\ At(t, "view:load")
    /\ Go(t, [rq[t] EXCEPT !.read = IF @ = NoPage THEN page ELSE @], "plugin:get")
    /\ UNCHANGED <<rows, caches>>

(* The plugin's settings are read once here; TextPipeline has the loops of  *)
(* the conversion, each of which reads them anew.                          *)
ViewConvert(t) ==
    /\ At(t, "view:convert")
    /\ Go(t, [rq[t] EXCEPT !.vm = [text |-> rq[t].read.text, modified |-> rq[t].read.modified,
                                   plugin |-> objects[rq[t].obj]],
                           !.obj = 0], "view:add")
    /\ UNCHANGED <<rows, caches>>

ViewAdd(t) ==
    /\ At(t, "view:add")
    /\ cachedPage' = IF cachedPage = NoModel THEN rq[t].vm ELSE cachedPage
    /\ Found(t, rq[t].vm)
    /\ UNCHANGED <<rows, menus, cachedPlugin, objects>>

(* What follows the menu: only visitors' pages are for the browser to keep. *)
ViewShown(t, menu) ==
    IF rq[t].kind = "visitor"
    THEN Go(t, [rq[t] EXCEPT !.menu = menu], "view:again")
    ELSE End(t, {})

ViewMenu(t) ==
    /\ At(t, "view:menu")
    /\ IF menus[rq[t].kind] # None
       THEN ViewShown(t, menus[rq[t].kind])
       ELSE Go(t, [rq[t] EXCEPT !.menu = rq[t].row.menu], "view:addmenu")
    /\ UNCHANGED <<rows, caches>>

ViewAddMenu(t) ==
    /\ At(t, "view:addmenu")
    /\ menus' = [menus EXCEPT ![rq[t].kind] = IF @ = None THEN rq[t].menu ELSE @]
    /\ ViewShown(t, rq[t].menu)
    /\ UNCHANGED <<rows, cachedPlugin, objects, cachedPage>>

-----------------------------------------------------------------------------
(* BrowserCacheAttribute.OnResultExecuted: the later of the two dates is   *)
(* the one the browser gets, and a 304 if it has just that one.  A date is *)
(* cut to its second when it is sent, and before it is compared with what  *)
(* the browser sends back; that of the page is not, where it is compared   *)
(* with that of the settings.                                              *)

Second(date) == date - (date % TicksPerSecond)

LastModified(t) ==
    LET saved == Second(rq[t].row.date)
    IN IF saved > copy.lastModified \/ rq[t].vm.modified <= saved
       THEN saved ELSE Second(rq[t].vm.modified)

NotModified(t) ==
    /\ copy.lastModified # 0
    /\ Second(rq[t].row.date) <= copy.lastModified
    /\ LastModified(t) = copy.lastModified

ViewAnswer(t) ==
    /\ At(t, "view:answer")
    /\ copy' = IF NotModified(t) THEN copy
               ELSE [text |-> rq[t].body.text, plugin |-> rq[t].body.plugin,
                     menu |-> rq[t].menu, lastModified |-> LastModified(t), sent |-> clock]
    /\ End(t, {})
    /\ UNCHANGED <<rows, caches, clock, begun, faults>>

View(t) ==
    \/ ViewRow(t) \/ ViewPage(t) \/ ViewLoad(t) \/ ViewConvert(t) \/ ViewAdd(t)
    \/ ViewMenu(t) \/ ViewAddMenu(t)

Starts(t) ==
    \/ BeginSaveSettings(t) \/ BeginEditPlugin(t) \/ BeginClearCache(t)
    \/ BeginSavePage(t) \/ BeginView(t)

Finished == begun = MaxRequests /\ (\A t \in Threads : At(t, "idle")) /\ UNCHANGED vars

Next ==
    \/ \E t \in Threads :
         \/ Starts(t) \/ ViewAnswer(t) \/ DatabaseThrows(t)
         \/ /\ SaveSettings(t) \/ EnsureSettings(t) \/ EditPlugin(t)
               \/ ClearCache(t) \/ SavePage(t) \/ View(t)
            /\ Step(t)
    \/ Tick
    \/ Finished

Spec == Init /\ [][Next]_vars

=============================================================================
