-------------------------- MODULE SiteSettings_proofs --------------------------
(***************************************************************************)
(* Proofs about the settings of the site and of a plugin: the types, and   *)
(* that what is made from the settings is as SiteProperties expects.       *)
(*                                                                         *)
(* The inductive invariant says what is known while one request runs       *)
(* alone, whatever was left by requests that overlapped before it: Sound   *)
(* holds of the request that is alone, and of Idle when there is none.     *)
(***************************************************************************)
EXTENDS SiteProperties, FiniteSetTheorems, TLAPS

PluginSteps == {"plugin:get", "plugin:load", "plugin:first", "plugin:cache"}

(* The steps at which the request has an object of plugin settings.        *)
HasObject == {"plugin:first", "plugin:cache", "edit:set", "edit:read", "edit:date",
              "edit:save", "view:convert"}

ViewSteps == {"view:row", "view:page", "view:load", "view:convert", "view:add", "view:menu",
              "view:addmenu", "view:again", "view:answer"}

(* The steps that date what they save.                                     *)
DateSteps == {"save:row", "edit:date", "page:row", "page:text"}

(* What a request holds at each step, and that its dates are of the past.  *)
Held(r) ==
    /\ r \in Request
    /\ r.pc = "idle" => r = Idle
    /\ r.pc = "save:row" => r.form \in Menus
    /\ r.pc \in PluginSteps => r.op \in {"view", "editplugin"}
    /\ r.op = "editplugin" => r.form \in Values
    /\ r.pc \in {"edit:set", "edit:read", "edit:date", "edit:save"} => r.op = "editplugin"
    /\ r.pc \in HasObject => r.obj \in Objects
    /\ r.pc \in {"plugin:get", "plugin:load"} \cup (ViewSteps \ {"view:convert"}) => r.obj = 0
    /\ r.pc \in ViewSteps => r.op = "view"
    /\ r.op = "view" => r.pc \in ViewSteps \cup PluginSteps /\ r.kind \in Kinds
    /\ r.row.date <= clock /\ r.read.modified <= clock /\ r.vm.modified <= clock
    /\ r.pc \in DateSteps => r.since \in 1..clock

State ==
    /\ settings \in Row /\ settings.date <= clock
    /\ plugin \in Values \cup {None}
    /\ page \in Page /\ page.modified \in 1..clock
    /\ menus \in [Kinds -> Menus \cup {None}]
    /\ cachedPlugin \in Objects \cup {0} /\ objects \in [Objects -> Values]
    /\ cachedPage \in ViewModel /\ cachedPage.modified <= clock
    /\ copy \in Copy /\ copy.sent <= clock
    /\ clock \in Nat
    /\ begun \in 0..MaxRequests /\ faults \in 0..MaxFaults
    /\ sound \subseteq Parts

(* A request that is alone overlaps no other.  Of those that overlap,      *)
(* nothing is known.                                                       *)
Overlaps ==
    /\ \A t \in Threads : rq[t].alone => \A u \in Threads : u # t => At(u, "idle")
    /\ sound # {} => \A t \in Threads : At(t, "idle") \/ rq[t].alone

(* The settings that a page is shown with are read at its start; those     *)
(* that a plugin's new date is saved with, just before.                    *)
MenusSound(r) ==
    /\ r.pc = "edit:date" \/ (r.op = "view" /\ r.pc # "view:row") => r.row = settings
    /\ r.pc = "view:addmenu" => r.menu = settings.menu
    /\ "menus" \in sound /\ r.pc # "save:menus" =>
          \A k \in Kinds : menus[k] \in {None, settings.menu}

(* Nobody caches the settings of the plugin but after having found none.   *)
(* They differ from the row between the change of the object and the       *)
(* emptying of the cache.                                                  *)
PluginSound(r) ==
    /\ r.pc \in {"plugin:load", "plugin:first", "plugin:cache", "edit:pages"} => cachedPlugin = 0
    /\ r.pc = "plugin:first" => plugin = None
    /\ r.pc = "plugin:cache" => objects[r.obj] = plugin
    /\ "plugin" \in sound /\ r.pc \notin {"edit:read", "edit:date", "edit:save", "edit:uncache"} =>
          cachedPlugin = 0 \/ objects[cachedPlugin] = plugin

Shows(m) == m.text = page.text /\ m.modified = page.modified /\ m.plugin = plugin

(* The cached page, and what a request that shows the page has of it.      *)
PageSound(r) ==
    /\ "page" \in sound <=> "plugin" \in sound
    /\ r.pc \in {"page:text", "clear:site"} => cachedPage = NoModel
    /\ "page" \in sound /\ r.pc \notin {"page:uncache", "edit:uncache", "edit:pages"} =>
          cachedPage = NoModel \/ Shows(cachedPage)

ViewSound(r) ==
    r.op = "view" =>
       /\ r.read \in {NoPage, page}
       /\ r.pc \in PluginSteps \cup {"view:convert", "view:add"} => r.read = page
       /\ r.pc \in {"view:row", "view:page"} => r.body = NoModel
       /\ "page" \in sound =>
             /\ r.pc = "view:convert" => objects[r.obj] = plugin
             /\ r.pc \in {"view:add", "view:answer"} => Shows(r.vm)
             /\ r.body = NoModel \/ Shows(r.body)
             /\ r.pc \in {"view:menu", "view:addmenu", "view:again", "view:answer"} => Shows(r.body)
       /\ sound = Parts /\ r.body # NoModel /\ r.pc \notin {"view:menu", "view:addmenu"} =>
             r.menu = settings.menu

(* A copy was sent before anything was dated that it may lack.  One that   *)
(* is not of the second it was sent in, and as new as the settings, has    *)
(* been made with them and with the plugin's, and if it is as new as the   *)
(* page, of this page.                                                     *)
CopySound(r) ==
    /\ "copy" \in sound => sound = Parts
    /\ r.pc \in DateSteps => copy.sent <= r.since
    /\ r.pc \in {"save:menus", "edit:save", "edit:uncache", "edit:pages"} =>
          copy.sent <= settings.date
    /\ /\ "copy" \in sound
       /\ copy.lastModified < Second(copy.sent) /\ Second(settings.date) <= copy.lastModified
       => /\ copy.menu = settings.menu /\ copy.plugin = plugin
          /\ Second(page.modified) <= copy.lastModified => copy.text = page.text

Sound(r) == MenusSound(r) /\ PluginSound(r) /\ PageSound(r) /\ ViewSound(r) /\ CopySound(r)

SiteInv ==
    /\ State
    /\ rq \in [Threads -> Request]
    /\ \A t \in Threads : Held(rq[t])
    /\ Overlaps
    /\ \A t \in Threads : rq[t].alone => Sound(rq[t])
    /\ Quiet => Sound(Idle)

-----------------------------------------------------------------------------
(* A later date is not of an earlier second.                               *)

LEMMA SecondBegins ==
    ASSUME NEW d \in Nat
    PROVE  /\ Second(d) \in Nat /\ Second(d) <= d
           /\ \E k \in Nat : Second(d) = k * TicksPerSecond /\ d < (k + 1) * TicksPerSecond
  <1>1. /\ TicksPerSecond \in Nat \ {0}
        /\ d % TicksPerSecond \in 0..(TicksPerSecond - 1) /\ d \div TicksPerSecond \in Nat
        /\ d = TicksPerSecond * (d \div TicksPerSecond) + (d % TicksPerSecond)
    BY SiteAssumption
  <1>2. PICK k \in Nat : k = d \div TicksPerSecond
    BY <1>1
  <1>3. /\ k * TicksPerSecond = TicksPerSecond * k /\ k * TicksPerSecond \in Nat
        /\ (k + 1) * TicksPerSecond = k * TicksPerSecond + TicksPerSecond
    BY <1>1
  <1>4. Second(d) = k * TicksPerSecond /\ d < (k + 1) * TicksPerSecond
    BY <1>1, <1>2, <1>3 DEF Second
  <1>5. Second(d) \in Nat /\ Second(d) <= d
    <2>1. d % TicksPerSecond \in Nat
      BY <1>1
    <2> QED
      BY <1>3, <1>4, <2>1 DEF Second
  <1> QED
    BY <1>4, <1>5

LEMMA MoreSeconds ==
    ASSUME NEW j \in Nat, NEW k \in Nat, j <= k
    PROVE  j * TicksPerSecond <= k * TicksPerSecond
  <1>1. PICK n \in Nat : n = k - j
    OBVIOUS
  <1>2. k = j + n /\ TicksPerSecond \in Nat
    BY <1>1, SiteAssumption
  <1>3. /\ (j + n) * TicksPerSecond = j * TicksPerSecond + n * TicksPerSecond
        /\ n * TicksPerSecond \in Nat /\ j * TicksPerSecond \in Nat
    BY <1>2
  <1> QED
    BY <1>2, <1>3

LEMMA SecondsAreOrdered ==
    ASSUME NEW a \in Nat, NEW b \in Nat, a <= b
    PROVE  Second(a) \in Nat /\ Second(b) \in Nat /\ Second(a) <= Second(b) /\ Second(a) <= a
  <1>1. PICK j \in Nat : Second(a) = j * TicksPerSecond
    BY SecondBegins
  <1>2. PICK k \in Nat : Second(b) = k * TicksPerSecond /\ b < (k + 1) * TicksPerSecond
    BY SecondBegins
  <1>3. Second(a) \in Nat /\ Second(a) <= a /\ Second(b) \in Nat
    BY SecondBegins
  <1>4. CASE j <= k
    BY <1>1, <1>2, <1>3, <1>4, MoreSeconds
  <1>5. CASE k + 1 <= j
    <2>1. (k + 1) * TicksPerSecond <= j * TicksPerSecond
      BY <1>5, MoreSeconds
    <2>2. (k + 1) * TicksPerSecond \in Nat /\ j * TicksPerSecond \in Nat
      BY SiteAssumption
    <2> QED
      BY <1>1, <1>2, <1>3, <2>1, <2>2
  <1> QED
    BY <1>4, <1>5

-----------------------------------------------------------------------------
(* A step of a request that goes on, and its last one.  Of the others only *)
(* those that are idle matter: where one is alone, all of them are.        *)

(* A thread is in a single step, whatever has changed of the rest.         *)
LEMMA HeldLater ==
    ASSUME NEW r, Held(r), clock \in Nat, clock' \in Nat, clock <= clock'
    PROVE  Held(r)'
  <1>1. /\ r.row.date \in Nat /\ r.read.modified \in Nat /\ r.vm.modified \in Nat
    BY DEF Held, Request, Row, Page, ViewModel, Dates
  <1>2. /\ r.row.date <= clock' /\ r.read.modified <= clock' /\ r.vm.modified <= clock'
        /\ r.pc \in DateSteps => r.since \in 1..clock'
    BY <1>1 DEF Held
  <1> QED
    BY <1>2 DEF Held

LEMMA Moved ==
    ASSUME SiteInv, State', NEW t \in Threads, NEW r2, rq' = [rq EXCEPT ![t] = r2],
           clock <= clock', rq[t].pc # "idle", r2.pc # "idle", Held(r2)',
           r2.alone = rq[t].alone, sound' = sound,
           rq[t].alone => Sound(r2)'
    PROVE  SiteInv'
  <1>1. /\ rq \in [Threads -> Request] /\ clock \in Nat /\ clock' \in Nat
        /\ r2 \in Request
    BY DEF SiteInv, State, Held
  <1>2. \A u \in Threads : rq'[u] = IF u = t THEN r2 ELSE rq[u]
    BY <1>1
  <1>3. rq' \in [Threads -> Request]
    BY <1>1
  <1>4. \A u \in Threads : Held(rq[u])'
    <2> TAKE u \in Threads
    <2>1. Held(rq[u])
      BY DEF SiteInv
    <2>2. CASE u = t
      BY <1>2, <2>2 DEF Held
    <2>3. CASE u # t
      <3>1. PICK r : r = rq[u] /\ r = rq'[u]
        BY <1>2, <2>3
      <3>2. Held(r)'
        BY <1>1, <2>1, <3>1, HeldLater
      <3> QED
        BY <3>1, <3>2 DEF Held
    <2> QED
      BY <2>2, <2>3
  <1>5. Overlaps'
    BY <1>2 DEF SiteInv, Overlaps, At
  <1>6. \A u \in Threads : rq'[u].alone => Sound(rq[u])'
    <2> SUFFICES ASSUME NEW u \in Threads, rq'[u].alone PROVE Sound(rq[u])'
      OBVIOUS
    <2>1. u = t
      BY <1>2 DEF SiteInv, Overlaps, At
    <2>2. rq'[u] = r2 /\ Sound(r2)'
      BY <1>2, <2>1
    <2> QED
      BY <2>2 DEF Sound, MenusSound, PluginSound, PageSound, ViewSound, CopySound, Shows
  <1>7. ~Quiet'
    BY <1>2 DEF Quiet, At
  <1> QED
    BY <1>3, <1>4, <1>5, <1>6, <1>7 DEF SiteInv

LEMMA IdleHeld == ASSUME State PROVE Held(Idle) /\ ~Idle.alone /\ Idle.pc = "idle"
  <1>1. NoRow \in Row /\ NoRow.date = 0
    BY SiteAssumption DEF NoRow, Row, Dates
  <1>2. NoPage \in Page /\ NoModel \in ViewModel /\ NoPage.modified = 0 /\ NoModel.modified = 0
    BY DEF NoPage, Page, NoModel, ViewModel, Dates, Values, Default
  <1>3. clock \in Nat
    BY DEF State
  <1>4. Idle \in Request
    BY <1>1, <1>2 DEF Idle, Request, Steps, Dates
  <1>5. /\ Idle.pc = "idle" /\ Idle.op = None /\ ~Idle.alone
        /\ Idle.row = NoRow /\ Idle.read = NoPage /\ Idle.vm = NoModel
    BY DEF Idle
  <1> QED
    BY <1>1, <1>2, <1>3, <1>4, <1>5 DEF Held, PluginSteps, HasObject, ViewSteps, DateSteps, None

LEMMA Ended ==
    ASSUME SiteInv, State', NEW t \in Threads, rq' = [rq EXCEPT ![t] = Idle],
           clock <= clock', rq[t].pc # "idle",
           \/ sound' = {}
           \/ ~rq[t].alone /\ sound' = sound
           \/ rq[t].alone,
           rq[t].alone => Sound(Idle)',
           sound' = {} => Sound(Idle)'
    PROVE  SiteInv'
  <1>1. rq \in [Threads -> Request] /\ clock \in Nat /\ clock' \in Nat
    BY DEF SiteInv, State
  <1>2. \A u \in Threads : rq'[u] = IF u = t THEN Idle ELSE rq[u]
    BY <1>1
  <1>3. Held(Idle)' /\ ~Idle.alone /\ Idle.pc = "idle" /\ Idle \in Request
    BY IdleHeld, <1>1, HeldLater DEF SiteInv, Held
  <1>4. rq' \in [Threads -> Request]
    BY <1>1, <1>3
  <1>5. \A u \in Threads : Held(rq[u])'
    <2> TAKE u \in Threads
    <2>1. Held(rq[u])
      BY DEF SiteInv
    <2>2. CASE u = t
      BY <1>2, <1>3, <2>2 DEF Held
    <2>3. CASE u # t
      <3>1. PICK r : r = rq[u] /\ r = rq'[u]
        BY <1>2, <2>3
      <3>2. Held(r)'
        BY <1>1, <2>1, <3>1, HeldLater
      <3> QED
        BY <3>1, <3>2 DEF Held
    <2> QED
      BY <2>2, <2>3
  <1>6. rq[t].alone => \A u \in Threads : rq'[u].pc = "idle"
    BY <1>2, <1>3 DEF SiteInv, Overlaps, At
  <1>7. ~rq[t].alone => sound' = {}
    BY DEF SiteInv, Overlaps, At
  <1>8. \A u \in Threads : ~rq'[u].alone
    <2>1. \A u \in Threads : u # t => ~rq[u].alone
      BY DEF SiteInv, Overlaps, At
    <2> QED
      BY <1>2, <1>3, <2>1
  <1>9. Overlaps'
    BY <1>6, <1>7, <1>8 DEF Overlaps, At
  <1>10. Sound(Idle)'
    BY <1>7
  <1> QED
    BY <1>4, <1>5, <1>8, <1>9, <1>10 DEF SiteInv

LEMMA Bounds == MaxRequests \in Nat /\ MaxFaults \in Nat
  BY SiteAssumption

LEMMA Unchanged ==
    ASSUME NEW f, f = [x \in DOMAIN f |-> f[x]], NEW x, NEW v, f[x] = v
    PROVE  [f EXCEPT ![x] = v] = f
  OBVIOUS

(* A request that begins while others run is one of an overlap, and so are *)
(* they.                                                                   *)

LEMMA HeldNotAlone ==
    ASSUME State, NEW r, Held(r)
    PROVE  LET r2 == [r EXCEPT !.alone = FALSE]
           IN Held(r2) /\ r2 \in Request /\ ~r2.alone /\ r2.pc = r.pc
  <1> DEFINE r2 == [r EXCEPT !.alone = FALSE]
  <1>1. r \in Request
    BY DEF Held
  <1>2. r2 \in Request
    BY <1>1 DEF Request
  <1>3. ~r2.alone
    BY <1>1 DEF Request
  <1>4. /\ r2.op = r.op /\ r2.pc = r.pc /\ r2.kind = r.kind /\ r2.form = r.form
        /\ r2.obj = r.obj /\ r2.row = r.row /\ r2.read = r.read /\ r2.vm = r.vm
        /\ r2.since = r.since
    BY <1>1 DEF Request
  <1>5. r.pc = "idle" => r2 = Idle
    <2>1. Idle = [f \in DOMAIN Idle |-> Idle[f]] /\ Idle.alone = FALSE
      BY DEF Idle
    <2> QED
      BY <2>1, Unchanged DEF Held
  <1>6. Held(r2)
    <2> HIDE DEF r2
    <2> QED
      BY <1>2, <1>4, <1>5 DEF Held
  <1> QED
    BY <1>2, <1>3, <1>4, <1>6

LEMMA Begun ==
    ASSUME SiteInv, NEW t \in Threads, NEW r \in Request, NEW pc \in Steps \ {"idle"},
           Begin(t, r, pc),
           NEW first, first = [r EXCEPT !.pc = pc, !.alone = TRUE], Held(first),
           Sound(Idle) => Sound(first)
    PROVE  SiteInv'
  <1> DEFINE alone == \A u \in Threads : At(u, "idle")
             late == [first EXCEPT !.alone = FALSE]
  <1>1. rq \in [Threads -> Request] /\ State /\ clock \in Nat /\ clock' = clock
    BY DEF SiteInv, State, Begin
  <1>2. State'
    <2>1. begun' \in 0..MaxRequests
      <3>1. begun \in 0..MaxRequests /\ begun < MaxRequests /\ begun' = begun + 1
        BY <1>1 DEF State, Begin
      <3> QED
        BY <3>1, Bounds
    <2>2. sound' \subseteq Parts
      BY <1>1 DEF State, Begin
    <2> QED
      BY <1>1, <2>1, <2>2 DEF State, Begin, rows, caches
  <1>3. /\ first \in Request /\ first.alone /\ first.pc = pc
        /\ Held(late) /\ late \in Request /\ ~late.alone /\ late.pc = pc
    <2>1. first \in Request /\ first.alone /\ first.pc = pc
      BY DEF Held, Request
    <2> QED
      BY <1>1, <2>1, HeldNotAlone
  <1>4. late = [r EXCEPT !.pc = pc, !.alone = FALSE]
    BY DEF Request
  <1>5. \A u \in Threads :
           rq'[u] = IF u = t THEN IF alone THEN first ELSE late
                    ELSE [rq[u] EXCEPT !.alone = FALSE]
    <2>1. CASE alone
      <3>1. [r EXCEPT !.pc = pc, !.alone = alone] = first
        BY <2>1 DEF Request
      <3> QED
        BY <2>1, <3>1 DEF Begin
    <2>2. CASE ~alone
      <3>1. [r EXCEPT !.pc = pc, !.alone = alone] = late
        BY <1>4, <2>2 DEF Request
      <3> QED
        BY <2>2, <3>1 DEF Begin
    <2> QED
      BY <2>1, <2>2
  <1> HIDE DEF late
  <1>6. \A u \in Threads : LET r2 == [rq[u] EXCEPT !.alone = FALSE]
                           IN Held(r2) /\ r2 \in Request /\ ~r2.alone /\ r2.pc = rq[u].pc
    BY <1>1, HeldNotAlone DEF SiteInv
  <1>7. /\ \A u \in Threads : rq'[u] \in Request /\ Held(rq[u])'
        /\ DOMAIN rq' = Threads
        /\ rq' = [u \in Threads |-> rq'[u]]
    <2>1. \A u \in Threads : rq'[u] \in Request
      BY <1>3, <1>5, <1>6
    <2>2. \A u \in Threads : Held(rq[u])'
      <3> TAKE u \in Threads
      <3>1. PICK r2 : r2 = rq'[u] /\ Held(r2)
        <4>1. CASE u = t /\ alone
          BY <1>5, <4>1
        <4>2. CASE u = t /\ ~alone
          BY <1>3, <1>5, <4>2
        <4>3. CASE u # t
          BY <1>5, <1>6, <4>3
        <4> QED
          BY <4>1, <4>2, <4>3
      <3>2. Held(r2)'
        BY <1>1, <3>1, HeldLater
      <3> QED
        BY <3>1, <3>2 DEF Held
    <2>3. DOMAIN rq' = Threads /\ rq' = [u \in Threads |-> rq'[u]]
      BY DEF Begin
    <2> QED
      BY <2>1, <2>2, <2>3
  <1>8. CASE alone
    <2>1. /\ \A u \in Threads : u # t => rq'[u].pc = "idle" /\ ~rq'[u].alone
          /\ rq'[t] = first /\ rq'[t].alone /\ rq'[t].pc # "idle"
      BY <1>3, <1>5, <1>6, <1>8 DEF At
    <2>2. Overlaps' /\ ~Quiet'
      BY <2>1 DEF Overlaps, Quiet, At
    <2>3. Sound(first)
      BY <1>8 DEF SiteInv, Quiet
    <2>4. UNCHANGED <<settings, plugin, page, menus, cachedPlugin, objects, cachedPage, copy,
                      sound>>
      BY <1>8 DEF Begin, rows, caches
    <2>5. Sound(first)'
      BY <2>3, <2>4 DEF Sound, MenusSound, PluginSound, PageSound, ViewSound, CopySound, Shows
    <2>6. Sound(rq[t])'
      BY <2>1, <2>5 DEF Sound, MenusSound, PluginSound, PageSound, ViewSound, CopySound, Shows
    <2> QED
      BY <1>2, <1>7, <2>1, <2>2, <2>6 DEF SiteInv
  <1>9. CASE ~alone
    <2>1. \A u \in Threads : ~rq'[u].alone
      BY <1>3, <1>5, <1>6, <1>9
    <2>2. rq'[t].pc # "idle"
      BY <1>3, <1>5, <1>9
    <2>3. sound' = {}
      BY <1>9 DEF Begin
    <2>4. Overlaps' /\ ~Quiet'
      BY <2>1, <2>2, <2>3 DEF Overlaps, Quiet, At
    <2> QED
      BY <1>2, <1>7, <2>1, <2>4 DEF SiteInv
  <1> QED
    BY <1>8, <1>9

-----------------------------------------------------------------------------
(* A step that changes nothing of the request but its place.               *)
LEMMA PlaceMoved ==
    ASSUME NEW r \in Request, NEW pc \in Steps, NEW r2, r2 = [r EXCEPT !.pc = pc]
    PROVE  /\ r2 \in Request /\ r2.pc = pc /\ r2.alone = r.alone
           /\ r2.op = r.op /\ r2.kind = r.kind /\ r2.form = r.form /\ r2.obj = r.obj
           /\ r2.row = r.row /\ r2.read = r.read /\ r2.vm = r.vm /\ r2.body = r.body
           /\ r2.menu = r.menu
  BY DEF Request

LEMMA NothingSound == (sound' = {}) => Sound(Idle)'
  BY DEF Sound, MenusSound, PluginSound, PageSound, ViewSound, CopySound, Idle, None, DateSteps

LEMMA ClockRuns == ASSUME State PROVE clock \in Dates /\ clock >= 1
  <1>1. page.modified \in 1..clock /\ clock \in Nat
    BY DEF State
  <1> QED
    BY <1>1 DEF Dates

LEMMA Basics ==
    ASSUME SiteInv, NEW t \in Threads
    PROVE  /\ State /\ Held(rq[t]) /\ rq[t] \in Request /\ clock \in Nat
           /\ rq[t].alone => Sound(rq[t])
           /\ sound # {} /\ ~At(t, "idle") => rq[t].alone
  BY DEF SiteInv, State, Held, Overlaps

(* SettingsController.Index.                                               *)
LEMMA SaveSettingsKept ==
    ASSUME SiteInv, NEW t \in Threads, Step(t), SaveSettings(t)
    PROVE  SiteInv'
  <1>1. /\ State /\ Held(rq[t]) /\ rq[t] \in Request /\ clock \in Nat
        /\ rq[t].alone => Sound(rq[t])
    BY Basics
  <1>2. CASE SaveRow(t)
    <2>0. PICK now \in Taken(t) : settings' = [menu |-> rq[t].form, date |-> now]
      BY <1>2 DEF SaveRow, SaveSiteSettings
    <2>1. PICK r2 : r2 = [[rq[t] EXCEPT !.since = 0] EXCEPT !.pc = "save:menus"]
      OBVIOUS
    <2>2. /\ rq' = [rq EXCEPT ![t] = r2] /\ sound' = sound /\ rq[t].pc = "save:row"
          /\ settings' = [menu |-> rq[t].form, date |-> now]
          /\ UNCHANGED <<plugin, page, menus, cachedPlugin, objects, cachedPage, copy,
                         clock, begun, faults>>
      BY <1>1, <1>2, <2>0, <2>1 DEF At, Go, Step, SaveRow, caches
    <2>3. /\ r2 \in Request /\ r2.pc = "save:menus" /\ r2.alone = rq[t].alone
          /\ r2.op = rq[t].op /\ r2.kind = rq[t].kind /\ r2.form = rq[t].form
          /\ r2.obj = rq[t].obj /\ r2.row = rq[t].row /\ r2.read = rq[t].read
          /\ r2.vm = rq[t].vm /\ r2.body = rq[t].body /\ r2.menu = rq[t].menu
      BY <1>1, <2>1, <2>2 DEF Steps, Request, Dates
    <2>8. now \in 1..clock /\ rq[t].since \in Nat /\ rq[t].since <= now
      BY <1>1, <2>2 DEF Taken, Held, DateSteps
    <2>4. State'
      BY <1>1, <2>2, <2>8 DEF State, Held, Request, Row, Page, ViewModel, Dates, Copy
    <2>5. Held(r2)'
      BY <1>1, <2>2, <2>3
      DEF Held, State, Request, Row, Page, ViewModel, Dates, PluginSteps, HasObject,
          ViewSteps, DateSteps
    <2>6. ASSUME rq[t].alone PROVE Sound(r2)'
      <3>1. MenusSound(r2)'
        BY <1>1, <2>2, <2>3, <2>6 DEF Held, ViewSteps, PluginSteps, Sound, MenusSound
      <3>2. PluginSound(r2)'
        BY <1>1, <2>2, <2>3, <2>6 DEF Held, ViewSteps, PluginSteps, Sound, PluginSound
      <3>3. PageSound(r2)'
        BY <1>1, <2>2, <2>3, <2>6 DEF Held, Sound, PageSound, Shows
      <3>4. ViewSound(r2)'
        BY <1>1, <2>2, <2>3, <2>6
        DEF Held, ViewSteps, PluginSteps, Sound, ViewSound, Shows
      <3>5. CopySound(r2)'
        <4>1. copy.sent <= now /\ copy.sent \in Nat /\ copy.lastModified \in Nat
          BY <1>1, <2>2, <2>6, <2>8 DEF Sound, CopySound, State, Copy, Dates, DateSteps
        <4>2. Second(copy.sent) <= Second(now) /\ Second(copy.sent) \in Nat /\ Second(now) \in Nat
          BY <2>8, <4>1, SecondsAreOrdered
        <4> QED
          BY <1>1, <2>2, <2>3, <2>6, <4>1, <4>2 DEF Sound, CopySound, DateSteps
      <3> QED
        BY <3>1, <3>2, <3>3, <3>4, <3>5 DEF Sound
    <2>7. clock <= clock' /\ rq[t].pc # "idle" /\ r2.pc # "idle"
      BY <1>1, <2>2, <2>3
    <2> QED
      BY <2>2, <2>3, <2>4, <2>5, <2>6, <2>7, Moved
  <1>3. CASE SaveMenus(t)
    <2>1. /\ rq' = [rq EXCEPT ![t] = Idle] /\ rq[t].pc = "save:menus"
          /\ sound' = IF rq[t].alone
                      THEN sound \cup {"menus"} \cup (IF {"plugin", "page"} \subseteq sound
                                                      THEN {"copy"} ELSE {})
                      ELSE sound
          /\ menus' = NoMenus
          /\ UNCHANGED <<settings, plugin, page, cachedPlugin, objects, cachedPage,
                         copy, clock, begun, faults>>
      BY <1>1, <1>3 DEF At, End, Step, SaveMenus, RemoveMenuCacheItems, rows
    <2>2. State'
      BY <1>1, <2>1 DEF State, Held, Request, Row, Page, ViewModel, Dates, Parts, NoMenus
    <2>3. ASSUME rq[t].alone PROVE Sound(Idle)'
      <3>1. MenusSound(Idle)'
        BY <1>1, <2>1, <2>3, IdleHeld DEF Idle, Sound, MenusSound, None, NoMenus
      <3>2. PluginSound(Idle)'
        BY <1>1, <2>1, <2>3 DEF Idle, Sound, PluginSound
      <3>3. PageSound(Idle)'
        BY <1>1, <2>1, <2>3 DEF Idle, Sound, PageSound, Shows
      <3>4. ViewSound(Idle)'
        BY <1>1, <2>1, <2>3 DEF Idle, ViewSound, None
      <3>5. CopySound(Idle)'
        <4>1. "copy" \in sound' => sound' = Parts
          BY <1>1, <2>1, <2>3 DEF Sound, CopySound, PageSound, State, Parts
        <4>2. copy.sent <= settings.date /\ settings.date \in Nat /\ copy.sent \in Nat
          BY <1>1, <2>1, <2>3 DEF Sound, CopySound, State, Row, Copy, Dates
        <4>3. /\ Second(copy.sent) <= Second(settings.date) /\ copy.lastModified \in Nat
              /\ Second(copy.sent) \in Nat /\ Second(settings.date) \in Nat
          BY <1>1, <4>2, SecondsAreOrdered DEF State, Copy, Dates
        <4> QED
          BY <2>1, <4>1, <4>3 DEF Idle, CopySound, DateSteps
      <3> QED
        BY <3>1, <3>2, <3>3, <3>4, <3>5 DEF Sound
    <2>4. clock <= clock' /\ rq[t].pc # "idle"
      BY <1>1, <2>1
    <2> QED
      BY <2>1, <2>2, <2>3, <2>4, Ended, NothingSound
  <1> QED
    BY <1>2, <1>3 DEF SaveSettings

(* PluginSettingsController.Edit.                                          *)
LEMMA EditPluginKept ==
    ASSUME SiteInv, NEW t \in Threads, Step(t), EditPlugin(t)
    PROVE  SiteInv'
  <1>1. /\ State /\ Held(rq[t]) /\ rq[t] \in Request /\ clock \in Nat
        /\ rq[t].alone => Sound(rq[t])
    BY Basics
  <1>2. CASE EditSet(t)
    <2>1. PICK r2 : r2 = [rq[t] EXCEPT !.pc = "edit:read"]
      OBVIOUS
    <2>2. /\ rq' = [rq EXCEPT ![t] = r2] /\ sound' = sound /\ rq[t].pc = "edit:set"
          /\ rq[t].obj \in Objects /\ rq[t].form \in Values
          /\ objects' = [objects EXCEPT ![rq[t].obj] = rq[t].form]
          /\ UNCHANGED <<settings, plugin, page, menus, cachedPlugin, cachedPage, copy,
                         clock, begun, faults>>
      BY <1>1, <1>2, <2>1 DEF At, Go, Step, EditSet, rows, Held, HasObject
    <2>3. /\ r2 \in Request /\ r2.pc = "edit:read" /\ r2.alone = rq[t].alone
          /\ r2.op = rq[t].op /\ r2.kind = rq[t].kind /\ r2.form = rq[t].form
          /\ r2.obj = rq[t].obj /\ r2.row = rq[t].row /\ r2.read = rq[t].read
          /\ r2.vm = rq[t].vm /\ r2.body = rq[t].body /\ r2.menu = rq[t].menu
      BY <1>1, <2>1, <2>2, PlaceMoved DEF Steps
    <2>4. State'
      BY <1>1, <2>2 DEF State, Held, Request, Row, Page, ViewModel, Dates, Objects
    <2>5. Held(r2)'
      BY <1>1, <2>2, <2>3
      DEF Held, State, Request, Row, Page, ViewModel, Dates, PluginSteps, HasObject,
          ViewSteps, DateSteps
    <2>6. ASSUME rq[t].alone PROVE Sound(r2)'
      <3>1. MenusSound(r2)'
        BY <1>1, <2>2, <2>3, <2>6 DEF Held, ViewSteps, PluginSteps, Sound, MenusSound
      <3>2. PluginSound(r2)'
        BY <1>1, <2>2, <2>3, <2>6 DEF Held, ViewSteps, PluginSteps, Sound, PluginSound
      <3>3. PageSound(r2)'
        BY <1>1, <2>2, <2>3, <2>6 DEF Held, Sound, PageSound, Shows
      <3>4. ViewSound(r2)'
        BY <1>1, <2>2, <2>3, <2>6
        DEF Held, ViewSteps, PluginSteps, Sound, ViewSound, Shows
      <3>5. CopySound(r2)'
        BY <1>1, <2>2, <2>3, <2>6 DEF Held, Sound, CopySound, State, Row, Copy, Dates, DateSteps
      <3> QED
        BY <3>1, <3>2, <3>3, <3>4, <3>5 DEF Sound
    <2>7. clock <= clock' /\ rq[t].pc # "idle" /\ r2.pc # "idle"
      BY <1>1, <2>2, <2>3
    <2> QED
      BY <2>2, <2>3, <2>4, <2>5, <2>6, <2>7, Moved
  <1>3. CASE EditRead(t)
    <2>1. PICK r2 : r2 = [[rq[t] EXCEPT !.row = settings, !.since = clock] EXCEPT !.pc = "edit:date"]
      OBVIOUS
    <2>2. /\ rq' = [rq EXCEPT ![t] = r2] /\ sound' = sound /\ rq[t].pc = "edit:read"
          /\ UNCHANGED <<settings, plugin, page, menus, cachedPlugin, objects,
                         cachedPage, copy, clock, begun, faults>>
      BY <1>1, <1>3, <2>1 DEF At, Go, Step, EditRead, rows, caches
    <2>3. /\ r2 \in Request /\ r2.pc = "edit:date" /\ r2.alone = rq[t].alone
          /\ r2.row = settings /\ r2.since = clock /\ clock >= 1
          /\ r2.op = rq[t].op /\ r2.kind = rq[t].kind /\ r2.form = rq[t].form
          /\ r2.obj = rq[t].obj /\ r2.read = rq[t].read /\ r2.vm = rq[t].vm
          /\ r2.body = rq[t].body /\ r2.menu = rq[t].menu
      BY <1>1, <2>1, <2>2, ClockRuns DEF Steps, Request, State
    <2>4. State'
      BY <1>1, <2>2 DEF State, Held, Request, Row, Page, ViewModel, Dates
    <2>5. Held(r2)'
      BY <1>1, <2>2, <2>3
      DEF Held, State, Request, Row, Page, ViewModel, Dates, PluginSteps, HasObject,
          ViewSteps, DateSteps
    <2>6. ASSUME rq[t].alone PROVE Sound(r2)'
      <3>1. MenusSound(r2)'
        BY <1>1, <2>2, <2>3, <2>6 DEF Held, ViewSteps, PluginSteps, Sound, MenusSound
      <3>2. PluginSound(r2)'
        BY <1>1, <2>2, <2>3, <2>6 DEF Held, ViewSteps, PluginSteps, Sound, PluginSound
      <3>3. PageSound(r2)'
        BY <1>1, <2>2, <2>3, <2>6 DEF Held, Sound, PageSound, Shows
      <3>4. ViewSound(r2)'
        BY <1>1, <2>2, <2>3, <2>6
        DEF Held, ViewSteps, PluginSteps, Sound, ViewSound, Shows
      <3>5. CopySound(r2)'
        BY <1>1, <2>2, <2>3, <2>6 DEF Held, Sound, CopySound, State, Row, Copy, Dates, DateSteps
      <3> QED
        BY <3>1, <3>2, <3>3, <3>4, <3>5 DEF Sound
    <2>7. clock <= clock' /\ rq[t].pc # "idle" /\ r2.pc # "idle"
      BY <1>1, <2>2, <2>3
    <2> QED
      BY <2>2, <2>3, <2>4, <2>5, <2>6, <2>7, Moved
  <1>4. CASE EditDate(t)
    <2>0. PICK now \in Taken(t) : settings' = [menu |-> rq[t].row.menu, date |-> now]
      BY <1>4 DEF EditDate, SaveSiteSettings
    <2>1. PICK r2 : r2 = [[rq[t] EXCEPT !.since = 0] EXCEPT !.pc = "edit:save"]
      OBVIOUS
    <2>2. /\ rq' = [rq EXCEPT ![t] = r2] /\ sound' = sound /\ rq[t].pc = "edit:date"
          /\ settings' = [menu |-> rq[t].row.menu, date |-> now]
          /\ UNCHANGED <<plugin, page, menus, cachedPlugin, objects, cachedPage, copy,
                         clock, begun, faults>>
      BY <1>1, <1>4, <2>0, <2>1 DEF At, Go, Step, EditDate, caches
    <2>3. /\ r2 \in Request /\ r2.pc = "edit:save" /\ r2.alone = rq[t].alone
          /\ r2.op = rq[t].op /\ r2.kind = rq[t].kind /\ r2.form = rq[t].form
          /\ r2.obj = rq[t].obj /\ r2.row = rq[t].row /\ r2.read = rq[t].read
          /\ r2.vm = rq[t].vm /\ r2.body = rq[t].body /\ r2.menu = rq[t].menu
      BY <1>1, <2>1, <2>2 DEF Steps, Request, Dates
    <2>8. now \in 1..clock /\ rq[t].since \in Nat /\ rq[t].since <= now
      BY <1>1, <2>2 DEF Taken, Held, DateSteps
    <2>4. State'
      BY <1>1, <2>2, <2>8 DEF State, Held, Request, Row, Page, ViewModel, Dates, Copy
    <2>5. Held(r2)'
      BY <1>1, <2>2, <2>3
      DEF Held, State, Request, Row, Page, ViewModel, Dates, PluginSteps, HasObject,
          ViewSteps, DateSteps
    <2>6. ASSUME rq[t].alone PROVE Sound(r2)'
      <3>1. MenusSound(r2)'
        BY <1>1, <2>2, <2>3, <2>6 DEF Held, ViewSteps, PluginSteps, Sound, MenusSound
      <3>2. PluginSound(r2)'
        BY <1>1, <2>2, <2>3, <2>6 DEF Held, ViewSteps, PluginSteps, Sound, PluginSound
      <3>3. PageSound(r2)'
        BY <1>1, <2>2, <2>3, <2>6 DEF Held, Sound, PageSound, Shows
      <3>4. ViewSound(r2)'
        BY <1>1, <2>2, <2>3, <2>6
        DEF Held, ViewSteps, PluginSteps, Sound, ViewSound, Shows
      <3>5. CopySound(r2)'
        <4>1. copy.sent <= now /\ copy.sent \in Nat /\ copy.lastModified \in Nat
          BY <1>1, <2>2, <2>6, <2>8 DEF Sound, CopySound, State, Copy, Dates, DateSteps
        <4>2. Second(copy.sent) <= Second(now) /\ Second(copy.sent) \in Nat /\ Second(now) \in Nat
          BY <2>8, <4>1, SecondsAreOrdered
        <4> QED
          BY <1>1, <2>2, <2>3, <2>6, <4>1, <4>2 DEF Sound, CopySound, DateSteps
      <3> QED
        BY <3>1, <3>2, <3>3, <3>4, <3>5 DEF Sound
    <2>7. clock <= clock' /\ rq[t].pc # "idle" /\ r2.pc # "idle"
      BY <1>1, <2>2, <2>3
    <2> QED
      BY <2>2, <2>3, <2>4, <2>5, <2>6, <2>7, Moved
  <1>5. CASE EditSave(t)
    <2>1. PICK r2 : r2 = [rq[t] EXCEPT !.pc = "edit:uncache"]
      OBVIOUS
    <2>2. /\ rq' = [rq EXCEPT ![t] = r2] /\ sound' = sound /\ rq[t].pc = "edit:save"
          /\ rq[t].obj \in Objects
          /\ plugin' = objects[rq[t].obj]
          /\ UNCHANGED <<settings, page, menus, cachedPlugin, objects, cachedPage,
                         copy, clock, begun, faults>>
      BY <1>1, <1>5, <2>1
      DEF At, Go, Step, EditSave, SaveTextPluginSettings, caches, Held, HasObject
    <2>3. /\ r2 \in Request /\ r2.pc = "edit:uncache" /\ r2.alone = rq[t].alone
          /\ r2.op = rq[t].op /\ r2.kind = rq[t].kind /\ r2.form = rq[t].form
          /\ r2.obj = rq[t].obj /\ r2.row = rq[t].row /\ r2.read = rq[t].read
          /\ r2.vm = rq[t].vm /\ r2.body = rq[t].body /\ r2.menu = rq[t].menu
      BY <1>1, <2>1, <2>2, PlaceMoved DEF Steps
    <2>4. State'
      BY <1>1, <2>2 DEF State, Held, Request, Row, Page, ViewModel, Dates
    <2>5. Held(r2)'
      BY <1>1, <2>2, <2>3
      DEF Held, State, Request, Row, Page, ViewModel, Dates, PluginSteps, HasObject,
          ViewSteps, DateSteps
    <2>6. ASSUME rq[t].alone PROVE Sound(r2)'
      <3>1. MenusSound(r2)'
        BY <1>1, <2>2, <2>3, <2>6 DEF Held, ViewSteps, PluginSteps, Sound, MenusSound
      <3>2. PluginSound(r2)'
        BY <1>1, <2>2, <2>3, <2>6 DEF Held, ViewSteps, PluginSteps, Sound, PluginSound
      <3>3. PageSound(r2)'
        BY <1>1, <2>2, <2>3, <2>6 DEF Held, Sound, PageSound, Shows
      <3>4. ViewSound(r2)'
        BY <1>1, <2>2, <2>3, <2>6
        DEF Held, ViewSteps, PluginSteps, Sound, ViewSound, Shows
      <3>5. CopySound(r2)'
        <4>1. copy.sent <= settings.date /\ settings.date \in Nat /\ copy.sent \in Nat
          BY <1>1, <2>2, <2>6 DEF Sound, CopySound, State, Row, Copy, Dates
        <4>2. /\ Second(copy.sent) <= Second(settings.date) /\ copy.lastModified \in Nat
              /\ Second(copy.sent) \in Nat /\ Second(settings.date) \in Nat
          BY <1>1, <4>1, SecondsAreOrdered DEF State, Copy, Dates
        <4> QED
          BY <1>1, <2>2, <2>3, <2>6, <4>1, <4>2 DEF Sound, CopySound, DateSteps
      <3> QED
        BY <3>1, <3>2, <3>3, <3>4, <3>5 DEF Sound
    <2>7. clock <= clock' /\ rq[t].pc # "idle" /\ r2.pc # "idle"
      BY <1>1, <2>2, <2>3
    <2> QED
      BY <2>2, <2>3, <2>4, <2>5, <2>6, <2>7, Moved
  <1>6. CASE EditUncache(t)
    <2>1. PICK r2 : r2 = [rq[t] EXCEPT !.pc = "edit:pages"]
      OBVIOUS
    <2>2. /\ rq' = [rq EXCEPT ![t] = r2] /\ sound' = sound /\ rq[t].pc = "edit:uncache"
          /\ cachedPlugin' = 0
          /\ UNCHANGED <<settings, plugin, page, menus, objects, cachedPage, copy,
                         clock, begun, faults>>
      BY <1>1, <1>6, <2>1 DEF At, Go, Step, EditUncache, rows
    <2>3. /\ r2 \in Request /\ r2.pc = "edit:pages" /\ r2.alone = rq[t].alone
          /\ r2.op = rq[t].op /\ r2.kind = rq[t].kind /\ r2.form = rq[t].form
          /\ r2.obj = rq[t].obj /\ r2.row = rq[t].row /\ r2.read = rq[t].read
          /\ r2.vm = rq[t].vm /\ r2.body = rq[t].body /\ r2.menu = rq[t].menu
      BY <1>1, <2>1, <2>2, PlaceMoved DEF Steps
    <2>4. State'
      BY <1>1, <2>2 DEF State, Held, Request, Row, Page, ViewModel, Dates
    <2>5. Held(r2)'
      BY <1>1, <2>2, <2>3
      DEF Held, State, Request, Row, Page, ViewModel, Dates, PluginSteps, HasObject,
          ViewSteps, DateSteps
    <2>6. ASSUME rq[t].alone PROVE Sound(r2)'
      <3>1. MenusSound(r2)'
        BY <1>1, <2>2, <2>3, <2>6 DEF Held, ViewSteps, PluginSteps, Sound, MenusSound
      <3>2. PluginSound(r2)'
        BY <1>1, <2>2, <2>3, <2>6 DEF Held, ViewSteps, PluginSteps, Sound, PluginSound
      <3>3. PageSound(r2)'
        BY <1>1, <2>2, <2>3, <2>6 DEF Held, Sound, PageSound, Shows
      <3>4. ViewSound(r2)'
        BY <1>1, <2>2, <2>3, <2>6
        DEF Held, ViewSteps, PluginSteps, Sound, ViewSound, Shows
      <3>5. CopySound(r2)'
        BY <1>1, <2>2, <2>3, <2>6 DEF Held, Sound, CopySound, State, Row, Copy, Dates, DateSteps
      <3> QED
        BY <3>1, <3>2, <3>3, <3>4, <3>5 DEF Sound
    <2>7. clock <= clock' /\ rq[t].pc # "idle" /\ r2.pc # "idle"
      BY <1>1, <2>2, <2>3
    <2> QED
      BY <2>2, <2>3, <2>4, <2>5, <2>6, <2>7, Moved
  <1>7. CASE EditPages(t)
    <2>1. /\ rq' = [rq EXCEPT ![t] = Idle] /\ rq[t].pc = "edit:pages"
          /\ sound' = IF rq[t].alone
                      THEN sound \cup ({"plugin", "page"} \cup (IF "menus" \in sound
                                                               THEN {"copy"} ELSE {}))
                      ELSE sound
          /\ cachedPage' = NoModel
          /\ UNCHANGED <<settings, plugin, page, menus, cachedPlugin, objects, copy,
                         clock, begun, faults>>
      BY <1>1, <1>7 DEF At, End, Step, EditPages, rows
    <2>2. State'
      BY <1>1, <2>1
      DEF State, Held, Request, Row, Page, ViewModel, Dates, Parts, NoModel, Values,
          Default
    <2>3. ASSUME rq[t].alone PROVE Sound(Idle)'
      <3>1. MenusSound(Idle)'
        BY <1>1, <2>1, <2>3 DEF Idle, Sound, MenusSound, None
      <3>2. PluginSound(Idle)'
        BY <1>1, <2>1, <2>3 DEF Idle, Sound, PluginSound
      <3>3. PageSound(Idle)'
        BY <1>1, <2>1, <2>3 DEF Idle, Sound, PageSound, Shows
      <3>4. ViewSound(Idle)'
        BY <1>1, <2>1, <2>3 DEF Idle, ViewSound, None
      <3>5. CopySound(Idle)'
        <4>1. "copy" \in sound' => sound' = Parts
          BY <1>1, <2>1, <2>3 DEF Sound, CopySound, PageSound, State, Parts
        <4>2. copy.sent <= settings.date /\ settings.date \in Nat /\ copy.sent \in Nat
          BY <1>1, <2>1, <2>3 DEF Sound, CopySound, State, Row, Copy, Dates
        <4>3. /\ Second(copy.sent) <= Second(settings.date) /\ copy.lastModified \in Nat
              /\ Second(copy.sent) \in Nat /\ Second(settings.date) \in Nat
          BY <1>1, <4>2, SecondsAreOrdered DEF State, Copy, Dates
        <4> QED
          BY <2>1, <4>1, <4>3 DEF Idle, CopySound, DateSteps
      <3> QED
        BY <3>1, <3>2, <3>3, <3>4, <3>5 DEF Sound
    <2>4. clock <= clock' /\ rq[t].pc # "idle"
      BY <1>1, <2>1
    <2> QED
      BY <2>1, <2>2, <2>3, <2>4, Ended, NothingSound
  <1> QED
    BY <1>2, <1>3, <1>4, <1>5, <1>6, <1>7 DEF EditPlugin

(* CacheController.Clear.                                                  *)
LEMMA ClearCacheKept ==
    ASSUME SiteInv, NEW t \in Threads, Step(t), ClearCache(t)
    PROVE  SiteInv'
  <1>1. /\ State /\ Held(rq[t]) /\ rq[t] \in Request /\ clock \in Nat
        /\ rq[t].alone => Sound(rq[t])
    BY Basics
  <1>2. CASE ClearPages(t)
    <2>1. PICK r2 : r2 = [rq[t] EXCEPT !.pc = "clear:site"]
      OBVIOUS
    <2>2. /\ rq' = [rq EXCEPT ![t] = r2] /\ sound' = sound /\ rq[t].pc = "clear:pages"
          /\ cachedPage' = NoModel
          /\ UNCHANGED <<settings, plugin, page, menus, cachedPlugin, objects, copy,
                         clock, begun, faults>>
      BY <1>1, <1>2, <2>1 DEF At, Go, Step, ClearPages, rows
    <2>3. /\ r2 \in Request /\ r2.pc = "clear:site" /\ r2.alone = rq[t].alone
          /\ r2.op = rq[t].op /\ r2.kind = rq[t].kind /\ r2.form = rq[t].form
          /\ r2.obj = rq[t].obj /\ r2.row = rq[t].row /\ r2.read = rq[t].read
          /\ r2.vm = rq[t].vm /\ r2.body = rq[t].body /\ r2.menu = rq[t].menu
      BY <1>1, <2>1, <2>2, PlaceMoved DEF Steps
    <2>4. State'
      BY <1>1, <2>2
      DEF State, Held, Request, Row, Page, ViewModel, Dates, NoModel, Values, Default
    <2>5. Held(r2)'
      BY <1>1, <2>2, <2>3
      DEF Held, State, Request, Row, Page, ViewModel, Dates, PluginSteps, HasObject,
          ViewSteps, DateSteps
    <2>6. ASSUME rq[t].alone PROVE Sound(r2)'
      <3>1. MenusSound(r2)'
        BY <1>1, <2>2, <2>3, <2>6 DEF Held, ViewSteps, PluginSteps, Sound, MenusSound
      <3>2. PluginSound(r2)'
        BY <1>1, <2>2, <2>3, <2>6 DEF Held, ViewSteps, PluginSteps, Sound, PluginSound
      <3>3. PageSound(r2)'
        BY <1>1, <2>2, <2>3, <2>6 DEF Held, Sound, PageSound, Shows
      <3>4. ViewSound(r2)'
        BY <1>1, <2>2, <2>3, <2>6
        DEF Held, ViewSteps, PluginSteps, Sound, ViewSound, Shows
      <3>5. CopySound(r2)'
        BY <1>1, <2>2, <2>3, <2>6 DEF Held, Sound, CopySound, State, Row, Copy, Dates, DateSteps
      <3> QED
        BY <3>1, <3>2, <3>3, <3>4, <3>5 DEF Sound
    <2>7. clock <= clock' /\ rq[t].pc # "idle" /\ r2.pc # "idle"
      BY <1>1, <2>2, <2>3
    <2> QED
      BY <2>2, <2>3, <2>4, <2>5, <2>6, <2>7, Moved
  <1>3. CASE ClearSite(t)
    <2>1. /\ rq' = [rq EXCEPT ![t] = Idle] /\ rq[t].pc = "clear:site"
          /\ sound' = IF rq[t].alone THEN sound \cup {"menus", "plugin", "page"} ELSE sound
          /\ menus' = NoMenus
          /\ cachedPlugin' = 0
          /\ UNCHANGED <<settings, plugin, page, objects, cachedPage, copy, clock,
                         begun, faults>>
      BY <1>1, <1>3 DEF At, End, Step, ClearSite, rows
    <2>2. State'
      BY <1>1, <2>1 DEF State, Held, Request, Row, Page, ViewModel, Dates, Parts, NoMenus
    <2>3. ASSUME rq[t].alone PROVE Sound(Idle)'
      <3>1. MenusSound(Idle)'
        BY <1>1, <2>1, <2>3, IdleHeld DEF Idle, Sound, MenusSound, None, NoMenus
      <3>2. PluginSound(Idle)'
        BY <1>1, <2>1, <2>3 DEF Idle, Sound, PluginSound
      <3>3. PageSound(Idle)'
        BY <1>1, <2>1, <2>3 DEF Idle, Sound, PageSound, Shows
      <3>4. ViewSound(Idle)'
        BY <1>1, <2>1, <2>3 DEF Idle, ViewSound, None
      <3>5. CopySound(Idle)'
        <4>1. "copy" \in sound' => "copy" \in sound /\ sound' = Parts
          BY <1>1, <2>1, <2>3 DEF Sound, CopySound, State, Parts
        <4> QED
          BY <1>1, <2>1, <2>3, <4>1 DEF Idle, Sound, CopySound, DateSteps
      <3> QED
        BY <3>1, <3>2, <3>3, <3>4, <3>5 DEF Sound
    <2>4. clock <= clock' /\ rq[t].pc # "idle"
      BY <1>1, <2>1
    <2> QED
      BY <2>1, <2>2, <2>3, <2>4, Ended, NothingSound
  <1> QED
    BY <1>2, <1>3 DEF ClearCache

(* PageService.UpdatePage.                                                 *)
LEMMA SavePageKept ==
    ASSUME SiteInv, NEW t \in Threads, Step(t), SavePage(t)
    PROVE  SiteInv'
  <1>1. /\ State /\ Held(rq[t]) /\ rq[t] \in Request /\ clock \in Nat
        /\ rq[t].alone => Sound(rq[t])
    BY Basics
  <1>2. CASE PageRow(t)
    <2>0. PICK now \in Taken(t) : page' = [page EXCEPT !.modified = now]
      BY <1>2 DEF PageRow
    <2>1. PICK r2 : r2 = [[rq[t] EXCEPT !.since = 0] EXCEPT !.pc = "page:uncache"]
      OBVIOUS
    <2>2. /\ rq' = [rq EXCEPT ![t] = r2] /\ sound' = sound /\ rq[t].pc = "page:row"
          /\ page' = [page EXCEPT !.modified = now]
          /\ UNCHANGED <<settings, plugin, menus, cachedPlugin, objects, cachedPage,
                         copy, clock, begun, faults>>
      BY <1>1, <1>2, <2>0, <2>1 DEF At, Go, Step, PageRow, caches
    <2>3. /\ r2 \in Request /\ r2.pc = "page:uncache" /\ r2.alone = rq[t].alone
          /\ r2.op = rq[t].op /\ r2.kind = rq[t].kind /\ r2.form = rq[t].form
          /\ r2.obj = rq[t].obj /\ r2.row = rq[t].row /\ r2.read = rq[t].read
          /\ r2.vm = rq[t].vm /\ r2.body = rq[t].body /\ r2.menu = rq[t].menu
      BY <1>1, <2>1, <2>2 DEF Steps, Request, Dates
    <2>8. now \in 1..clock /\ rq[t].since \in Nat /\ rq[t].since <= now
      BY <1>1, <2>2 DEF Taken, Held, DateSteps
    <2>4. State'
      BY <1>1, <2>2, <2>8 DEF State, Held, Request, Row, Page, ViewModel, Dates, Copy
    <2>5. Held(r2)'
      BY <1>1, <2>2, <2>3
      DEF Held, State, Request, Row, Page, ViewModel, Dates, PluginSteps, HasObject,
          ViewSteps, DateSteps
    <2>6. ASSUME rq[t].alone PROVE Sound(r2)'
      <3>1. MenusSound(r2)'
        BY <1>1, <2>2, <2>3, <2>6 DEF Held, ViewSteps, PluginSteps, Sound, MenusSound
      <3>2. PluginSound(r2)'
        BY <1>1, <2>2, <2>3, <2>6 DEF Held, ViewSteps, PluginSteps, Sound, PluginSound
      <3>3. PageSound(r2)'
        BY <1>1, <2>2, <2>3, <2>6 DEF Held, Sound, PageSound, Shows
      <3>4. ViewSound(r2)'
        BY <1>1, <2>2, <2>3, <2>6
        DEF Held, ViewSteps, PluginSteps, Sound, ViewSound, Shows
      <3>5. CopySound(r2)'
        <4>1. copy.sent <= now /\ copy.sent \in Nat /\ copy.lastModified \in Nat
          BY <1>1, <2>2, <2>6, <2>8 DEF Sound, CopySound, State, Copy, Dates, DateSteps
        <4>2. Second(copy.sent) <= Second(now) /\ Second(copy.sent) \in Nat /\ Second(now) \in Nat
          BY <2>8, <4>1, SecondsAreOrdered
        <4>3. page'.modified = now
          BY <1>1, <2>2 DEF State, Page
        <4> QED
          BY <1>1, <2>2, <2>3, <2>6, <4>1, <4>2, <4>3 DEF Sound, CopySound, DateSteps
      <3> QED
        BY <3>1, <3>2, <3>3, <3>4, <3>5 DEF Sound
    <2>7. clock <= clock' /\ rq[t].pc # "idle" /\ r2.pc # "idle"
      BY <1>1, <2>2, <2>3
    <2> QED
      BY <2>2, <2>3, <2>4, <2>5, <2>6, <2>7, Moved
  <1>3. CASE PageUncache(t)
    <2>1. PICK r2 : r2 = [[rq[t] EXCEPT !.since = clock] EXCEPT !.pc = "page:text"]
      OBVIOUS
    <2>2. /\ rq' = [rq EXCEPT ![t] = r2] /\ sound' = sound /\ rq[t].pc = "page:uncache"
          /\ cachedPage' = NoModel
          /\ UNCHANGED <<settings, plugin, page, menus, cachedPlugin, objects, copy,
                         clock, begun, faults>>
      BY <1>1, <1>3, <2>1 DEF At, Go, Step, PageUncache, rows
    <2>3. /\ r2 \in Request /\ r2.pc = "page:text" /\ r2.alone = rq[t].alone
          /\ r2.op = rq[t].op /\ r2.kind = rq[t].kind /\ r2.form = rq[t].form
          /\ r2.obj = rq[t].obj /\ r2.row = rq[t].row /\ r2.read = rq[t].read
          /\ r2.vm = rq[t].vm /\ r2.body = rq[t].body /\ r2.menu = rq[t].menu
          /\ r2.since = clock /\ clock >= 1
      BY <1>1, <2>1, <2>2, ClockRuns DEF Steps, Request
    <2>4. State'
      BY <1>1, <2>2
      DEF State, Held, Request, Row, Page, ViewModel, Dates, NoModel, Values, Default
    <2>5. Held(r2)'
      BY <1>1, <2>2, <2>3
      DEF Held, State, Request, Row, Page, ViewModel, Dates, PluginSteps, HasObject,
          ViewSteps, DateSteps
    <2>6. ASSUME rq[t].alone PROVE Sound(r2)'
      <3>1. MenusSound(r2)'
        BY <1>1, <2>2, <2>3, <2>6 DEF Held, ViewSteps, PluginSteps, Sound, MenusSound
      <3>2. PluginSound(r2)'
        BY <1>1, <2>2, <2>3, <2>6 DEF Held, ViewSteps, PluginSteps, Sound, PluginSound
      <3>3. PageSound(r2)'
        BY <1>1, <2>2, <2>3, <2>6 DEF Held, Sound, PageSound, Shows
      <3>4. ViewSound(r2)'
        BY <1>1, <2>2, <2>3, <2>6
        DEF Held, ViewSteps, PluginSteps, Sound, ViewSound, Shows
      <3>5. CopySound(r2)'
        BY <1>1, <2>2, <2>3, <2>6 DEF Held, Sound, CopySound, State, Row, Copy, Dates, DateSteps
      <3> QED
        BY <3>1, <3>2, <3>3, <3>4, <3>5 DEF Sound
    <2>7. clock <= clock' /\ rq[t].pc # "idle" /\ r2.pc # "idle"
      BY <1>1, <2>2, <2>3
    <2> QED
      BY <2>2, <2>3, <2>4, <2>5, <2>6, <2>7, Moved
  <1>4. CASE PageText(t)
    <2>0. PICK now \in Taken(t) : page' = [text |-> page.text + 1, modified |-> now]
      BY <1>4 DEF PageText
    <2>1. /\ rq' = [rq EXCEPT ![t] = Idle] /\ rq[t].pc = "page:text"
          /\ sound' = sound
          /\ page' = [text |-> page.text + 1, modified |-> now]
          /\ UNCHANGED <<settings, plugin, menus, cachedPlugin, objects, cachedPage,
                         copy, clock, begun, faults>>
      BY <1>1, <1>4, <2>0 DEF At, End, Step, PageText, caches
    <2>8. now \in 1..clock /\ rq[t].since \in Nat /\ rq[t].since <= now
      BY <1>1, <2>1 DEF Taken, Held, DateSteps
    <2>2. State'
      BY <1>1, <2>1, <2>8 DEF State, Held, Request, Row, Page, ViewModel, Dates, Parts, Copy
    <2>3. ASSUME rq[t].alone PROVE Sound(Idle)'
      <3>1. MenusSound(Idle)'
        BY <1>1, <2>1, <2>3 DEF Idle, Sound, MenusSound, None
      <3>2. PluginSound(Idle)'
        BY <1>1, <2>1, <2>3 DEF Idle, Sound, PluginSound
      <3>3. PageSound(Idle)'
        BY <1>1, <2>1, <2>3 DEF Idle, Sound, PageSound, Shows
      <3>4. ViewSound(Idle)'
        BY <1>1, <2>1, <2>3 DEF Idle, ViewSound, None
      <3>5. CopySound(Idle)'
        <4>1. copy.sent <= now /\ copy.sent \in Nat /\ copy.lastModified \in Nat
          BY <1>1, <2>1, <2>3, <2>8 DEF Sound, CopySound, State, Copy, Dates, DateSteps
        <4>2. Second(copy.sent) <= Second(now) /\ Second(copy.sent) \in Nat /\ Second(now) \in Nat
          BY <2>8, <4>1, SecondsAreOrdered
        <4> QED
          BY <1>1, <2>1, <2>3, <4>1, <4>2 DEF Idle, Sound, CopySound, DateSteps
      <3> QED
        BY <3>1, <3>2, <3>3, <3>4, <3>5 DEF Sound
    <2>4. clock <= clock' /\ rq[t].pc # "idle"
      BY <1>1, <2>1
    <2> QED
      BY <2>1, <2>2, <2>3, <2>4, Ended, NothingSound
  <1> QED
    BY <1>2, <1>3, <1>4 DEF SavePage

(* There are more objects than can be in use: one for each other request,   *)
(* and the cached one.                                                     *)
LEMMA NewObjectIsFree ==
    ASSUME SiteInv, NEW t \in Threads, rq[t].obj = 0
    PROVE  NewObject \in Objects /\ NewObject # cachedPlugin
  <1> DEFINE user == [o \in Objects |-> IF o = cachedPlugin THEN t
                                        ELSE CHOOSE u \in Threads : rq[u].obj = o]
  <1>1. /\ IsFiniteSet(Threads) /\ Cardinality(Threads) \in Nat
        /\ IsFiniteSet(Objects) /\ Cardinality(Objects) = Cardinality(Threads) + 1
    <2>1. IsFiniteSet(Threads) /\ Cardinality(Threads) \in Nat
      BY SiteAssumption, FS_CardinalityType
    <2> DEFINE n == Cardinality(Threads)
    <2> HIDE DEF n
    <2>2. ASSUME n \in Nat PROVE IsFiniteSet(1..(n + 1)) /\ Cardinality(1..(n + 1)) = n + 1
      BY <2>2, FS_Interval
    <2> QED
      BY <2>1, <2>2 DEF Objects, n
  <1>2. 0 \notin Objects
    BY <1>1 DEF Objects
  <1>3. \E o \in Objects : Free(o)
    <2> SUFFICES ASSUME \A o \in Objects : ~Free(o) PROVE FALSE
      OBVIOUS
    <2>1. \A o \in Objects : o # cachedPlugin =>
             user[o] \in Threads /\ user[o] # t /\ rq[user[o]].obj = o
      BY <1>2 DEF Free
    <2>2. \A o \in Objects : o = cachedPlugin => user[o] = t
      OBVIOUS
    <2>3. user \in [Objects -> Threads]
      BY <2>1, <2>2
    <2> HIDE DEF user
    <2>4. \E x, y \in Objects : x # y /\ user[x] = user[y]
      BY <1>1, <2>3, FS_PigeonHole
    <2> QED
      BY <2>1, <2>2, <2>4
  <1> QED
    BY <1>3 DEF NewObject, Free

(* TextPlugin.EnsureSettings.                                              *)
LEMMA EnsureSettingsKept ==
    ASSUME SiteInv, NEW t \in Threads, Step(t), EnsureSettings(t)
    PROVE  SiteInv'
  <1>1. /\ State /\ Held(rq[t]) /\ rq[t] \in Request /\ clock \in Nat
        /\ rq[t].alone => Sound(rq[t])
    BY Basics
  <1> DEFINE next == IF rq[t].op = "view" THEN "view:convert" ELSE "edit:set"
  <1>2. /\ next \in {"view:convert", "edit:set"}
        /\ rq[t].pc \in PluginSteps =>
              \/ rq[t].op = "view" /\ next = "view:convert"
              \/ rq[t].op = "editplugin" /\ next = "edit:set"
    BY <1>1 DEF Held
  <1> HIDE DEF next
  <1>3. CASE Get(t, next) /\ cachedPlugin # 0
    <2>1. PICK r2 : r2 = [[rq[t] EXCEPT !.obj = cachedPlugin] EXCEPT !.pc = next]
      OBVIOUS
    <2>2. /\ rq' = [rq EXCEPT ![t] = r2] /\ sound' = sound /\ rq[t].pc = "plugin:get"
          /\ cachedPlugin \in Objects /\ cachedPlugin # 0
          /\ UNCHANGED <<settings, plugin, page, menus, cachedPlugin, objects,
                         cachedPage, copy, clock, begun, faults>>
      BY <1>1, <1>3, <2>1 DEF At, Go, Step, Get, rows, caches, State
    <2>3. /\ r2 \in Request /\ r2.pc = next /\ r2.alone = rq[t].alone
          /\ r2.obj = cachedPlugin
          /\ r2.op = rq[t].op /\ r2.kind = rq[t].kind /\ r2.form = rq[t].form
          /\ r2.row = rq[t].row /\ r2.read = rq[t].read /\ r2.vm = rq[t].vm
          /\ r2.body = rq[t].body /\ r2.menu = rq[t].menu
      BY <1>1, <2>1, <2>2, <1>2 DEF Steps, Request, State, Page, Row, ViewModel
    <2>4. State'
      BY <1>1, <2>2 DEF State, Held, Request, Row, Page, ViewModel, Dates
    <2>5. Held(r2)'
      BY <1>1, <2>2, <2>3, <1>2
      DEF Held, State, Request, Row, Page, ViewModel, Dates, PluginSteps, HasObject,
          ViewSteps, DateSteps
    <2>6. ASSUME rq[t].alone PROVE Sound(r2)'
      <3>1. MenusSound(r2)'
        BY <1>1, <1>2, <2>2, <2>3, <2>6
        DEF Held, ViewSteps, PluginSteps, Sound, MenusSound
      <3>2. PluginSound(r2)'
        BY <1>1, <1>2, <2>2, <2>3, <2>6
        DEF Held, ViewSteps, PluginSteps, Sound, PluginSound
      <3>3. PageSound(r2)'
        BY <1>1, <1>2, <2>2, <2>3, <2>6 DEF Held, Sound, PageSound, Shows
      <3>4. ViewSound(r2)'
        BY <1>1, <1>2, <2>2, <2>3, <2>6
        DEF Held, ViewSteps, PluginSteps, Sound, ViewSound, Shows, PluginSound,
            PageSound
      <3>5. CopySound(r2)'
        BY <1>1, <1>2, <2>2, <2>3, <2>6
        DEF Held, Sound, CopySound, State, Row, Copy, Dates, DateSteps
      <3> QED
        BY <3>1, <3>2, <3>3, <3>4, <3>5 DEF Sound
    <2>7. clock <= clock' /\ rq[t].pc # "idle" /\ r2.pc # "idle"
      BY <1>1, <1>2, <2>2, <2>3
    <2> QED
      BY <2>2, <2>3, <2>4, <2>5, <2>6, <2>7, Moved
  <1>4. CASE Get(t, next) /\ cachedPlugin = 0
    <2>1. PICK r2 : r2 = [rq[t] EXCEPT !.pc = "plugin:load"]
      OBVIOUS
    <2>2. /\ rq' = [rq EXCEPT ![t] = r2] /\ sound' = sound /\ rq[t].pc = "plugin:get"
          /\ cachedPlugin = 0
          /\ UNCHANGED <<settings, plugin, page, menus, cachedPlugin, objects,
                         cachedPage, copy, clock, begun, faults>>
      BY <1>1, <1>4, <2>1 DEF At, Go, Step, Get, rows, caches
    <2>3. /\ r2 \in Request /\ r2.pc = "plugin:load" /\ r2.alone = rq[t].alone
          /\ r2.op = rq[t].op /\ r2.kind = rq[t].kind /\ r2.form = rq[t].form
          /\ r2.obj = rq[t].obj /\ r2.row = rq[t].row /\ r2.read = rq[t].read
          /\ r2.vm = rq[t].vm /\ r2.body = rq[t].body /\ r2.menu = rq[t].menu
      BY <1>1, <2>1, <2>2, PlaceMoved DEF Steps
    <2>4. State'
      BY <1>1, <2>2 DEF State, Held, Request, Row, Page, ViewModel, Dates
    <2>5. Held(r2)'
      BY <1>1, <2>2, <2>3
      DEF Held, State, Request, Row, Page, ViewModel, Dates, PluginSteps, HasObject,
          ViewSteps, DateSteps
    <2>6. ASSUME rq[t].alone PROVE Sound(r2)'
      <3>1. MenusSound(r2)'
        BY <1>1, <2>2, <2>3, <2>6 DEF Held, ViewSteps, PluginSteps, Sound, MenusSound
      <3>2. PluginSound(r2)'
        BY <1>1, <2>2, <2>3, <2>6 DEF Held, ViewSteps, PluginSteps, Sound, PluginSound
      <3>3. PageSound(r2)'
        BY <1>1, <2>2, <2>3, <2>6 DEF Held, Sound, PageSound, Shows
      <3>4. ViewSound(r2)'
        BY <1>1, <2>2, <2>3, <2>6
        DEF Held, ViewSteps, PluginSteps, Sound, ViewSound, Shows
      <3>5. CopySound(r2)'
        BY <1>1, <2>2, <2>3, <2>6 DEF Held, Sound, CopySound, State, Row, Copy, Dates, DateSteps
      <3> QED
        BY <3>1, <3>2, <3>3, <3>4, <3>5 DEF Sound
    <2>7. clock <= clock' /\ rq[t].pc # "idle" /\ r2.pc # "idle"
      BY <1>1, <2>2, <2>3
    <2> QED
      BY <2>2, <2>3, <2>4, <2>5, <2>6, <2>7, Moved
  <1>5. CASE Load(t) /\ plugin = None
    <2>1. PICK r2 : r2 = [[rq[t] EXCEPT !.obj = NewObject] EXCEPT !.pc = "plugin:first"]
      OBVIOUS
    <2>2. /\ rq' = [rq EXCEPT ![t] = r2] /\ sound' = sound /\ rq[t].pc = "plugin:load"
          /\ NewObject \in Objects /\ NewObject # cachedPlugin
          /\ plugin = None
          /\ objects' = [objects EXCEPT ![NewObject] = Default]
          /\ UNCHANGED <<settings, plugin, page, menus, cachedPlugin, cachedPage, copy,
                         clock, begun, faults>>
      BY <1>1, <1>5, <2>1, NewObjectIsFree DEF At, Go, Step, Load, rows, Held
    <2>3. /\ r2 \in Request /\ r2.pc = "plugin:first" /\ r2.alone = rq[t].alone
          /\ r2.obj = NewObject
          /\ r2.op = rq[t].op /\ r2.kind = rq[t].kind /\ r2.form = rq[t].form
          /\ r2.row = rq[t].row /\ r2.read = rq[t].read /\ r2.vm = rq[t].vm
          /\ r2.body = rq[t].body /\ r2.menu = rq[t].menu
      BY <1>1, <2>1, <2>2 DEF Steps, Request, State, Page, Row, ViewModel
    <2>4. State'
      BY <1>1, <2>2 DEF State, Held, Request, Row, Page, ViewModel, Dates, Values, Default
    <2>5. Held(r2)'
      BY <1>1, <2>2, <2>3
      DEF Held, State, Request, Row, Page, ViewModel, Dates, PluginSteps, HasObject,
          ViewSteps, DateSteps
    <2>6. ASSUME rq[t].alone PROVE Sound(r2)'
      <3>1. MenusSound(r2)'
        BY <1>1, <2>2, <2>3, <2>6 DEF Held, ViewSteps, PluginSteps, Sound, MenusSound
      <3>2. PluginSound(r2)'
        BY <1>1, <2>2, <2>3, <2>6 DEF Held, ViewSteps, PluginSteps, Sound, PluginSound
      <3>3. PageSound(r2)'
        BY <1>1, <2>2, <2>3, <2>6 DEF Held, Sound, PageSound, Shows
      <3>4. ViewSound(r2)'
        BY <1>1, <2>2, <2>3, <2>6
        DEF Held, ViewSteps, PluginSteps, Sound, ViewSound, Shows
      <3>5. CopySound(r2)'
        BY <1>1, <2>2, <2>3, <2>6 DEF Held, Sound, CopySound, State, Row, Copy, Dates, DateSteps
      <3> QED
        BY <3>1, <3>2, <3>3, <3>4, <3>5 DEF Sound
    <2>7. clock <= clock' /\ rq[t].pc # "idle" /\ r2.pc # "idle"
      BY <1>1, <2>2, <2>3
    <2> QED
      BY <2>2, <2>3, <2>4, <2>5, <2>6, <2>7, Moved
  <1>6. CASE Load(t) /\ plugin # None
    <2>1. PICK r2 : r2 = [[rq[t] EXCEPT !.obj = NewObject] EXCEPT !.pc = "plugin:cache"]
      OBVIOUS
    <2>2. /\ rq' = [rq EXCEPT ![t] = r2] /\ sound' = sound /\ rq[t].pc = "plugin:load"
          /\ NewObject \in Objects /\ NewObject # cachedPlugin
          /\ plugin # None
          /\ objects' = [objects EXCEPT ![NewObject] = plugin]
          /\ UNCHANGED <<settings, plugin, page, menus, cachedPlugin, cachedPage, copy,
                         clock, begun, faults>>
      BY <1>1, <1>6, <2>1, NewObjectIsFree DEF At, Go, Step, Load, rows, Held
    <2>3. /\ r2 \in Request /\ r2.pc = "plugin:cache" /\ r2.alone = rq[t].alone
          /\ r2.obj = NewObject
          /\ r2.op = rq[t].op /\ r2.kind = rq[t].kind /\ r2.form = rq[t].form
          /\ r2.row = rq[t].row /\ r2.read = rq[t].read /\ r2.vm = rq[t].vm
          /\ r2.body = rq[t].body /\ r2.menu = rq[t].menu
      BY <1>1, <2>1, <2>2 DEF Steps, Request, State, Page, Row, ViewModel
    <2>4. State'
      BY <1>1, <2>2 DEF State, Held, Request, Row, Page, ViewModel, Dates
    <2>5. Held(r2)'
      BY <1>1, <2>2, <2>3
      DEF Held, State, Request, Row, Page, ViewModel, Dates, PluginSteps, HasObject,
          ViewSteps, DateSteps
    <2>6. ASSUME rq[t].alone PROVE Sound(r2)'
      <3>1. MenusSound(r2)'
        BY <1>1, <2>2, <2>3, <2>6 DEF Held, ViewSteps, PluginSteps, Sound, MenusSound
      <3>2. PluginSound(r2)'
        BY <1>1, <2>2, <2>3, <2>6
        DEF Held, ViewSteps, PluginSteps, Sound, PluginSound, State
      <3>3. PageSound(r2)'
        BY <1>1, <2>2, <2>3, <2>6 DEF Held, Sound, PageSound, Shows
      <3>4. ViewSound(r2)'
        BY <1>1, <2>2, <2>3, <2>6
        DEF Held, ViewSteps, PluginSteps, Sound, ViewSound, Shows
      <3>5. CopySound(r2)'
        BY <1>1, <2>2, <2>3, <2>6 DEF Held, Sound, CopySound, State, Row, Copy, Dates, DateSteps
      <3> QED
        BY <3>1, <3>2, <3>3, <3>4, <3>5 DEF Sound
    <2>7. clock <= clock' /\ rq[t].pc # "idle" /\ r2.pc # "idle"
      BY <1>1, <2>2, <2>3
    <2> QED
      BY <2>2, <2>3, <2>4, <2>5, <2>6, <2>7, Moved
  <1>7. CASE First(t)
    <2>1. PICK r2 : r2 = [rq[t] EXCEPT !.pc = "plugin:cache"]
      OBVIOUS
    <2>2. /\ rq' = [rq EXCEPT ![t] = r2] /\ sound' = sound /\ rq[t].pc = "plugin:first"
          /\ rq[t].obj \in Objects
          /\ plugin' = objects[rq[t].obj]
          /\ UNCHANGED <<settings, page, menus, cachedPlugin, objects, cachedPage,
                         copy, clock, begun, faults>>
      BY <1>1, <1>7, <2>1
      DEF At, Go, Step, First, SaveTextPluginSettings, caches, Held, HasObject
    <2>3. /\ r2 \in Request /\ r2.pc = "plugin:cache" /\ r2.alone = rq[t].alone
          /\ r2.op = rq[t].op /\ r2.kind = rq[t].kind /\ r2.form = rq[t].form
          /\ r2.obj = rq[t].obj /\ r2.row = rq[t].row /\ r2.read = rq[t].read
          /\ r2.vm = rq[t].vm /\ r2.body = rq[t].body /\ r2.menu = rq[t].menu
      BY <1>1, <2>1, <2>2, PlaceMoved DEF Steps
    <2>4. State'
      BY <1>1, <2>2 DEF State, Held, Request, Row, Page, ViewModel, Dates
    <2>5. Held(r2)'
      BY <1>1, <2>2, <2>3
      DEF Held, State, Request, Row, Page, ViewModel, Dates, PluginSteps, HasObject,
          ViewSteps, DateSteps
    <2>6. ASSUME rq[t].alone PROVE Sound(r2)'
      <3>1. MenusSound(r2)'
        BY <1>1, <2>2, <2>3, <2>6 DEF Held, ViewSteps, PluginSteps, Sound, MenusSound
      <3>2. PluginSound(r2)'
        BY <1>1, <2>2, <2>3, <2>6
        DEF Held, ViewSteps, PluginSteps, Sound, PluginSound, PluginSound, State,
            ViewModel, Copy, Request, Values, None
      <3>3. PageSound(r2)'
        BY <1>1, <2>2, <2>3, <2>6
        DEF Held, Sound, PageSound, Shows, PluginSound, State, ViewModel, Copy,
            Request, Values, None
      <3>4. ViewSound(r2)'
        BY <1>1, <2>2, <2>3, <2>6
        DEF Held, ViewSteps, PluginSteps, Sound, ViewSound, Shows, PluginSound, State,
            ViewModel, Copy, Request, Values, None
      <3>5. CopySound(r2)'
        BY <1>1, <2>2, <2>3, <2>6
        DEF Held, Sound, CopySound, State, Row, Copy, Dates, DateSteps, PluginSound, State,
            ViewModel, Copy, Request, Values, None
      <3> QED
        BY <3>1, <3>2, <3>3, <3>4, <3>5 DEF Sound
    <2>7. clock <= clock' /\ rq[t].pc # "idle" /\ r2.pc # "idle"
      BY <1>1, <2>2, <2>3
    <2> QED
      BY <2>2, <2>3, <2>4, <2>5, <2>6, <2>7, Moved
  <1>8. CASE UpdatePluginSettings(t, next)
    <2>1. PICK r2 : r2 = [rq[t] EXCEPT !.pc = next]
      OBVIOUS
    <2>2. /\ rq' = [rq EXCEPT ![t] = r2] /\ sound' = sound /\ rq[t].pc = "plugin:cache"
          /\ rq[t].obj \in Objects
          /\ cachedPlugin' = rq[t].obj
          /\ UNCHANGED <<settings, plugin, page, menus, objects, cachedPage, copy,
                         clock, begun, faults>>
      BY <1>1, <1>8, <2>1 DEF At, Go, Step, UpdatePluginSettings, rows, Held, HasObject
    <2>3. /\ r2 \in Request /\ r2.pc = next /\ r2.alone = rq[t].alone
          /\ r2.op = rq[t].op /\ r2.kind = rq[t].kind /\ r2.form = rq[t].form
          /\ r2.obj = rq[t].obj /\ r2.row = rq[t].row /\ r2.read = rq[t].read
          /\ r2.vm = rq[t].vm /\ r2.body = rq[t].body /\ r2.menu = rq[t].menu
      BY <1>1, <2>1, <2>2, <1>2, PlaceMoved DEF Steps
    <2>4. State'
      BY <1>1, <2>2 DEF State, Held, Request, Row, Page, ViewModel, Dates
    <2>5. Held(r2)'
      BY <1>1, <2>2, <2>3, <1>2
      DEF Held, State, Request, Row, Page, ViewModel, Dates, PluginSteps, HasObject,
          ViewSteps, DateSteps
    <2>6. ASSUME rq[t].alone PROVE Sound(r2)'
      <3>1. MenusSound(r2)'
        BY <1>1, <1>2, <2>2, <2>3, <2>6
        DEF Held, ViewSteps, PluginSteps, Sound, MenusSound
      <3>2. PluginSound(r2)'
        BY <1>1, <1>2, <2>2, <2>3, <2>6
        DEF Held, ViewSteps, PluginSteps, Sound, PluginSound
      <3>3. PageSound(r2)'
        BY <1>1, <1>2, <2>2, <2>3, <2>6 DEF Held, Sound, PageSound, Shows
      <3>4. ViewSound(r2)'
        BY <1>1, <1>2, <2>2, <2>3, <2>6
        DEF Held, ViewSteps, PluginSteps, Sound, ViewSound, Shows, PluginSound,
            PageSound
      <3>5. CopySound(r2)'
        BY <1>1, <1>2, <2>2, <2>3, <2>6
        DEF Held, Sound, CopySound, State, Row, Copy, Dates, DateSteps
      <3> QED
        BY <3>1, <3>2, <3>3, <3>4, <3>5 DEF Sound
    <2>7. clock <= clock' /\ rq[t].pc # "idle" /\ r2.pc # "idle"
      BY <1>1, <1>2, <2>2, <2>3
    <2> QED
      BY <2>2, <2>3, <2>4, <2>5, <2>6, <2>7, Moved
  <1> QED
    BY <1>3, <1>4, <1>5, <1>6, <1>7, <1>8, <1>2 DEF EnsureSettings, next

(* WikiController.Index, up to the answer.                                 *)
LEMMA ViewKept ==
    ASSUME SiteInv, NEW t \in Threads, Step(t), View(t)
    PROVE  SiteInv'
  <1>1. /\ State /\ Held(rq[t]) /\ rq[t] \in Request /\ clock \in Nat
        /\ rq[t].alone => Sound(rq[t])
    BY Basics
  <1>2. CASE ViewRow(t)
    <2>1. PICK r2 : r2 = [[rq[t] EXCEPT !.row = settings] EXCEPT !.pc = "view:page"]
      OBVIOUS
    <2>2. /\ rq' = [rq EXCEPT ![t] = r2] /\ sound' = sound /\ rq[t].pc = "view:row"
          /\ UNCHANGED <<settings, plugin, page, menus, cachedPlugin, objects,
                         cachedPage, copy, clock, begun, faults>>
      BY <1>1, <1>2, <2>1 DEF At, Go, Step, ViewRow, rows, caches
    <2>3. /\ r2 \in Request /\ r2.pc = "view:page" /\ r2.alone = rq[t].alone
          /\ r2.row = settings
          /\ r2.op = rq[t].op /\ r2.kind = rq[t].kind /\ r2.form = rq[t].form
          /\ r2.obj = rq[t].obj /\ r2.read = rq[t].read /\ r2.vm = rq[t].vm
          /\ r2.body = rq[t].body /\ r2.menu = rq[t].menu
      BY <1>1, <2>1, <2>2 DEF Steps, Request, State, Page, Row, ViewModel
    <2>4. State'
      BY <1>1, <2>2 DEF State, Held, Request, Row, Page, ViewModel, Dates
    <2>5. Held(r2)'
      BY <1>1, <2>2, <2>3
      DEF Held, State, Request, Row, Page, ViewModel, Dates, PluginSteps, HasObject,
          ViewSteps, DateSteps
    <2>6. ASSUME rq[t].alone PROVE Sound(r2)'
      <3>1. MenusSound(r2)'
        BY <1>1, <2>2, <2>3, <2>6 DEF Held, ViewSteps, PluginSteps, Sound, MenusSound
      <3>2. PluginSound(r2)'
        BY <1>1, <2>2, <2>3, <2>6 DEF Held, ViewSteps, PluginSteps, Sound, PluginSound
      <3>3. PageSound(r2)'
        BY <1>1, <2>2, <2>3, <2>6 DEF Held, Sound, PageSound, Shows
      <3>4. ViewSound(r2)'
        BY <1>1, <2>2, <2>3, <2>6
        DEF Held, ViewSteps, PluginSteps, Sound, ViewSound, Shows
      <3>5. CopySound(r2)'
        BY <1>1, <2>2, <2>3, <2>6 DEF Held, Sound, CopySound, State, Row, Copy, Dates, DateSteps
      <3> QED
        BY <3>1, <3>2, <3>3, <3>4, <3>5 DEF Sound
    <2>7. clock <= clock' /\ rq[t].pc # "idle" /\ r2.pc # "idle"
      BY <1>1, <2>2, <2>3
    <2> QED
      BY <2>2, <2>3, <2>4, <2>5, <2>6, <2>7, Moved
  <1>3. CASE ViewPage(t) /\ cachedPage = NoModel
    <2>1. PICK r2 : r2 = [rq[t] EXCEPT !.pc = "view:load"]
      OBVIOUS
    <2>2. /\ rq' = [rq EXCEPT ![t] = r2] /\ sound' = sound /\ rq[t].pc \in {"view:page", "view:again"}
          /\ UNCHANGED <<settings, plugin, page, menus, cachedPlugin, objects,
                         cachedPage, copy, clock, begun, faults>>
      BY <1>1, <1>3, <2>1 DEF At, Go, Step, ViewPage, rows, caches
    <2>3. /\ r2 \in Request /\ r2.pc = "view:load" /\ r2.alone = rq[t].alone
          /\ r2.op = rq[t].op /\ r2.kind = rq[t].kind /\ r2.form = rq[t].form
          /\ r2.obj = rq[t].obj /\ r2.row = rq[t].row /\ r2.read = rq[t].read
          /\ r2.vm = rq[t].vm /\ r2.body = rq[t].body /\ r2.menu = rq[t].menu
      BY <1>1, <2>1, <2>2, PlaceMoved DEF Steps
    <2>4. State'
      BY <1>1, <2>2 DEF State, Held, Request, Row, Page, ViewModel, Dates
    <2>5. Held(r2)'
      BY <1>1, <2>2, <2>3
      DEF Held, State, Request, Row, Page, ViewModel, Dates, PluginSteps, HasObject,
          ViewSteps, DateSteps
    <2>6. ASSUME rq[t].alone PROVE Sound(r2)'
      <3>1. MenusSound(r2)'
        BY <1>1, <2>2, <2>3, <2>6 DEF Held, ViewSteps, PluginSteps, Sound, MenusSound
      <3>2. PluginSound(r2)'
        BY <1>1, <2>2, <2>3, <2>6 DEF Held, ViewSteps, PluginSteps, Sound, PluginSound
      <3>3. PageSound(r2)'
        BY <1>1, <2>2, <2>3, <2>6 DEF Held, Sound, PageSound, Shows
      <3>4. ViewSound(r2)'
        BY <1>1, <2>2, <2>3, <2>6
        DEF Held, ViewSteps, PluginSteps, Sound, ViewSound, Shows
      <3>5. CopySound(r2)'
        BY <1>1, <2>2, <2>3, <2>6 DEF Held, Sound, CopySound, State, Row, Copy, Dates, DateSteps
      <3> QED
        BY <3>1, <3>2, <3>3, <3>4, <3>5 DEF Sound
    <2>7. clock <= clock' /\ rq[t].pc # "idle" /\ r2.pc # "idle"
      BY <1>1, <2>2, <2>3
    <2> QED
      BY <2>2, <2>3, <2>4, <2>5, <2>6, <2>7, Moved
  <1>4. CASE ViewPage(t) /\ cachedPage # NoModel /\ rq[t].body = NoModel
    <2>1. PICK r2 : r2 = [[rq[t] EXCEPT !.vm = cachedPage, !.body = cachedPage] EXCEPT !.pc = "view:menu"]
      OBVIOUS
    <2>2. /\ rq' = [rq EXCEPT ![t] = r2] /\ sound' = sound /\ rq[t].pc \in {"view:page", "view:again"}
          /\ cachedPage # NoModel
          /\ UNCHANGED <<settings, plugin, page, menus, cachedPlugin, objects,
                         cachedPage, copy, clock, begun, faults>>
      BY <1>1, <1>4, <2>1 DEF At, Go, Step, ViewPage, Found, rows, caches
    <2>3. /\ r2 \in Request /\ r2.pc = "view:menu" /\ r2.alone = rq[t].alone
          /\ r2.vm = cachedPage
          /\ r2.body = cachedPage
          /\ r2.op = rq[t].op /\ r2.kind = rq[t].kind /\ r2.form = rq[t].form
          /\ r2.obj = rq[t].obj /\ r2.row = rq[t].row /\ r2.read = rq[t].read
          /\ r2.menu = rq[t].menu
      BY <1>1, <2>1, <2>2 DEF Steps, Request, State, Page, Row, ViewModel
    <2>4. State'
      BY <1>1, <2>2 DEF State, Held, Request, Row, Page, ViewModel, Dates
    <2>5. Held(r2)'
      BY <1>1, <2>2, <2>3
      DEF Held, State, Request, Row, Page, ViewModel, Dates, PluginSteps, HasObject,
          ViewSteps, DateSteps
    <2>6. ASSUME rq[t].alone PROVE Sound(r2)'
      <3>1. MenusSound(r2)'
        BY <1>1, <2>2, <2>3, <2>6 DEF Held, ViewSteps, PluginSteps, Sound, MenusSound
      <3>2. PluginSound(r2)'
        BY <1>1, <2>2, <2>3, <2>6 DEF Held, ViewSteps, PluginSteps, Sound, PluginSound
      <3>3. PageSound(r2)'
        BY <1>1, <2>2, <2>3, <2>6 DEF Held, Sound, PageSound, Shows
      <3>4. ViewSound(r2)'
        BY <1>1, <2>2, <2>3, <2>6
        DEF Held, ViewSteps, PluginSteps, Sound, ViewSound, Shows, PageSound, Parts
      <3>5. CopySound(r2)'
        BY <1>1, <2>2, <2>3, <2>6 DEF Held, Sound, CopySound, State, Row, Copy, Dates, DateSteps
      <3> QED
        BY <3>1, <3>2, <3>3, <3>4, <3>5 DEF Sound
    <2>7. clock <= clock' /\ rq[t].pc # "idle" /\ r2.pc # "idle"
      BY <1>1, <2>2, <2>3
    <2> QED
      BY <2>2, <2>3, <2>4, <2>5, <2>6, <2>7, Moved
  <1>5. CASE ViewPage(t) /\ cachedPage # NoModel /\ rq[t].body # NoModel
    <2>1. PICK r2 : r2 = [[rq[t] EXCEPT !.vm = cachedPage] EXCEPT !.pc = "view:answer"]
      OBVIOUS
    <2>2. /\ rq' = [rq EXCEPT ![t] = r2] /\ sound' = sound /\ rq[t].pc \in {"view:page", "view:again"}
          /\ cachedPage # NoModel /\ rq[t].body # NoModel
          /\ UNCHANGED <<settings, plugin, page, menus, cachedPlugin, objects,
                         cachedPage, copy, clock, begun, faults>>
      BY <1>1, <1>5, <2>1 DEF At, Go, Step, ViewPage, Found, rows, caches
    <2>3. /\ r2 \in Request /\ r2.pc = "view:answer" /\ r2.alone = rq[t].alone
          /\ r2.vm = cachedPage
          /\ r2.op = rq[t].op /\ r2.kind = rq[t].kind /\ r2.form = rq[t].form
          /\ r2.obj = rq[t].obj /\ r2.row = rq[t].row /\ r2.read = rq[t].read
          /\ r2.body = rq[t].body /\ r2.menu = rq[t].menu
      BY <1>1, <2>1, <2>2 DEF Steps, Request, State, Page, Row, ViewModel
    <2>4. State'
      BY <1>1, <2>2 DEF State, Held, Request, Row, Page, ViewModel, Dates
    <2>5. Held(r2)'
      BY <1>1, <2>2, <2>3
      DEF Held, State, Request, Row, Page, ViewModel, Dates, PluginSteps, HasObject,
          ViewSteps, DateSteps
    <2>6. ASSUME rq[t].alone PROVE Sound(r2)'
      <3>1. MenusSound(r2)'
        BY <1>1, <2>2, <2>3, <2>6 DEF Held, ViewSteps, PluginSteps, Sound, MenusSound
      <3>2. PluginSound(r2)'
        BY <1>1, <2>2, <2>3, <2>6 DEF Held, ViewSteps, PluginSteps, Sound, PluginSound
      <3>3. PageSound(r2)'
        BY <1>1, <2>2, <2>3, <2>6 DEF Held, Sound, PageSound, Shows
      <3>4. ViewSound(r2)'
        BY <1>1, <2>2, <2>3, <2>6
        DEF Held, ViewSteps, PluginSteps, Sound, ViewSound, Shows, PageSound, Parts
      <3>5. CopySound(r2)'
        BY <1>1, <2>2, <2>3, <2>6 DEF Held, Sound, CopySound, State, Row, Copy, Dates, DateSteps
      <3> QED
        BY <3>1, <3>2, <3>3, <3>4, <3>5 DEF Sound
    <2>7. clock <= clock' /\ rq[t].pc # "idle" /\ r2.pc # "idle"
      BY <1>1, <2>2, <2>3
    <2> QED
      BY <2>2, <2>3, <2>4, <2>5, <2>6, <2>7, Moved
  <1>6. CASE ViewLoad(t)
    <2>1. PICK r2 : r2 = [[rq[t] EXCEPT !.read = IF @ = NoPage THEN page ELSE @] EXCEPT !.pc = "plugin:get"]
      OBVIOUS
    <2>2. /\ rq' = [rq EXCEPT ![t] = r2] /\ sound' = sound /\ rq[t].pc = "view:load"
          /\ UNCHANGED <<settings, plugin, page, menus, cachedPlugin, objects,
                         cachedPage, copy, clock, begun, faults>>
      BY <1>1, <1>6, <2>1 DEF At, Go, Step, ViewLoad, rows, caches
    <2>3. /\ r2 \in Request /\ r2.pc = "plugin:get" /\ r2.alone = rq[t].alone
          /\ r2.read = IF rq[t].read = NoPage THEN page ELSE rq[t].read
          /\ r2.op = rq[t].op /\ r2.kind = rq[t].kind /\ r2.form = rq[t].form
          /\ r2.obj = rq[t].obj /\ r2.row = rq[t].row /\ r2.vm = rq[t].vm
          /\ r2.body = rq[t].body /\ r2.menu = rq[t].menu
      BY <1>1, <2>1, <2>2 DEF Steps, Request, State, Page, Row, ViewModel
    <2>4. State'
      BY <1>1, <2>2 DEF State, Held, Request, Row, Page, ViewModel, Dates
    <2>5. Held(r2)'
      BY <1>1, <2>2, <2>3
      DEF Held, State, Request, Row, Page, ViewModel, Dates, PluginSteps, HasObject,
          ViewSteps, DateSteps
    <2>6. ASSUME rq[t].alone PROVE Sound(r2)'
      <3>1. MenusSound(r2)'
        BY <1>1, <2>2, <2>3, <2>6 DEF Held, ViewSteps, PluginSteps, Sound, MenusSound
      <3>2. PluginSound(r2)'
        BY <1>1, <2>2, <2>3, <2>6 DEF Held, ViewSteps, PluginSteps, Sound, PluginSound
      <3>3. PageSound(r2)'
        BY <1>1, <2>2, <2>3, <2>6 DEF Held, Sound, PageSound, Shows
      <3>4. ViewSound(r2)'
        BY <1>1, <2>2, <2>3, <2>6
        DEF Held, ViewSteps, PluginSteps, Sound, ViewSound, Shows
      <3>5. CopySound(r2)'
        BY <1>1, <2>2, <2>3, <2>6 DEF Held, Sound, CopySound, State, Row, Copy, Dates, DateSteps
      <3> QED
        BY <3>1, <3>2, <3>3, <3>4, <3>5 DEF Sound
    <2>7. clock <= clock' /\ rq[t].pc # "idle" /\ r2.pc # "idle"
      BY <1>1, <2>2, <2>3
    <2> QED
      BY <2>2, <2>3, <2>4, <2>5, <2>6, <2>7, Moved
  <1>7. CASE ViewConvert(t)
    <2>1. PICK r2 : r2 = [[rq[t] EXCEPT !.vm = [text |-> rq[t].read.text, modified |-> rq[t].read.modified,
                                                    plugin |-> objects[rq[t].obj]],
                                            !.obj = 0] EXCEPT !.pc = "view:add"]
      OBVIOUS
    <2>2. /\ rq' = [rq EXCEPT ![t] = r2] /\ sound' = sound /\ rq[t].pc = "view:convert"
          /\ rq[t].obj \in Objects
          /\ UNCHANGED <<settings, plugin, page, menus, cachedPlugin, objects,
                         cachedPage, copy, clock, begun, faults>>
      BY <1>1, <1>7, <2>1 DEF At, Go, Step, ViewConvert, rows, caches, Held, HasObject
    <2>3. /\ r2 \in Request /\ r2.pc = "view:add" /\ r2.alone = rq[t].alone
          /\ r2.vm = [text |-> rq[t].read.text, modified |-> rq[t].read.modified,
                  plugin |-> objects[rq[t].obj]]
          /\ r2.obj = 0
          /\ r2.op = rq[t].op /\ r2.kind = rq[t].kind /\ r2.form = rq[t].form
          /\ r2.row = rq[t].row /\ r2.read = rq[t].read /\ r2.body = rq[t].body
          /\ r2.menu = rq[t].menu
      BY <1>1, <2>1, <2>2 DEF Steps, Request, State, Page, Row, ViewModel
    <2>4. State'
      BY <1>1, <2>2 DEF State, Held, Request, Row, Page, ViewModel, Dates
    <2>5. Held(r2)'
      BY <1>1, <2>2, <2>3
      DEF Held, State, Request, Row, Page, ViewModel, Dates, PluginSteps, HasObject,
          ViewSteps, DateSteps
    <2>6. ASSUME rq[t].alone PROVE Sound(r2)'
      <3>1. MenusSound(r2)'
        BY <1>1, <2>2, <2>3, <2>6 DEF Held, ViewSteps, PluginSteps, Sound, MenusSound
      <3>2. PluginSound(r2)'
        BY <1>1, <2>2, <2>3, <2>6 DEF Held, ViewSteps, PluginSteps, Sound, PluginSound
      <3>3. PageSound(r2)'
        BY <1>1, <2>2, <2>3, <2>6 DEF Held, Sound, PageSound, Shows
      <3>4. ViewSound(r2)'
        BY <1>1, <2>2, <2>3, <2>6
        DEF Held, ViewSteps, PluginSteps, Sound, ViewSound, Shows
      <3>5. CopySound(r2)'
        BY <1>1, <2>2, <2>3, <2>6 DEF Held, Sound, CopySound, State, Row, Copy, Dates, DateSteps
      <3> QED
        BY <3>1, <3>2, <3>3, <3>4, <3>5 DEF Sound
    <2>7. clock <= clock' /\ rq[t].pc # "idle" /\ r2.pc # "idle"
      BY <1>1, <2>2, <2>3
    <2> QED
      BY <2>2, <2>3, <2>4, <2>5, <2>6, <2>7, Moved
  <1>8. CASE ViewAdd(t) /\ rq[t].body = NoModel
    <2>1. PICK r2 : r2 = [[rq[t] EXCEPT !.vm = rq[t].vm, !.body = rq[t].vm] EXCEPT !.pc = "view:menu"]
      OBVIOUS
    <2>2. /\ rq' = [rq EXCEPT ![t] = r2] /\ sound' = sound /\ rq[t].pc = "view:add"
          /\ cachedPage' = IF cachedPage = NoModel THEN rq[t].vm ELSE cachedPage
          /\ UNCHANGED <<settings, plugin, page, menus, cachedPlugin, objects, copy,
                         clock, begun, faults>>
      BY <1>1, <1>8, <2>1 DEF At, Go, Step, ViewAdd, Found, rows
    <2>3. /\ r2 \in Request /\ r2.pc = "view:menu" /\ r2.alone = rq[t].alone
          /\ r2.vm = rq[t].vm
          /\ r2.body = rq[t].vm
          /\ r2.op = rq[t].op /\ r2.kind = rq[t].kind /\ r2.form = rq[t].form
          /\ r2.obj = rq[t].obj /\ r2.row = rq[t].row /\ r2.read = rq[t].read
          /\ r2.menu = rq[t].menu
      BY <1>1, <2>1, <2>2 DEF Steps, Request, State, Page, Row, ViewModel
    <2>4. State'
      BY <1>1, <2>2 DEF State, Held, Request, Row, Page, ViewModel, Dates
    <2>5. Held(r2)'
      BY <1>1, <2>2, <2>3
      DEF Held, State, Request, Row, Page, ViewModel, Dates, PluginSteps, HasObject,
          ViewSteps, DateSteps
    <2>6. ASSUME rq[t].alone PROVE Sound(r2)'
      <3>1. MenusSound(r2)'
        BY <1>1, <2>2, <2>3, <2>6 DEF Held, ViewSteps, PluginSteps, Sound, MenusSound
      <3>2. PluginSound(r2)'
        BY <1>1, <2>2, <2>3, <2>6 DEF Held, ViewSteps, PluginSteps, Sound, PluginSound
      <3>3. PageSound(r2)'
        BY <1>1, <2>2, <2>3, <2>6 DEF Held, Sound, PageSound, Shows, ViewSound, ViewSteps
      <3>4. ViewSound(r2)'
        BY <1>1, <2>2, <2>3, <2>6
        DEF Held, ViewSteps, PluginSteps, Sound, ViewSound, Shows, PageSound, Parts
      <3>5. CopySound(r2)'
        BY <1>1, <2>2, <2>3, <2>6 DEF Held, Sound, CopySound, State, Row, Copy, Dates, DateSteps
      <3> QED
        BY <3>1, <3>2, <3>3, <3>4, <3>5 DEF Sound
    <2>7. clock <= clock' /\ rq[t].pc # "idle" /\ r2.pc # "idle"
      BY <1>1, <2>2, <2>3
    <2> QED
      BY <2>2, <2>3, <2>4, <2>5, <2>6, <2>7, Moved
  <1>9. CASE ViewAdd(t) /\ rq[t].body # NoModel
    <2>1. PICK r2 : r2 = [[rq[t] EXCEPT !.vm = rq[t].vm] EXCEPT !.pc = "view:answer"]
      OBVIOUS
    <2>2. /\ rq' = [rq EXCEPT ![t] = r2] /\ sound' = sound /\ rq[t].pc = "view:add"
          /\ rq[t].body # NoModel
          /\ cachedPage' = IF cachedPage = NoModel THEN rq[t].vm ELSE cachedPage
          /\ UNCHANGED <<settings, plugin, page, menus, cachedPlugin, objects, copy,
                         clock, begun, faults>>
      BY <1>1, <1>9, <2>1 DEF At, Go, Step, ViewAdd, Found, rows
    <2>3. /\ r2 \in Request /\ r2.pc = "view:answer" /\ r2.alone = rq[t].alone
          /\ r2.vm = rq[t].vm
          /\ r2.op = rq[t].op /\ r2.kind = rq[t].kind /\ r2.form = rq[t].form
          /\ r2.obj = rq[t].obj /\ r2.row = rq[t].row /\ r2.read = rq[t].read
          /\ r2.body = rq[t].body /\ r2.menu = rq[t].menu
      BY <1>1, <2>1, <2>2 DEF Steps, Request, State, Page, Row, ViewModel
    <2>4. State'
      BY <1>1, <2>2 DEF State, Held, Request, Row, Page, ViewModel, Dates
    <2>5. Held(r2)'
      BY <1>1, <2>2, <2>3
      DEF Held, State, Request, Row, Page, ViewModel, Dates, PluginSteps, HasObject,
          ViewSteps, DateSteps
    <2>6. ASSUME rq[t].alone PROVE Sound(r2)'
      <3>1. MenusSound(r2)'
        BY <1>1, <2>2, <2>3, <2>6 DEF Held, ViewSteps, PluginSteps, Sound, MenusSound
      <3>2. PluginSound(r2)'
        BY <1>1, <2>2, <2>3, <2>6 DEF Held, ViewSteps, PluginSteps, Sound, PluginSound
      <3>3. PageSound(r2)'
        BY <1>1, <2>2, <2>3, <2>6 DEF Held, Sound, PageSound, Shows, ViewSound, ViewSteps
      <3>4. ViewSound(r2)'
        BY <1>1, <2>2, <2>3, <2>6
        DEF Held, ViewSteps, PluginSteps, Sound, ViewSound, Shows, PageSound, Parts
      <3>5. CopySound(r2)'
        BY <1>1, <2>2, <2>3, <2>6 DEF Held, Sound, CopySound, State, Row, Copy, Dates, DateSteps
      <3> QED
        BY <3>1, <3>2, <3>3, <3>4, <3>5 DEF Sound
    <2>7. clock <= clock' /\ rq[t].pc # "idle" /\ r2.pc # "idle"
      BY <1>1, <2>2, <2>3
    <2> QED
      BY <2>2, <2>3, <2>4, <2>5, <2>6, <2>7, Moved
  <1>10. CASE ViewMenu(t) /\ menus[rq[t].kind] = None
    <2>1. PICK r2 : r2 = [[rq[t] EXCEPT !.menu = rq[t].row.menu] EXCEPT !.pc = "view:addmenu"]
      OBVIOUS
    <2>2. /\ rq' = [rq EXCEPT ![t] = r2] /\ sound' = sound /\ rq[t].pc = "view:menu"
          /\ UNCHANGED <<settings, plugin, page, menus, cachedPlugin, objects,
                         cachedPage, copy, clock, begun, faults>>
      BY <1>1, <1>10, <2>1 DEF At, Go, Step, ViewMenu, rows, caches
    <2>3. /\ r2 \in Request /\ r2.pc = "view:addmenu" /\ r2.alone = rq[t].alone
          /\ r2.menu = rq[t].row.menu
          /\ r2.op = rq[t].op /\ r2.kind = rq[t].kind /\ r2.form = rq[t].form
          /\ r2.obj = rq[t].obj /\ r2.row = rq[t].row /\ r2.read = rq[t].read
          /\ r2.vm = rq[t].vm /\ r2.body = rq[t].body
      BY <1>1, <2>1, <2>2 DEF Steps, Request, State, Page, Row, ViewModel
    <2>4. State'
      BY <1>1, <2>2 DEF State, Held, Request, Row, Page, ViewModel, Dates
    <2>5. Held(r2)'
      BY <1>1, <2>2, <2>3
      DEF Held, State, Request, Row, Page, ViewModel, Dates, PluginSteps, HasObject,
          ViewSteps, DateSteps
    <2>6. ASSUME rq[t].alone PROVE Sound(r2)'
      <3>1. MenusSound(r2)'
        BY <1>1, <2>2, <2>3, <2>6 DEF Held, ViewSteps, PluginSteps, Sound, MenusSound
      <3>2. PluginSound(r2)'
        BY <1>1, <2>2, <2>3, <2>6 DEF Held, ViewSteps, PluginSteps, Sound, PluginSound
      <3>3. PageSound(r2)'
        BY <1>1, <2>2, <2>3, <2>6 DEF Held, Sound, PageSound, Shows
      <3>4. ViewSound(r2)'
        BY <1>1, <2>2, <2>3, <2>6
        DEF Held, ViewSteps, PluginSteps, Sound, ViewSound, Shows
      <3>5. CopySound(r2)'
        BY <1>1, <2>2, <2>3, <2>6 DEF Held, Sound, CopySound, State, Row, Copy, Dates, DateSteps
      <3> QED
        BY <3>1, <3>2, <3>3, <3>4, <3>5 DEF Sound
    <2>7. clock <= clock' /\ rq[t].pc # "idle" /\ r2.pc # "idle"
      BY <1>1, <2>2, <2>3
    <2> QED
      BY <2>2, <2>3, <2>4, <2>5, <2>6, <2>7, Moved
  <1>11. CASE ViewMenu(t) /\ menus[rq[t].kind] # None /\ rq[t].kind = "visitor"
    <2>1. PICK r2 : r2 = [[rq[t] EXCEPT !.menu = menus[rq[t].kind]] EXCEPT !.pc = "view:again"]
      OBVIOUS
    <2>2. /\ rq' = [rq EXCEPT ![t] = r2] /\ sound' = sound /\ rq[t].pc = "view:menu"
          /\ menus[rq[t].kind] # None /\ rq[t].kind \in Kinds
          /\ UNCHANGED <<settings, plugin, page, menus, cachedPlugin, objects,
                         cachedPage, copy, clock, begun, faults>>
      BY <1>1, <1>11, <2>1
      DEF At, Go, Step, ViewMenu, ViewShown, rows, caches, Held, ViewSteps
    <2>3. /\ r2 \in Request /\ r2.pc = "view:again" /\ r2.alone = rq[t].alone
          /\ r2.menu = menus[rq[t].kind]
          /\ r2.op = rq[t].op /\ r2.kind = rq[t].kind /\ r2.form = rq[t].form
          /\ r2.obj = rq[t].obj /\ r2.row = rq[t].row /\ r2.read = rq[t].read
          /\ r2.vm = rq[t].vm /\ r2.body = rq[t].body
      BY <1>1, <2>1, <2>2 DEF Steps, Request, State, Page, Row, ViewModel
    <2>4. State'
      BY <1>1, <2>2 DEF State, Held, Request, Row, Page, ViewModel, Dates
    <2>5. Held(r2)'
      BY <1>1, <2>2, <2>3
      DEF Held, State, Request, Row, Page, ViewModel, Dates, PluginSteps, HasObject,
          ViewSteps, DateSteps
    <2>6. ASSUME rq[t].alone PROVE Sound(r2)'
      <3>1. MenusSound(r2)'
        BY <1>1, <2>2, <2>3, <2>6 DEF Held, ViewSteps, PluginSteps, Sound, MenusSound
      <3>2. PluginSound(r2)'
        BY <1>1, <2>2, <2>3, <2>6 DEF Held, ViewSteps, PluginSteps, Sound, PluginSound
      <3>3. PageSound(r2)'
        BY <1>1, <2>2, <2>3, <2>6 DEF Held, Sound, PageSound, Shows
      <3>4. ViewSound(r2)'
        BY <1>1, <2>2, <2>3, <2>6
        DEF Held, ViewSteps, PluginSteps, Sound, ViewSound, Shows, MenusSound, Parts
      <3>5. CopySound(r2)'
        BY <1>1, <2>2, <2>3, <2>6 DEF Held, Sound, CopySound, State, Row, Copy, Dates, DateSteps
      <3> QED
        BY <3>1, <3>2, <3>3, <3>4, <3>5 DEF Sound
    <2>7. clock <= clock' /\ rq[t].pc # "idle" /\ r2.pc # "idle"
      BY <1>1, <2>2, <2>3
    <2> QED
      BY <2>2, <2>3, <2>4, <2>5, <2>6, <2>7, Moved
  <1>12. CASE ViewMenu(t) /\ menus[rq[t].kind] # None /\ rq[t].kind # "visitor"
    <2>1. /\ rq' = [rq EXCEPT ![t] = Idle] /\ rq[t].pc = "view:menu"
          /\ sound' = sound
          /\ UNCHANGED <<settings, plugin, page, menus, cachedPlugin, objects,
                         cachedPage, copy, clock, begun, faults>>
      BY <1>1, <1>12 DEF At, End, Step, ViewMenu, ViewShown, rows, caches
    <2>2. State'
      BY <1>1, <2>1 DEF State, Held, Request, Row, Page, ViewModel, Dates, Parts
    <2>3. ASSUME rq[t].alone PROVE Sound(Idle)'
      <3>1. MenusSound(Idle)'
        BY <1>1, <2>1, <2>3 DEF Idle, Sound, MenusSound, None
      <3>2. PluginSound(Idle)'
        BY <1>1, <2>1, <2>3 DEF Idle, Sound, PluginSound
      <3>3. PageSound(Idle)'
        BY <1>1, <2>1, <2>3 DEF Idle, Sound, PageSound, Shows
      <3>4. ViewSound(Idle)'
        BY <1>1, <2>1, <2>3 DEF Idle, ViewSound, None
      <3>5. CopySound(Idle)'
        BY <1>1, <2>1, <2>3 DEF Idle, Sound, CopySound, State, Row, Copy, Dates, DateSteps
      <3> QED
        BY <3>1, <3>2, <3>3, <3>4, <3>5 DEF Sound
    <2>4. clock <= clock' /\ rq[t].pc # "idle"
      BY <1>1, <2>1
    <2> QED
      BY <2>1, <2>2, <2>3, <2>4, Ended, NothingSound
  <1>13. CASE ViewAddMenu(t) /\ rq[t].kind = "visitor"
    <2>1. PICK r2 : r2 = [[rq[t] EXCEPT !.menu = rq[t].menu] EXCEPT !.pc = "view:again"]
      OBVIOUS
    <2>2. /\ rq' = [rq EXCEPT ![t] = r2] /\ sound' = sound /\ rq[t].pc = "view:addmenu"
          /\ rq[t].kind \in Kinds
          /\ menus' = [menus EXCEPT ![rq[t].kind] = IF @ = None THEN rq[t].menu ELSE @]
          /\ UNCHANGED <<settings, plugin, page, cachedPlugin, objects, cachedPage,
                         copy, clock, begun, faults>>
      BY <1>1, <1>13, <2>1 DEF At, Go, Step, ViewAddMenu, ViewShown, rows, Held, ViewSteps
    <2>3. /\ r2 \in Request /\ r2.pc = "view:again" /\ r2.alone = rq[t].alone
          /\ r2.menu = rq[t].menu
          /\ r2.op = rq[t].op /\ r2.kind = rq[t].kind /\ r2.form = rq[t].form
          /\ r2.obj = rq[t].obj /\ r2.row = rq[t].row /\ r2.read = rq[t].read
          /\ r2.vm = rq[t].vm /\ r2.body = rq[t].body
      BY <1>1, <2>1, <2>2 DEF Steps, Request, State, Page, Row, ViewModel
    <2>4. State'
      BY <1>1, <2>2 DEF State, Held, Request, Row, Page, ViewModel, Dates
    <2>5. Held(r2)'
      BY <1>1, <2>2, <2>3
      DEF Held, State, Request, Row, Page, ViewModel, Dates, PluginSteps, HasObject,
          ViewSteps, DateSteps
    <2>6. ASSUME rq[t].alone PROVE Sound(r2)'
      <3>1. MenusSound(r2)'
        BY <1>1, <2>2, <2>3, <2>6
        DEF Held, ViewSteps, PluginSteps, Sound, MenusSound, State
      <3>2. PluginSound(r2)'
        BY <1>1, <2>2, <2>3, <2>6 DEF Held, ViewSteps, PluginSteps, Sound, PluginSound
      <3>3. PageSound(r2)'
        BY <1>1, <2>2, <2>3, <2>6 DEF Held, Sound, PageSound, Shows
      <3>4. ViewSound(r2)'
        BY <1>1, <2>2, <2>3, <2>6
        DEF Held, ViewSteps, PluginSteps, Sound, ViewSound, Shows, MenusSound, Parts
      <3>5. CopySound(r2)'
        BY <1>1, <2>2, <2>3, <2>6 DEF Held, Sound, CopySound, State, Row, Copy, Dates, DateSteps
      <3> QED
        BY <3>1, <3>2, <3>3, <3>4, <3>5 DEF Sound
    <2>7. clock <= clock' /\ rq[t].pc # "idle" /\ r2.pc # "idle"
      BY <1>1, <2>2, <2>3
    <2> QED
      BY <2>2, <2>3, <2>4, <2>5, <2>6, <2>7, Moved
  <1>14. CASE ViewAddMenu(t) /\ rq[t].kind # "visitor"
    <2>1. /\ rq' = [rq EXCEPT ![t] = Idle] /\ rq[t].pc = "view:addmenu"
          /\ sound' = sound
          /\ rq[t].kind \in Kinds
          /\ menus' = [menus EXCEPT ![rq[t].kind] = IF @ = None THEN rq[t].menu ELSE @]
          /\ UNCHANGED <<settings, plugin, page, cachedPlugin, objects, cachedPage,
                         copy, clock, begun, faults>>
      BY <1>1, <1>14 DEF At, End, Step, ViewAddMenu, ViewShown, rows, Held, ViewSteps
    <2>2. State'
      BY <1>1, <2>1 DEF State, Held, Request, Row, Page, ViewModel, Dates, Parts
    <2>3. ASSUME rq[t].alone PROVE Sound(Idle)'
      <3>1. MenusSound(Idle)'
        BY <1>1, <2>1, <2>3 DEF Idle, Sound, MenusSound, None, State
      <3>2. PluginSound(Idle)'
        BY <1>1, <2>1, <2>3 DEF Idle, Sound, PluginSound
      <3>3. PageSound(Idle)'
        BY <1>1, <2>1, <2>3 DEF Idle, Sound, PageSound, Shows
      <3>4. ViewSound(Idle)'
        BY <1>1, <2>1, <2>3 DEF Idle, ViewSound, None
      <3>5. CopySound(Idle)'
        BY <1>1, <2>1, <2>3 DEF Idle, Sound, CopySound, State, Row, Copy, Dates, DateSteps
      <3> QED
        BY <3>1, <3>2, <3>3, <3>4, <3>5 DEF Sound
    <2>4. clock <= clock' /\ rq[t].pc # "idle"
      BY <1>1, <2>1
    <2> QED
      BY <2>1, <2>2, <2>3, <2>4, Ended, NothingSound
  <1> QED
    BY <1>2, <1>3, <1>4, <1>5, <1>6, <1>7, <1>8, <1>9, <1>10, <1>11, <1>12, <1>13,
       <1>14
    DEF View

(* BrowserCacheAttribute.                                                  *)
LEMMA AnswerKept ==
    ASSUME SiteInv, NEW t \in Threads, ViewAnswer(t)
    PROVE  SiteInv'
  <1>1. /\ State /\ Held(rq[t]) /\ rq[t] \in Request /\ clock \in Nat
        /\ rq[t].alone => Sound(rq[t])
    BY Basics
  <1>2. /\ rq' = [rq EXCEPT ![t] = Idle] /\ rq[t].pc = "view:answer"
        /\ sound' = sound
        /\ copy' = IF NotModified(t) THEN copy
                    ELSE [text |-> rq[t].body.text, plugin |-> rq[t].body.plugin,
                          menu |-> rq[t].menu, lastModified |-> LastModified(t),
                          sent |-> clock]
        /\ UNCHANGED <<settings, plugin, page, menus, cachedPlugin, objects, cachedPage, clock,
                       begun, faults>>
    BY DEF ViewAnswer, At, End, rows, caches
  <1>3. LastModified(t) \in Nat
    <2>1. rq[t].row.date \in Nat /\ rq[t].vm.modified \in Nat
      BY <1>1 DEF Request, Row, ViewModel, Dates
    <2>2. Second(rq[t].row.date) \in Nat /\ Second(rq[t].vm.modified) \in Nat
      BY <2>1, SecondBegins
    <2> QED
      BY <2>2 DEF LastModified
  <1>4. copy' \in Copy /\ copy'.sent <= clock
    <2>2. CASE NotModified(t)
      BY <1>1, <1>2, <2>2 DEF State
    <2>3. CASE ~NotModified(t)
      BY <1>1, <1>2, <1>3, <2>3 DEF Request, ViewModel, Copy, Dates
    <2> QED
      BY <2>2, <2>3
  <1>5. State'
    BY <1>1, <1>2, <1>4 DEF State
  <1>6. ASSUME rq[t].alone PROVE Sound(Idle)'
    <2>1. MenusSound(Idle)'
      BY <1>1, <1>2, <1>6 DEF Idle, Sound, MenusSound, None
    <2>2. PluginSound(Idle)'
      BY <1>1, <1>2, <1>6 DEF Idle, Sound, PluginSound
    <2>3. PageSound(Idle)'
      BY <1>1, <1>2, <1>6 DEF Idle, Sound, PageSound, Shows
    <2>4. ViewSound(Idle)'
      BY DEF Idle, ViewSound, None
    <2>5. CopySound(Idle)'
      <3>1. CASE NotModified(t)
        BY <1>1, <1>2, <1>6, <3>1 DEF Idle, Sound, CopySound, DateSteps
      <3>2. CASE ~NotModified(t)
        <4>1. "copy" \in sound => sound = Parts
          BY <1>1, <1>6 DEF Sound, CopySound
        <4>2. sound = Parts => /\ rq[t].body.text = page.text /\ rq[t].body.plugin = plugin
                               /\ rq[t].body # NoModel
          <5>1. page.modified # 0 /\ rq[t].op = "view"
            BY <1>1, <1>2 DEF State, Held, ViewSteps
          <5>2. sound = Parts => Shows(rq[t].body)
            BY <1>1, <1>2, <1>6, <5>1 DEF Sound, ViewSound, Parts
          <5> QED
            BY <5>1, <5>2 DEF Shows, NoModel
        <4>3. sound = Parts => rq[t].menu = settings.menu
          BY <1>1, <1>2, <1>6, <4>2 DEF Sound, ViewSound, Held, ViewSteps
        <4>4. ASSUME sound = Parts
              PROVE  copy'.text = page.text /\ copy'.menu = settings.menu /\ copy'.plugin = plugin
          BY <1>2, <3>2, <4>2, <4>3, <4>4
        <4> QED
          BY <1>2, <4>1, <4>4 DEF Idle, CopySound, DateSteps
      <3> QED
        BY <3>1, <3>2
    <2> QED
      BY <2>1, <2>2, <2>3, <2>4, <2>5 DEF Sound
  <1>7. clock <= clock' /\ rq[t].pc # "idle"
    BY <1>1, <1>2
  <1> QED
    BY <1>2, <1>5, <1>6, <1>7, Ended, NothingSound

LEMMA FailureKept ==
    ASSUME SiteInv, NEW t \in Threads, DatabaseThrows(t)
    PROVE  SiteInv'
  <1>1. /\ State /\ Held(rq[t]) /\ rq[t] \in Request /\ clock \in Nat
        /\ rq[t].alone => Sound(rq[t])
    BY Basics
  <1>2. /\ rq' = [rq EXCEPT ![t] = Idle] /\ rq[t].pc # "idle" /\ sound' = {}
        /\ faults < MaxFaults /\ faults' = faults + 1
        /\ UNCHANGED <<settings, plugin, page, menus, cachedPlugin, objects, cachedPage, copy,
                       clock, begun>>
    BY DEF DatabaseThrows, rows, caches
  <1>3. faults' \in 0..MaxFaults
    <2>1. faults \in 0..MaxFaults
      BY <1>1 DEF State
    <2> QED
      BY <1>2, <2>1, Bounds
  <1>4. State'
    BY <1>1, <1>2, <1>3 DEF State
  <1>5. clock <= clock'
    BY <1>1, <1>2
  <1> QED
    BY <1>2, <1>4, <1>5, Ended, NothingSound

(* How each request begins.                                                *)
Fresh(r, pc) ==
    /\ r.obj = 0 /\ r.row = NoRow /\ r.read = NoPage /\ r.vm = NoModel /\ r.body = NoModel
    /\ \/ r.op = "savesettings" /\ pc = "save:row" /\ r.form \in Menus
       \/ r.op = "editplugin" /\ pc = "plugin:get" /\ r.form \in Values
       \/ r.op = "clearcache" /\ pc = "clear:pages"
       \/ r.op = "savepage" /\ pc = "page:row"
       \/ r.op = "view" /\ pc = "view:row" /\ r.kind \in Kinds
    /\ pc \in {"save:row", "page:row"} => r.since = clock

LEMMA FreshBegun ==
    ASSUME SiteInv, NEW t \in Threads, NEW r \in Request, NEW pc, Fresh(r, pc), Begin(t, r, pc)
    PROVE  SiteInv'
  <1>1. PICK first : first = [r EXCEPT !.pc = pc, !.alone = TRUE]
    OBVIOUS
  <1>2. pc \in {"save:row", "plugin:get", "clear:pages", "page:row", "view:row"}
    BY DEF Fresh
  <1>3. first \in Request /\ first.alone /\ first.pc = pc
    BY <1>1, <1>2 DEF Request, Steps
  <1>4. /\ first.op = r.op /\ first.form = r.form /\ first.kind = r.kind /\ first.obj = 0
        /\ first.row = NoRow /\ first.read = NoPage /\ first.vm = NoModel /\ first.body = NoModel
        /\ first.since = r.since
    BY <1>1 DEF Request, Fresh
  <1>5. /\ clock \in Nat /\ clock >= 1 /\ copy.sent <= clock
        /\ NoRow.date = 0 /\ NoPage.modified = 0 /\ NoModel.modified = 0
    BY DEF SiteInv, State, NoRow, NoPage, NoModel
  <1>6. Held(first)
    BY <1>3, <1>4, <1>5 DEF Fresh, Held, PluginSteps, ViewSteps, HasObject, DateSteps
  <1>7. ASSUME Sound(Idle) PROVE Sound(first)
    <2>1. MenusSound(first)
      BY <1>2, <1>3, <1>4, <1>7 DEF Fresh, Idle, Sound, MenusSound
    <2>2. PluginSound(first)
      BY <1>2, <1>3, <1>4, <1>7 DEF Idle, Sound, PluginSound
    <2>3. PageSound(first)
      BY <1>2, <1>3, <1>4, <1>7 DEF Idle, Sound, PageSound, Shows
    <2>4. ViewSound(first)
      BY <1>2, <1>3, <1>4 DEF Fresh, ViewSound, PluginSteps
    <2>5. CopySound(first)
      BY <1>2, <1>3, <1>4, <1>5, <1>7 DEF Idle, Sound, CopySound, Fresh, DateSteps
    <2> QED
      BY <2>1, <2>2, <2>3, <2>4, <2>5 DEF Sound
  <1>8. pc \in Steps \ {"idle"}
    BY <1>2 DEF Steps
  <1> QED
    BY <1>1, <1>6, <1>7, <1>8, Begun

LEMMA StartsKept ==
    ASSUME SiteInv, NEW t \in Threads, Starts(t)
    PROVE  SiteInv'
  <1>1. Idle \in Request /\ clock \in Dates
    BY IdleHeld DEF SiteInv, Held, State, Dates
  <1>2. CASE BeginSaveSettings(t)
    <2>1. PICK m \in Menus : Begin(t, [Idle EXCEPT !.op = "savesettings", !.form = m, !.since = clock],
                                  "save:row")
      BY <1>2 DEF BeginSaveSettings
    <2>2. PICK r : r = [Idle EXCEPT !.op = "savesettings", !.form = m, !.since = clock]
      OBVIOUS
    <2>3. r \in Request /\ Fresh(r, "save:row")
      BY <1>1, <2>1, <2>2 DEF Begin, Idle, Request, Fresh
    <2> QED
      BY <2>1, <2>2, <2>3, FreshBegun
  <1>3. CASE BeginEditPlugin(t)
    <2>1. PICK v \in Values : Begin(t, [Idle EXCEPT !.op = "editplugin", !.form = v], "plugin:get")
      BY <1>3 DEF BeginEditPlugin
    <2>2. PICK r : r = [Idle EXCEPT !.op = "editplugin", !.form = v]
      OBVIOUS
    <2>3. r \in Request /\ Fresh(r, "plugin:get")
      BY <1>1, <2>1, <2>2 DEF Begin, Idle, Request, Fresh
    <2> QED
      BY <2>1, <2>2, <2>3, FreshBegun
  <1>4. CASE BeginClearCache(t)
    <2>1. Begin(t, [Idle EXCEPT !.op = "clearcache"], "clear:pages")
      BY <1>4 DEF BeginClearCache
    <2>2. PICK r : r = [Idle EXCEPT !.op = "clearcache"]
      OBVIOUS
    <2>3. r \in Request /\ Fresh(r, "clear:pages")
      BY <1>1, <2>1, <2>2 DEF Begin, Idle, Request, Fresh
    <2> QED
      BY <2>1, <2>2, <2>3, FreshBegun
  <1>5. CASE BeginSavePage(t)
    <2>1. Begin(t, [Idle EXCEPT !.op = "savepage", !.since = clock], "page:row")
      BY <1>5 DEF BeginSavePage
    <2>2. PICK r : r = [Idle EXCEPT !.op = "savepage", !.since = clock]
      OBVIOUS
    <2>3. r \in Request /\ Fresh(r, "page:row")
      BY <1>1, <2>1, <2>2 DEF Begin, Idle, Request, Fresh
    <2> QED
      BY <2>1, <2>2, <2>3, FreshBegun
  <1>6. CASE BeginView(t)
    <2>1. PICK k \in Kinds : Begin(t, [Idle EXCEPT !.op = "view", !.kind = k], "view:row")
      BY <1>6 DEF BeginView
    <2>2. PICK r : r = [Idle EXCEPT !.op = "view", !.kind = k]
      OBVIOUS
    <2>3. r \in Request /\ Fresh(r, "view:row")
      BY <1>1, <2>1, <2>2 DEF Begin, Idle, Request, Fresh
    <2> QED
      BY <2>1, <2>2, <2>3, FreshBegun
  <1> QED
    BY <1>2, <1>3, <1>4, <1>5, <1>6 DEF Starts

-----------------------------------------------------------------------------
LEMMA InitKept == Init => SiteInv
  <1> SUFFICES ASSUME Init PROVE SiteInv
    OBVIOUS
  <1>0. /\ TicksPerSecond \in Nat /\ TicksPerSecond >= 1
        /\ page.modified = TicksPerSecond + TicksPerSecond /\ page.text = 1
        /\ clock = page.modified
    BY SiteAssumption DEF Init
  <1>1. settings \in Row /\ settings.date = TicksPerSecond /\ settings.menu \in Menus
    BY <1>0 DEF Init, Row, Dates
  <1>2. /\ plugin \in Values \cup {None} /\ menus \in [Kinds -> Menus \cup {None}]
        /\ cachedPlugin \in Objects \cup {0}
        /\ cachedPage \in ViewModel /\ cachedPage.modified <= clock
        /\ copy \in Copy /\ copy.sent <= clock
    <2>1. 1 \in Objects
      <3>1. Cardinality(Threads) \in Nat
        BY SiteAssumption, FS_CardinalityType
      <3> QED
        BY <3>1 DEF Objects
    <2>2. CASE NothingCached
      BY <1>0, <2>2 DEF NothingCached, NoMenus, NoModel, NoCopy, ViewModel, Copy, Values, Default, Dates
    <2>3. CASE PageSeen
      BY <1>0, <1>1, <2>1, <2>3 DEF PageSeen, NoMenus, ViewModel, Copy, Values, Default, Dates
    <2> QED
      BY <2>2, <2>3 DEF Init
  <1>3. State
    BY <1>0, <1>1, <1>2, Bounds DEF Init, State, Page, Values, Default, Dates, Parts
  <1>4. Held(Idle) /\ Idle \in Request /\ ~Idle.alone /\ Idle.pc = "idle"
    BY <1>3, IdleHeld DEF Held
  <1>5. \A t \in Threads : rq[t] = Idle
    BY DEF Init
  <1>6. Sound(Idle)
    <2>1. MenusSound(Idle)
      BY <1>1 DEF Init, NothingCached, PageSeen, NoMenus, Idle, MenusSound, None
    <2>2. PluginSound(Idle)
      BY <1>2 DEF Init, NothingCached, PageSeen, Idle, PluginSound
    <2>3. PageSound(Idle)
      BY <1>0 DEF Init, NothingCached, PageSeen, Idle, PageSound, Parts, Shows
    <2>4. ViewSound(Idle)
      BY DEF Idle, ViewSound, None
    <2>5. CopySound(Idle)
      <3>1. CASE NothingCached
        <4>1. copy.lastModified = 0 /\ copy.sent = 0 /\ Second(0) \in Nat /\ Second(0) <= 0
          BY <3>1, SecondBegins DEF NothingCached, NoCopy
        <4> QED
          BY <4>1 DEF Init, Idle, CopySound, DateSteps
      <3>2. CASE PageSeen
        BY <1>0, <1>1, <3>2 DEF Init, PageSeen, Idle, CopySound, DateSteps
      <3> QED
        BY <3>1, <3>2 DEF Init
    <2> QED
      BY <2>1, <2>2, <2>3, <2>4, <2>5 DEF Sound
  <1> QED
    BY <1>3, <1>4, <1>5, <1>6 DEF Init, SiteInv, Overlaps, At

(* Time passes, for all that is of the past.                               *)
LEMMA TickKept ==
    ASSUME SiteInv, Tick
    PROVE  SiteInv'
  <1>1. /\ clock \in Nat /\ clock' = clock + 1
        /\ UNCHANGED <<settings, plugin, page, menus, cachedPlugin, objects, cachedPage, copy,
                       rq, begun, faults, sound>>
    BY DEF SiteInv, State, Tick, rows, caches
  <1>2. State'
    BY <1>1 DEF SiteInv, State, Row, Page, ViewModel, Copy, Dates
  <1>3. \A t \in Threads : Held(rq[t])'
    <2> TAKE t \in Threads
    <2>1. PICK r : r = rq[t] /\ r = rq'[t] /\ Held(r)
      BY <1>1 DEF SiteInv
    <2>2. Held(r)'
      BY <1>1, <2>1, HeldLater
    <2> QED
      BY <2>1, <2>2 DEF Held
  <1>4. \A r : Sound(r) => Sound(r)'
    BY <1>1 DEF Sound, MenusSound, PluginSound, PageSound, ViewSound, CopySound, Shows
  <1>5. \A t \in Threads : Sound(rq[t])' <=> Sound(rq[t])
    BY <1>1 DEF Sound, MenusSound, PluginSound, PageSound, ViewSound, CopySound, Shows
  <1> QED
    BY <1>1, <1>2, <1>3, <1>4, <1>5 DEF SiteInv, Overlaps, Quiet, At

LEMMA StepKept == SiteInv /\ [Next]_vars => SiteInv'
  <1> SUFFICES ASSUME SiteInv, [Next]_vars PROVE SiteInv'
    OBVIOUS
  <1>1. ASSUME NEW t \in Threads,
               \/ Starts(t) \/ ViewAnswer(t) \/ DatabaseThrows(t)
               \/ /\ SaveSettings(t) \/ EnsureSettings(t) \/ EditPlugin(t)
                     \/ ClearCache(t) \/ SavePage(t) \/ View(t)
                  /\ Step(t)
        PROVE  SiteInv'
    BY <1>1, StartsKept, AnswerKept, FailureKept, SaveSettingsKept, EnsureSettingsKept,
       EditPluginKept, ClearCacheKept, SavePageKept, ViewKept
  <1>2. CASE UNCHANGED vars
    BY <1>2 DEF vars, rows, caches, SiteInv, State, Held, Overlaps, At, Quiet, Sound, MenusSound,
                PluginSound, PageSound, ViewSound, CopySound, Shows
  <1> QED
    BY <1>1, <1>2, TickKept DEF Next, Finished

LEMMA SiteInvariant == Spec => []SiteInv
  BY InitKept, StepKept, PTL DEF Spec

(* All that is stored, cached and held by a request has its type; of the   *)
(* objects that plugin settings are kept in, there is always one free.     *)
THEOREM SettingsTypes == Spec => []TypeOK
  <1>1. SiteInv => TypeOK
    BY DEF SiteInv, State, TypeOK, Dates
  <1> QED
    BY <1>1, SiteInvariant, PTL

(* The menus of all kinds of users are those of the saved settings, unless *)
(* requests have overlapped since they were saved or the cache cleared.    *)
THEOREM MenusStayCurrent == Spec => []MenusAreCurrent
  <1>1. SiteInv => MenusAreCurrent
    BY DEF SiteInv, Sound, MenusSound, Idle, MenusAreCurrent
  <1> QED
    BY <1>1, SiteInvariant, PTL

(* So are the settings of a plugin, which all requests share, the saved    *)
(* ones.                                                                   *)
THEOREM PluginSettingsStayCurrent == Spec => []PluginSettingsAreCurrent
  <1>1. SiteInv => PluginSettingsAreCurrent
    BY DEF SiteInv, Sound, PluginSound, Idle, PluginSettingsAreCurrent
  <1> QED
    BY <1>1, SiteInvariant, PTL

(* A 304 that no other request overlaps, and none has since the caches     *)
(* were in order, is the answer for a copy that is the page as it is, or   *)
(* was sent in the second that dates it.                                   *)
THEOREM CopiesStayCurrent == Spec => CopyIsCurrent
  <1> DEFINE A == \A t \in Threads :
                    (Answers304(t) /\ rq[t].alone /\ sound = Parts /\ ~Ambiguous) =>
                       CopyIs(page.text, plugin, settings.menu)
  <1>1. SiteInv => A
    <2> SUFFICES ASSUME SiteInv, NEW t \in Threads, Answers304(t), rq[t].alone, sound = Parts,
                        ~Ambiguous
                 PROVE  CopyIs(page.text, plugin, settings.menu)
      OBVIOUS
    <2>1. State /\ Held(rq[t]) /\ Sound(rq[t]) /\ rq[t].pc = "view:answer" /\ NotModified(t)
      BY Basics DEF Answers304, At
    <2>2. rq[t].op = "view" /\ rq[t].row = settings /\ rq[t].vm.modified = page.modified
      BY <2>1 DEF Held, ViewSteps, Sound, MenusSound, ViewSound, Shows, Parts
    <2>3. /\ settings.date \in Nat /\ copy.lastModified \in Nat /\ page.modified \in Nat
          /\ copy.sent \in Nat
      BY <2>1 DEF State, Row, Copy, Page, Dates
    <2>4. /\ Second(settings.date) \in Nat /\ Second(copy.sent) \in Nat
          /\ Second(page.modified) \in Nat /\ Second(page.modified) <= page.modified
      BY <2>3, SecondBegins
    <2>5. Second(settings.date) <= copy.lastModified /\ Second(page.modified) <= copy.lastModified
      BY <2>1, <2>2, <2>3, <2>4 DEF NotModified, LastModified
    <2>6. "copy" \in sound /\ copy.lastModified < Second(copy.sent)
      BY <2>3, <2>4 DEF Parts, Ambiguous
    <2> QED
      BY <2>1, <2>5, <2>6 DEF Sound, CopySound, CopyIs
  <1>2. SiteInv /\ [Next]_vars => [A]_vars
    BY <1>1
  <1> QED
    BY <1>2, SiteInvariant, PTL DEF Spec, CopyIsCurrent

=============================================================================
