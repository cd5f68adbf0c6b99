------------------------------ MODULE Installer ------------------------------
(***************************************************************************)
(* The installation of Roadkill: the wizard in some browser windows        *)
(* (Scripts/roadkill/installer), InstallController, the configuration file *)
(* (FullTrustConfigReaderWriter), and the database it creates              *)
(* (InstallationService and the installer repositories).                   *)
(*                                                                         *)
(* Nothing keeps two installations apart, and none is a transaction: the   *)
(* file is made to say "installed" first, then tables are dropped, created *)
(* and filled one by one.  When a step fails, Step5 makes the file say     *)
(* "not installed" again; Unattended does not.                             *)
(*                                                                         *)
(* Whether a request is let in is decided by the section in memory, which  *)
(* each application domain has for itself.  A change of the file replaces  *)
(* the domain some time later; what it is at work on goes on in the old.   *)
(*                                                                         *)
(* Steps 2 to 4 of the wizard are forms that pass on what was typed, taken *)
(* for one page here; what is typed is valid.  Only forms authentication   *)
(* is modelled; of the tables only the two the installer writes to.        *)
(***************************************************************************)
EXTENDS Naturals, FiniteSets, TLC

CONSTANTS
    Windows,      \* browser windows; what is typed differs between them
    Opened,       \* those that have come to the last page of the wizard
    Backends,     \* "sql" (three providers of LightSpeed) and "mongodb"
    WithFaults,   \* may the file or the database fail, or the process die?
    MaxActs,      \* how many requests each window causes (a bound)
    MaxDomains,   \* how many application domains there are (a bound)
    MaxFaults     \* how many faults there are (a bound)

ASSUME InstallerAssumption ==
    /\ Opened \subseteq Windows
    /\ Backends \subseteq {"sql", "mongodb"}
    /\ WithFaults \in BOOLEAN
    /\ MaxActs \in [Windows -> Nat] /\ MaxFaults \in Nat
    /\ MaxDomains \in Nat \ {0}

VARIABLES
    installed,    \* the attribute of that name in the file
    memory,       \* the same in the memory of each application domain
    inStep,       \* has the file stayed as that domain has read or written it?
    domain,       \* the domain that new requests go to
    backend,
    tables,       \* the tables there are (none is needed in MongoDB)
    admins,       \* the administrators: how many of each window
    settings,     \* whose settings there are
    win, calls,
    acts, faults, \* counters for the bounds
    stuck         \* an installation has failed and was not taken back

siteVars == <<installed, memory, inStep>>
dbVars == <<backend, tables, admins, settings>>
boundVars == <<acts, faults>>
vars == <<siteVars, domain, dbVars, win, calls, boundVars, stuck>>

Domains == 1..MaxDomains

InstallStages == {"save", "dropusers", "dropsettings", "createusers",
                  "createsettings", "addadmin", "savesettings", "register"}
Answers == {"ok", "failed", "redirect", "error"}
Stages == InstallStages \cup Answers \cup {"sent", "reset", "test", "language"}

Installations == {"step5", "unattended"}
Operations == Installations \cup {"testwebconfig", "step2"}

(* "w" is the window the answer goes to, if it still waits for it; "by"    *)
(* the one it came from; "n" tells equal requests of a window apart.       *)
(* "alone", which is not in the code: no other request has been let in     *)
(* while, or after, this one was at work.                                  *)
Call == [n : Nat, w : Windows \cup {"left"}, by : Windows, op : Operations,
         dom : Domains, stage : Stages, alone : BOOLEAN]

Pages == {"step1", "step4", "installed", "failed", "site", "error"}

TypeOK ==
    /\ installed \in BOOLEAN /\ stuck \in BOOLEAN
    /\ memory \in [Domains -> BOOLEAN] /\ inStep \in [Domains -> BOOLEAN]
    /\ domain \in Domains
    /\ backend \in Backends
    /\ tables \subseteq {"users", "siteconfiguration"}
    /\ admins \in [Windows -> Nat]
    /\ settings \subseteq Windows /\ Cardinality(settings) <= 1
    /\ win \in [Windows -> [page : Pages, continue : BOOLEAN]]
    /\ calls \subseteq Call
    /\ acts \in [Windows -> Nat] /\ faults \in 0..MaxFaults

Nobody == [w \in Windows |-> 0]

OnPage(page) == [page |-> page, continue |-> TRUE]

(* The wizards have come to their pages, and those on the first page have  *)
(* tested the file, before the first of the requests that are counted.     *)
Init ==
    /\ installed = FALSE /\ stuck = FALSE
    /\ memory = [d \in Domains |-> FALSE] /\ inStep = [d \in Domains |-> TRUE]
    /\ domain = 1
    /\ backend \in Backends
    /\ tables = {} /\ admins = Nobody /\ settings = {}
    /\ win = [w \in Windows |-> OnPage(IF w \in Opened THEN "step4" ELSE "step1")]
    /\ calls = {}
    /\ acts = Nobody /\ faults = 0

-----------------------------------------------------------------------------
(* Requests. *)

Advance(c, stage) == calls' = (calls \ {c}) \cup {[c EXCEPT !.stage = stage]}

AtWork(c) == c.stage \notin Answers \cup {"sent"}

HasTable(table) == backend = "mongodb" \/ table \in tables

(* InstallController.OnActionExecuting.  TestWebConfig answers nothing     *)
(* when Roadkill is installed, which the script takes for an error, unless *)
(* the user has logged in as an administrator, as anybody may have where   *)
(* there is one.                                                           *)
Refuses(c) == memory[c.dom]

MayBeAdmin == HasTable("users") /\ admins # Nobody

LetsIn(c) == ~memory[c.dom] \/ (c.op = "testwebconfig" /\ MayBeAdmin)

FirstStage(c) ==
    CASE c.op \in Installations -> "save"
      [] c.op = "testwebconfig" -> "test"
      [] c.op = "step2" -> "language"

Admit(c) ==
    /\ c.stage = "sent"
    /\ \/ /\ Refuses(c)
          /\ Advance(c, IF c.op = "testwebconfig" THEN "error" ELSE "redirect")
       \/ /\ LetsIn(c)
          /\ calls' = {[d EXCEPT !.alone = FALSE] : d \in calls \ {c}}
                        \cup {[c EXCEPT !.stage = FirstStage(c),
                                        !.alone = ~\E d \in calls : AtWork(d)]}
    /\ UNCHANGED <<siteVars, domain, dbVars, win, boundVars, stuck>>

Fault == WithFaults /\ faults < MaxFaults /\ faults' = faults + 1 /\ UNCHANGED acts

(* _config.Save, with the section in memory set before.  It throws if some *)
(* other domain has changed the file.                                      *)
SaveConfig(c, value, stage) ==
    /\ inStep[c.dom]
    /\ memory' = [memory EXCEPT ![c.dom] = value]
    /\ installed' = value
    /\ inStep' = [d \in Domains |-> d = c.dom]
    /\ Advance(c, stage)
    /\ UNCHANGED boundVars

SaveConfigThrows(c, value, stage) ==
    /\ IF inStep[c.dom] THEN Fault ELSE UNCHANGED boundVars
    /\ memory' = [memory EXCEPT ![c.dom] = value]
    /\ Advance(c, stage)
    /\ UNCHANGED <<installed, inStep>>

(* Step5 catches every exception; Unattended none. *)
Fails(c) == IF c.op = "step5" THEN "reset" ELSE "failed"

FailsStuck(c) == stuck' = (stuck \/ c.op = "unattended")

TestWebConfig(c) ==
    /\ c.stage = "test"
    /\ \/ SaveConfig(c, FALSE, "ok") /\ stuck' = FALSE
       \/ SaveConfigThrows(c, FALSE, "failed") /\ UNCHANGED stuck
    /\ UNCHANGED <<domain, dbVars, win>>

(* UpdateLanguage saves the whole file: "installed" as it is in memory. *)
Step2(c) ==
    /\ c.stage = "language"
    /\ \/ SaveConfig(c, memory[c.dom], "ok")
       \/ SaveConfigThrows(c, memory[c.dom], "failed")
    /\ UNCHANGED <<domain, dbVars, win, stuck>>

-----------------------------------------------------------------------------
(* FinalizeInstall. *)

Save(c) ==
    /\ c.stage = "save"
    /\ \/ SaveConfig(c, TRUE, "dropusers") /\ UNCHANGED stuck
       \/ SaveConfigThrows(c, TRUE, Fails(c)) /\ FailsStuck(c)
    /\ UNCHANGED <<domain, dbVars, win>>

DatabaseFails(c) ==
    /\ Advance(c, Fails(c)) /\ FailsStuck(c)
    /\ UNCHANGED dbVars

DatabaseDone(c, stage) == Advance(c, stage) /\ UNCHANGED <<boundVars, stuck>>

WithoutAdmins == admins' = Nobody /\ UNCHANGED <<backend, settings>>
WithoutSettings == settings' = {} /\ UNCHANGED <<backend, admins>>

(* A slip: the table is dropped, the collection forgotten. *)
DropUsersOfSql(c) ==
    /\ c.stage = "dropusers"
    /\ IF backend = "sql" THEN WithoutAdmins ELSE UNCHANGED <<backend, admins, settings>>
    /\ tables' = tables \ {"users"}
    /\ DatabaseDone(c, "dropsettings")

(* IF EXISTS ... DROP TABLE, or DropCollection *)
DropUsers(c) ==
    /\ c.stage = "dropusers"
    /\ WithoutAdmins
    /\ tables' = tables \ {"users"}
    /\ DatabaseDone(c, "dropsettings")

(* The collection is called SiteConfigurationEntity; "SiteConfiguration"   *)
(* is dropped.                                                             *)
DropSettings(c) ==
    /\ c.stage = "dropsettings"
    /\ IF backend = "mongodb"
       THEN UNCHANGED dbVars /\ DatabaseDone(c, "addadmin")
       ELSE /\ WithoutSettings
            /\ tables' = tables \ {"siteconfiguration"}
            /\ DatabaseDone(c, "createusers")

CreateTable(c, table, stage) ==
    IF table \in tables
    THEN DatabaseFails(c) /\ UNCHANGED boundVars
    ELSE /\ tables' = tables \cup {table}
         /\ DatabaseDone(c, stage)
         /\ UNCHANGED <<backend, admins, settings>>

CreateSchema(c) ==
    \/ c.stage = "createusers" /\ CreateTable(c, "users", "createsettings")
    \/ c.stage = "createsettings" /\ CreateTable(c, "siteconfiguration", "addadmin")

(* The id of the user is new every time, the name always "admin".  Only    *)
(* the id is a key.                                                        *)
AddAdminUser(c) ==
    /\ c.stage = "addadmin"
    /\ IF HasTable("users")
       THEN /\ admins' = [admins EXCEPT ![c.by] = @ + 1]
            /\ DatabaseDone(c, "savesettings")
            /\ UNCHANGED <<backend, tables, settings>>
       ELSE DatabaseFails(c) /\ UNCHANGED boundVars

(* A slip: the settings get a new id. *)
SaveMoreSettings(c) ==
    /\ c.stage = "savesettings"
    /\ IF HasTable("siteconfiguration")
       THEN /\ settings' = settings \cup {c.by}
            /\ DatabaseDone(c, "register")
            /\ UNCHANGED <<backend, tables, admins>>
       ELSE DatabaseFails(c) /\ UNCHANGED boundVars

(* The id of the settings is always the same: LightSpeed inserts the row,  *)
(* which fails when there is one; MongoDB replaces it.                     *)
SaveSettings(c) ==
    /\ c.stage = "savesettings"
    /\ IF HasTable("siteconfiguration") /\ (backend = "mongodb" \/ settings = {})
       THEN /\ settings' = {c.by}
            /\ DatabaseDone(c, "register")
            /\ UNCHANGED <<backend, tables, admins>>
       ELSE DatabaseFails(c) /\ UNCHANGED boundVars

(* AttachmentRouteHandler.RegisterRoute, once everything is saved. *)
RegisterRoute(c) ==
    /\ c.stage = "register"
    /\ DatabaseDone(c, "ok")
    /\ UNCHANGED dbVars

(* The database throws, or in the end RegisterRoute does, for which the    *)
(* file has no path, or one that is not allowed.                           *)
StageThrows(c) ==
    /\ c.stage \in InstallStages \ {"save"}
    /\ DatabaseFails(c)
    /\ Fault

Install(c) ==
    /\ \/ DropUsers(c) \/ DropSettings(c) \/ CreateSchema(c)
       \/ AddAdminUser(c) \/ SaveSettings(c) \/ RegisterRoute(c) \/ StageThrows(c)
    /\ UNCHANGED <<siteVars, domain, win>>

(* A slip: the section is changed and the file not saved. *)
ResetInMemory(c) ==
    /\ c.stage = "reset"
    /\ memory' = [memory EXCEPT ![c.dom] = FALSE]
    /\ Advance(c, "failed")
    /\ UNCHANGED <<installed, inStep, domain, dbVars, win, boundVars, stuck>>

(* The catch of Step5.  That the reset fails too is only one more error    *)
(* message on the page.                                                    *)
Reset(c) ==
    /\ c.stage = "reset"
    /\ \/ SaveConfig(c, FALSE, "failed") /\ stuck' = FALSE
       \/ SaveConfigThrows(c, FALSE, "failed") /\ stuck' = (stuck \/ installed)
    /\ UNCHANGED <<domain, dbVars, win>>

Server(c) ==
    \/ Admit(c) \/ TestWebConfig(c) \/ Step2(c)
    \/ Save(c) \/ Install(c) \/ Reset(c)

-----------------------------------------------------------------------------
(* Application domains. *)

StartDomain(value) ==
    /\ domain < MaxDomains
    /\ domain' = domain + 1
    /\ memory' = [memory EXCEPT ![domain + 1] = value]

(* Requests that were let in go on in the domain they came to. *)
Recycle ==
    /\ StartDomain(installed)
    /\ inStep' = [inStep EXCEPT ![domain + 1] = TRUE]
    /\ UNCHANGED <<installed, dbVars, win, calls, boundVars, stuck>>

Crash ==
    /\ StartDomain(installed)
    /\ inStep' = [inStep EXCEPT ![domain + 1] = TRUE]
    /\ Fault
    /\ stuck' = (stuck \/ (installed /\ \E c \in calls : c.op \in Installations /\ AtWork(c)))
    /\ calls' = {}
    /\ win' = [w \in Windows |->
                 IF \E c \in calls : c.w = w /\ c.op # "testwebconfig"
                 THEN OnPage("error") ELSE win[w]]
    /\ UNCHANGED <<installed, dbVars>>

(* "If your installation fails at any point, simply change" the attribute  *)
(* by hand.  Nobody does while an installation goes on.                    *)
ResetByHand ==
    /\ stuck /\ ~\E c \in calls : AtWork(c)
    /\ StartDomain(FALSE)
    /\ inStep' = [d \in Domains |-> d = domain + 1]
    /\ installed' = FALSE /\ stuck' = FALSE
    /\ calls' = {[c EXCEPT !.alone = FALSE] : c \in calls}
    /\ UNCHANGED <<dbVars, win, boundVars>>

-----------------------------------------------------------------------------
(* The wizard. *)

Causes(w) ==
    acts[w] < MaxActs[w] /\ acts' = [acts EXCEPT ![w] = @ + 1] /\ UNCHANGED faults

FreeNumber(w, op) ==
    CHOOSE n \in 1..(Cardinality(calls) + 1) :
        \A c \in calls : ~(c.by = w /\ c.op = op /\ c.n = n)

NewCall(w, op) == [n |-> FreeNumber(w, op), w |-> w, by |-> w, op |-> op,
                   dom |-> domain, stage |-> "sent", alone |-> FALSE]

(* To leave a page, or to submit its form again, is to stop waiting for    *)
(* the answers to what it has sent.                                        *)
Abandon(w) == {IF c.w = w THEN [c EXCEPT !.w = "left"] ELSE c : c \in calls}

Navigate(w, op) == Causes(w) /\ calls' = Abandon(w) \cup {NewCall(w, op)}

Quietly == UNCHANGED <<siteVars, domain, dbVars, stuck>>

ClickTestWebConfig(w) ==
    /\ win[w].page = "step1"
    /\ Causes(w)
    /\ calls' = calls \cup {NewCall(w, "testwebconfig")}
    /\ UNCHANGED win

Continue(w) ==
    /\ win[w].page = "step1" /\ win[w].continue
    /\ Navigate(w, "step2")
    /\ UNCHANGED win

(* The handler of the submit event disables #next-button, which is in none *)
(* of the pages.                                                           *)
Submit(w) ==
    /\ win[w].page = "step4"
    /\ Navigate(w, "step5")
    /\ UNCHANGED win

OpenUnattended(w) ==
    /\ Navigate(w, "unattended")
    /\ UNCHANGED win

GoBack(w) ==
    /\ win[w].page = "failed"
    /\ win' = [win EXCEPT ![w] = OnPage("step4")]
    /\ UNCHANGED <<calls, boundVars>>

User(w) ==
    /\ \/ ClickTestWebConfig(w) \/ Continue(w) \/ Submit(w)
       \/ OpenUnattended(w) \/ GoBack(w)
    /\ Quietly

(* OnTestWebConfigSuccess shows or hides the button; the other answers are *)
(* pages.                                                                  *)
NextWindow(c) ==
    CASE c.op = "testwebconfig" /\ c.stage = "error" -> win[c.w]
      [] c.op = "testwebconfig" -> [win[c.w] EXCEPT !.continue = c.stage = "ok"]
      [] c.stage = "redirect" -> OnPage("site")
      [] c.op = "step2" /\ c.stage = "ok" -> OnPage("step4")
      [] c.op \in Installations /\ c.stage = "ok" -> OnPage("installed")
      [] c.op = "step5" /\ c.stage = "failed" -> OnPage("failed")
      [] OTHER -> OnPage("error")

Handle(c) ==
    /\ c.stage \in Answers
    /\ calls' = calls \ {c}
    /\ win' = IF c.w = "left" THEN win ELSE [win EXCEPT ![c.w] = NextWindow(c)]
    /\ Quietly /\ UNCHANGED boundVars

Finished == acts = MaxActs /\ calls = {} /\ UNCHANGED vars

Next ==
    \/ \E c \in calls : Server(c) \/ Handle(c)
    \/ \E w \in Windows : User(w)
    \/ Recycle \/ Crash \/ ResetByHand
    \/ Finished

Spec == Init /\ [][Next]_vars

=============================================================================
