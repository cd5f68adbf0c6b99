----------------------------- MODULE UserService -----------------------------
(***************************************************************************)
(* Accounts: UserController and UserManagementController over              *)
(* FormsAuthUserService.  Each request is a sequence of repository calls,  *)
(* a step each, with nothing that ties them together; the forms people     *)
(* post were shown to them some time before.                               *)
(*                                                                         *)
(* Left out: who may manage users (AdminRequired), captchas, the demo      *)
(* site, the sending of emails (whoever has an email's key may use it),    *)
(* and requests that change nothing.                                       *)
(***************************************************************************)
EXTENDS UserRepository, FiniteSets

CONSTANTS
    Threads,      \* the request threads
    MaxRequests,  \* how many requests are sent (a bound)
    MaxForms,     \* how many forms are opened (a bound)
    NewPasswords, \* the passwords people choose
    LoggedIn,     \* the accounts whose users are logged in to start with
    Ops           \* the requests that are sent, and "recycle"

AllOps == {"adduser", "signup", "activate", "login", "logout", "resetpassword",
           "completereset", "changepassword", "edituser", "profile", "delete",
           "toggleadmin", "toggleeditor", "addpage", "updatepage"}

ASSUME RequestAssumption ==
    /\ MaxRequests \in Nat
    /\ MaxForms \in Nat
    /\ NewPasswords \subseteq Passwords
    /\ LoggedIn \subseteq DOMAIN SeedUsers
    /\ Ops \subseteq AllOps \cup {"recycle"}

VARIABLES
    cookies,  \* the accounts some browser has a login cookie of
    forms,    \* the forms shown for existing accounts and not closed
    rq,       \* the request each thread is executing
    started,  \* the number of requests sent so far
    cut       \* has a request been cut short? (serves the properties)

vars == <<tables, cookies, forms, rq, started, cut>>

Labels ==
    {"idle", "verify:username", "verify:email", "add:find", "insert", "save",
     "delete", "upd:email?", "upd:username?", "upd:load", "upd:details",
     "upd:email", "upd:saveemail", "upd:username", "upd:saveusername",
     "upd:contents", "upd:editedby", "upd:pages", "upd:createdby",
     "upd:modified", "upd:modifiedby", "pwd:load",
     "page:name", "page:add", "page:load", "page:save", "page:version"}

(* UserViewModel: the account as the form has it (none for a new one), and *)
(* what was typed.  An empty password asks for no change.                  *)
Model ==
    [id : Nat,
     existingEmail : Emails \cup {NoName}, existingUsername : Usernames \cup {NoName},
     newEmail : Emails \cup {NoName}, newUsername : Usernames \cup {NoName},
     password : Passwords \cup {NoName}]

Form == [id : Nat \ {0}, email : Emails, username : Usernames]

Request ==
    [op : AllOps, pc : Labels, model : Model,
     user : SUBSET User,             \* the User object in hand, if any
     seenUsers : SUBSET User,        \* the user rows the unit of work has
     seenPages : SUBSET AuthoredPage,  \* and the page rows
     pages : SUBSET AuthoredPage,    \* rows read and still to be processed
     contents : SUBSET AuthoredContent,
     author : Author]                \* who is writing a page

BlankModel == [id |-> 0, existingEmail |-> NoName, existingUsername |-> NoName,
               newEmail |-> NoName, newUsername |-> NoName, password |-> NoName]

Idle == [op |-> "login", pc |-> "idle", model |-> BlankModel, user |-> {},
         seenUsers |-> {}, seenPages |-> {}, pages |-> {}, contents |-> {},
         author |-> [name |-> NoName, who |-> 1]]

TypeOK ==
    /\ TablesTypeOK
    /\ cookies \subseteq Nat \ {0}
    /\ forms \subseteq Form
    /\ rq \in [Threads -> Request]
    /\ started \in Nat
    /\ cut \in BOOLEAN

Init ==
    /\ TablesInit
    /\ cookies = LoggedIn
    /\ forms = {}
    /\ rq = [t \in Threads |-> Idle]
    /\ started = 0
    /\ cut = FALSE

-----------------------------------------------------------------------------
At(t, label) == rq[t].pc = label

Become(t, request) == rq' = [rq EXCEPT ![t] = request]

Goto(t, label) == rq' = [rq EXCEPT ![t].pc = label]

Return(t) == rq' = [rq EXCEPT ![t] = Idle]

Begin(t, request) ==
    /\ At(t, "idle")
    /\ request.op \in Ops
    /\ started < MaxRequests
    /\ started' = started + 1
    /\ Become(t, request)

(* The request with a user read from the table: its own copy, if it has    *)
(* read that row before.                                                   *)
WithUser(request, user) ==
    [request EXCEPT !.user = {user}, !.seenUsers = @ \cup {user}]

Saved(request, user) ==
    [request EXCEPT !.user = {user},
                    !.seenUsers = {IF u.id = user.id THEN user ELSE u : u \in @}]

(* The requests that read one user, change it and save it. *)
BeginSave(t, op, row, changed) ==
    /\ Begin(t, [WithUser([Idle EXCEPT !.op = op, !.pc = "save"], row)
                   EXCEPT !.user = {changed}])

SaveUser(t) ==
    /\ At(t, "save")
    /\ \E u \in rq[t].user : UpdateUserRow(u)
    /\ Return(t)
    /\ UNCHANGED <<cookies, forms, started>>

-----------------------------------------------------------------------------
(* Logging in needs the right password; that the account is activated is   *)
(* not asked.                                                              *)
Login(t) ==
    /\ \E u \in users : cookies' = cookies \cup {u.id} /\ u.id \notin cookies
    /\ Begin(t, [Idle EXCEPT !.op = "login"])
    /\ UNCHANGED <<tables, forms>>

Logout(t) ==
    /\ \E id \in cookies : cookies' = cookies \ {id}
    /\ Begin(t, [Idle EXCEPT !.op = "logout"])
    /\ UNCHANGED <<tables, forms>>

(* ActivateUser, by the key that was mailed.  A key works once. *)
Activate(t) ==
    /\ \E v \in users : \E u \in GetUserByActivationKey(v.activationKey) :
         /\ v.activationKey # 0
         /\ BeginSave(t, "activate", u, [u EXCEPT !.isActivated = TRUE])
    /\ UNCHANGED <<tables, cookies, forms>>

ResetPassword(t) ==
    /\ \E u \in users :
         BeginSave(t, "resetpassword", u, [u EXCEPT !.resetKey = nextGuid])
    /\ nextGuid' = nextGuid + 1
    /\ UNCHANGED <<users, pages, contents, cookies, forms>>

(* The user is found by the key, and then, in ChangePassword, by email. *)
CompleteResetPassword(t) ==
    /\ \E v \in users : \E u \in GetUserByPasswordResetKey(v.resetKey), password \in NewPasswords :
         /\ v.resetKey # 0
         /\ Begin(t, WithUser([Idle EXCEPT !.op = "completereset", !.pc = "pwd:load",
                                           !.model.existingEmail = u.email,
                                           !.model.password = password], u))
    /\ UNCHANGED <<tables, cookies, forms>>

(* The ChangePassword that asks for the old password. *)
ChangeKnownPassword(t) ==
    /\ \E u \in users, password \in NewPasswords :
         BeginSave(t, "changepassword", u, [u EXCEPT !.password = password])
    /\ UNCHANGED <<tables, cookies, forms>>

ToggleAdmin(t) ==
    /\ \E u \in users :
         BeginSave(t, "toggleadmin", u, [u EXCEPT !.isAdmin = ~@])
    /\ UNCHANGED <<tables, cookies, forms>>

ToggleEditor(t) ==
    /\ \E u \in users :
         BeginSave(t, "toggleeditor", u, [u EXCEPT !.isEditor = ~@])
    /\ UNCHANGED <<tables, cookies, forms>>

DeleteUserFind(t) ==
    /\ \E u \in users :
         Begin(t, WithUser([Idle EXCEPT !.op = "delete", !.pc = "delete"], u))
    /\ UNCHANGED <<tables, cookies, forms>>

DeleteUser(t) ==
    /\ At(t, "delete")
    /\ \E u \in rq[t].user : DeleteUserRow(u)
    /\ Return(t)
    /\ UNCHANGED <<cookies, forms, started>>

-----------------------------------------------------------------------------
(* New accounts: MVC verifies the model, one query per name; AddUser asks  *)
(* once more, Signup does not.                                             *)

NewUserPost(t) ==
    /\ \E op \in {"adduser", "signup"}, email \in Emails, name \in Usernames,
          password \in NewPasswords :
         Begin(t, [Idle EXCEPT !.op = op, !.pc = "verify:username",
                               !.model.newEmail = email,
                               !.model.newUsername = name,
                               !.model.password = password])
    /\ UNCHANGED <<tables, cookies, forms>>

(* A slip: only whether the name has changed is looked at. *)
VerifyNewUsernameHasChanged(t) ==
    /\ At(t, "verify:username")
    /\ Goto(t, "verify:email")
    /\ UNCHANGED <<tables, cookies, forms, started>>

VerifyNewUsernameIsNotInUse(t) ==
    /\ At(t, "verify:username")
    /\ LET model == rq[t].model
       IN IF /\ model.existingUsername # model.newUsername
             /\ GetUserByUsername(model.newUsername) # {}
          THEN Return(t)
          ELSE Goto(t, "verify:email")
    /\ UNCHANGED <<tables, cookies, forms, started>>

NothingToUpdate(model) ==
    /\ model.existingEmail = model.newEmail
    /\ model.existingUsername = model.newUsername

(* EditUser calls UpdateUser only for a new name or email. *)
AfterVerifying(request) ==
    CASE request.op = "adduser" -> "add:find"
      [] request.op = "signup" -> "insert"
      [] request.op = "edituser" /\ NothingToUpdate(request.model) -> "pwd:load"
      [] OTHER -> "upd:email?"

VerifyNewEmailIsNotInUse(t) ==
    /\ At(t, "verify:email")
    /\ LET model == rq[t].model
       IN IF /\ model.existingEmail # model.newEmail
             /\ GetUserByEmail(model.newEmail) # {}
          THEN Return(t)
          ELSE Goto(t, AfterVerifying(rq[t]))
    /\ UNCHANGED <<tables, cookies, forms, started>>

AddUserFind(t) ==
    /\ At(t, "add:find")
    /\ IF GetUserByUsernameOrEmail(rq[t].model.newUsername, rq[t].model.newEmail) # {}
       THEN Return(t)
       ELSE Goto(t, "insert")
    /\ UNCHANGED <<tables, cookies, forms, started>>

(* One form adds administrators, another editors; who signs up is an       *)
(* editor, once activated.                                                 *)
InsertNewUser(t) ==
    /\ At(t, "insert")
    /\ \E admin \in BOOLEAN :
         LET signup == rq[t].op = "signup"
         IN /\ signup => ~admin
            /\ InsertUser([id |-> 1, email |-> rq[t].model.newEmail,
                           username |-> rq[t].model.newUsername,
                           password |-> rq[t].model.password,
                           isAdmin |-> admin, isEditor |-> ~admin,
                           isActivated |-> ~signup,
                           activationKey |-> 0, resetKey |-> 0], signup)
    /\ Return(t)
    /\ UNCHANGED <<cookies, forms, started>>

-----------------------------------------------------------------------------
(* Existing accounts.  The form, Profile or EditUser, shows the account as *)
(* it is now and posts that back beside what was typed; it stays open.     *)

OpenForm ==
    /\ Cardinality(forms) < MaxForms
    /\ \E u \in users :
         forms' = forms \cup {[id |-> u.id, email |-> u.email, username |-> u.username]}
    /\ forms' # forms
    /\ UNCHANGED <<tables, cookies, rq, started, cut>>

(* Only the account a browser is logged in as may be posted to Profile. *)
FormPost(t) ==
    /\ \E op \in {"edituser", "profile"}, form \in forms, email \in Emails,
          name \in Usernames, password \in NewPasswords \cup {NoName} :
         /\ op = "profile" => form.id \in cookies
         /\ Begin(t, [Idle EXCEPT
              !.op = op, !.pc = "verify:username",
              !.model = [id |-> form.id,
                         existingEmail |-> form.email,
                         existingUsername |-> form.username,
                         newEmail |-> email, newUsername |-> name,
                         password |-> password]])
    /\ UNCHANGED <<tables, cookies, forms>>

(* UpdateUser asks once more whether the names are taken, and throws. *)
UpdateUserCheckEmail(t) ==
    /\ At(t, "upd:email?")
    /\ LET model == rq[t].model
       IN IF model.existingEmail # model.newEmail /\ GetUserByEmail(model.newEmail) # {}
          THEN Return(t)
          ELSE Goto(t, "upd:username?")
    /\ UNCHANGED <<tables, cookies, forms, started>>

UpdateUserCheckUsername(t) ==
    /\ At(t, "upd:username?")
    /\ LET model == rq[t].model
       IN IF /\ model.existingUsername # model.newUsername
             /\ GetUserByUsername(model.newUsername) # {}
          THEN Return(t)
          ELSE Goto(t, "upd:load")
    /\ UNCHANGED <<tables, cookies, forms, started>>

UpdateUserLoad(t) ==
    /\ At(t, "upd:load")
    /\ \/ GetUserById(rq[t].model.id) = {} /\ Return(t)
       \/ \E u \in GetUserById(rq[t].model.id) :
            Become(t, [WithUser(rq[t], u) EXCEPT !.pc = "upd:details"])
    /\ UNCHANGED <<tables, cookies, forms, started>>

(* First and last name: the row is written as it was read. *)
UpdateUserDetails(t) ==
    /\ At(t, "upd:details")
    /\ \E u \in rq[t].user : UpdateUserRow(u)
    /\ Goto(t, "upd:email")
    /\ UNCHANGED <<cookies, forms, started>>

(* UpdateUser returns false: the controllers carry on with the new email.  *)
UpdateUserFails(t) ==
    Become(t, [rq[t] EXCEPT !.pc = "pwd:load",
                            !.model.existingEmail = rq[t].model.newEmail])

(* The user whose email, and then whose name, changes is the one who has   *)
(* the email and the name that the form shows as the existing ones.        *)
UpdateUserFindEmail(t) ==
    /\ At(t, "upd:email")
    /\ LET model == rq[t].model
           found == Tracked(rq[t].seenUsers, GetUserByEmail(model.existingEmail))
       IN \/ /\ model.existingEmail = model.newEmail
             /\ Goto(t, "upd:username")
          \/ /\ model.existingEmail # model.newEmail /\ found = {}
             /\ UpdateUserFails(t)
          \/ /\ model.existingEmail # model.newEmail
             /\ \E u \in found : Become(t, [WithUser(rq[t], u) EXCEPT !.pc = "upd:saveemail"])
    /\ UNCHANGED <<tables, cookies, forms, started>>

SaveChanged(t, user, label) ==
    /\ UpdateUserRow(user)
    /\ Become(t, [Saved(rq[t], user) EXCEPT !.pc = label])

UpdateUserSaveEmail(t) ==
    /\ At(t, "upd:saveemail")
    /\ \E u \in rq[t].user :
         SaveChanged(t, [u EXCEPT !.email = rq[t].model.newEmail], "upd:username")
    /\ UNCHANGED <<cookies, forms, started>>

(* A slip: EditUser goes on with the email it was given, too. *)
UpdateUserKeepsEmail(t) == Goto(t, "pwd:load")

(* EditUser goes on with the new email, Profile with the one it was given. *)
UpdateUserSucceeds(t) ==
    Become(t, [rq[t] EXCEPT
      !.pc = "pwd:load",
      !.model.existingEmail = IF rq[t].op = "edituser" THEN rq[t].model.newEmail ELSE @])

UpdateUserFindUsername(t) ==
    /\ At(t, "upd:username")
    /\ LET model == rq[t].model
           found == Tracked(rq[t].seenUsers, GetUserByUsername(model.existingUsername))
       IN \/ /\ model.existingUsername = model.newUsername
             /\ UpdateUserSucceeds(t)
          \/ /\ model.existingUsername # model.newUsername /\ found = {}
             /\ UpdateUserFails(t)
          \/ /\ model.existingUsername # model.newUsername
             /\ \E u \in found : Become(t, [WithUser(rq[t], u) EXCEPT !.pc = "upd:saveusername"])
    /\ UNCHANGED <<tables, cookies, forms, started>>

UpdateUserSaveUsername(t) ==
    /\ At(t, "upd:saveusername")
    /\ \E u \in rq[t].user :
         SaveChanged(t, [u EXCEPT !.username = rq[t].model.newUsername], "upd:contents")
    /\ UNCHANGED <<cookies, forms, started>>

-----------------------------------------------------------------------------
(* The new name goes into every version and page that has the old one; the *)
(* rows are read first and written back one at a time.                     *)

UpdateUserContents(t) ==
    /\ At(t, "upd:contents")
    /\ Become(t, [rq[t] EXCEPT !.pc = "upd:editedby",
         !.contents = FindPageContentsEditedBy(rq[t].model.existingUsername)])
    /\ UNCHANGED <<tables, cookies, forms, started>>

UpdateUserEditedBy(t) ==
    /\ At(t, "upd:editedby")
    /\ \/ /\ rq[t].contents = {}
          /\ Goto(t, "upd:pages")
          /\ UNCHANGED tables
       \/ \E c \in rq[t].contents :
            /\ UpdatePageContent([c EXCEPT !.editedBy.name = rq[t].model.newUsername])
            /\ Become(t, [rq[t] EXCEPT !.contents = @ \ {c}])
    /\ UNCHANGED <<cookies, forms, started>>

WithPages(request, found) ==
    LET own == Tracked(request.seenPages, found)
    IN [request EXCEPT !.pages = own, !.seenPages = @ \cup own]

(* The row as it is written, in the unit of work too. *)
SavePage(t, old, new) ==
    /\ SaveOrUpdatePage(new)
    /\ Become(t, [rq[t] EXCEPT !.pages = @ \ {old},
                               !.seenPages = (@ \ {old}) \cup {new}])

UpdateUserPages(t) ==
    /\ At(t, "upd:pages")
    /\ Become(t, [WithPages(rq[t], FindPagesCreatedBy(rq[t].model.existingUsername))
                    EXCEPT !.pc = "upd:createdby"])
    /\ UNCHANGED <<tables, cookies, forms, started>>

UpdateUserCreatedBy(t) ==
    /\ At(t, "upd:createdby")
    /\ \/ /\ rq[t].pages = {}
          /\ Goto(t, "upd:modified")
          /\ UNCHANGED tables
       \/ \E p \in rq[t].pages :
            SavePage(t, p, [p EXCEPT !.createdBy.name = rq[t].model.newUsername])
    /\ UNCHANGED <<cookies, forms, started>>

(* A slip: the pages that were found as created are taken to be all. *)
UpdateUserModifiedIsCreated(t) ==
    /\ At(t, "upd:modified")
    /\ Goto(t, "upd:modifiedby")
    /\ UNCHANGED <<tables, cookies, forms, started>>

UpdateUserModified(t) ==
    /\ At(t, "upd:modified")
    /\ Become(t, [WithPages(rq[t], FindPagesModifiedBy(rq[t].model.existingUsername))
                    EXCEPT !.pc = "upd:modifiedby"])
    /\ UNCHANGED <<tables, cookies, forms, started>>

UpdateUserModifiedBy(t) ==
    /\ At(t, "upd:modifiedby")
    /\ \/ /\ rq[t].pages = {}
          /\ UpdateUserSucceeds(t)
          /\ UNCHANGED tables
       \/ \E p \in rq[t].pages :
            SavePage(t, p, [p EXCEPT !.modifiedBy.name = rq[t].model.newUsername])
    /\ UNCHANGED <<cookies, forms, started>>

(* A slip: an empty password is one, too. *)
ChangePasswordAnyway(t) ==
    /\ At(t, "pwd:load")
    /\ LET model == rq[t].model
           found == Tracked(rq[t].seenUsers, GetUserByEmail(model.existingEmail))
       IN \/ /\ found = {}
             /\ Return(t)
          \/ \E u \in found :
               Become(t, [rq[t] EXCEPT !.pc = "save",
                            !.user = {[u EXCEPT !.password = model.password]}])
    /\ UNCHANGED <<tables, cookies, forms, started>>

(* ChangePassword, with which Profile, EditUser and CompleteResetPassword  *)
(* end: no user of that email, no change, and no error.                    *)
ChangePassword(t) ==
    /\ At(t, "pwd:load")
    /\ LET model == rq[t].model
           found == Tracked(rq[t].seenUsers, GetUserByEmail(model.existingEmail))
       IN \/ /\ model.password = NoName \/ found = {}
             /\ Return(t)
          \/ /\ model.password # NoName
             /\ \E u \in found :
                  Become(t, [rq[t] EXCEPT !.pc = "save",
                               !.user = {[u EXCEPT !.password = model.password]}])
    /\ UNCHANGED <<tables, cookies, forms, started>>

-----------------------------------------------------------------------------
(* Those who are logged in and may edit write pages under their name.      *)

MayEdit(id) == \E u \in GetUserById(id) : u.isAdmin \/ u.isEditor

WritePage(t) ==
    /\ \E op \in {"addpage", "updatepage"}, id \in cookies :
         /\ MayEdit(id)
         /\ op = "updatepage" => pages # {}
         /\ op = "addpage" => Cardinality(pages) < MaxPages
         /\ Begin(t, [Idle EXCEPT !.op = op, !.pc = "page:name",
                        !.seenUsers = GetUserById(id), !.author.who = id])
    /\ UNCHANGED <<tables, cookies, forms>>

(* CurrentUsername is asked once and kept for the request; an account that *)
(* is gone has none, and its cookie is taken away.                         *)
CurrentUsername(t) ==
    /\ At(t, "page:name")
    /\ LET label == IF rq[t].op = "addpage" THEN "page:add" ELSE "page:load"
           who == rq[t].author.who
           found == Tracked(rq[t].seenUsers, GetUserById(who))
       IN \/ /\ found = {}
             /\ cookies' = cookies \ {who}
             /\ Goto(t, label)
          \/ /\ \E u \in found :
                  Become(t, [rq[t] EXCEPT !.pc = label, !.author.name = u.username])
             /\ UNCHANGED cookies
    /\ UNCHANGED <<tables, forms, started>>

AddPage(t) ==
    /\ At(t, "page:add")
    /\ AddNewPage(rq[t].author)
    /\ Return(t)
    /\ UNCHANGED <<cookies, forms, started>>

UpdatePageLoad(t) ==
    /\ At(t, "page:load")
    /\ \E p \in pages :
         Become(t, [rq[t] EXCEPT !.pc = "page:save",
                                 !.pages = {[p EXCEPT !.modifiedBy = rq[t].author]}])
    /\ UNCHANGED <<tables, cookies, forms, started>>

UpdatePageSave(t) ==
    /\ At(t, "page:save")
    /\ \E p \in rq[t].pages : SaveOrUpdatePage(p)
    /\ Goto(t, "page:version")
    /\ UNCHANGED <<cookies, forms, started>>

UpdatePageVersion(t) ==
    /\ At(t, "page:version")
    /\ \E p \in rq[t].pages : AddNewPageContentVersion(p, rq[t].author)
    /\ Return(t)
    /\ UNCHANGED <<cookies, forms, started>>

-----------------------------------------------------------------------------
Arrive(t) ==
    \/ Login(t) \/ Logout(t) \/ Activate(t) \/ ResetPassword(t)
    \/ CompleteResetPassword(t) \/ ChangeKnownPassword(t)
    \/ ToggleAdmin(t) \/ ToggleEditor(t) \/ DeleteUserFind(t)
    \/ NewUserPost(t) \/ FormPost(t) \/ WritePage(t)

UpdateUserOn(t) ==
    \/ UpdateUserCheckEmail(t) \/ UpdateUserCheckUsername(t)
    \/ UpdateUserLoad(t) \/ UpdateUserDetails(t)
    \/ UpdateUserFindEmail(t) \/ UpdateUserSaveEmail(t)
    \/ UpdateUserFindUsername(t) \/ UpdateUserSaveUsername(t)
    \/ UpdateUserContents(t) \/ UpdateUserEditedBy(t)
    \/ UpdateUserPages(t) \/ UpdateUserCreatedBy(t)
    \/ UpdateUserModified(t) \/ UpdateUserModifiedBy(t)

GoOn(t) ==
    \/ SaveUser(t) \/ DeleteUser(t) \/ ChangePassword(t)
    \/ VerifyNewUsernameIsNotInUse(t) \/ VerifyNewEmailIsNotInUse(t)
    \/ AddUserFind(t) \/ InsertNewUser(t)
    \/ UpdateUserOn(t)
    \/ CurrentUsername(t) \/ AddPage(t)
    \/ UpdatePageLoad(t) \/ UpdatePageSave(t) \/ UpdatePageVersion(t)

Quiet == \A t \in Threads : At(t, "idle")

(* The application pool is recycled: the requests in progress are gone,    *)
(* the tables and the browsers' cookies and forms are not.                 *)
Recycle ==
    /\ "recycle" \in Ops
    /\ ~Quiet
    /\ rq' = [t \in Threads |-> Idle]
    /\ cut' = TRUE
    /\ UNCHANGED <<tables, cookies, forms, started>>

Finished ==
    /\ started = MaxRequests
    /\ Quiet
    /\ UNCHANGED vars

Next ==
    \/ (\E t \in Threads : Arrive(t) \/ GoOn(t)) /\ UNCHANGED cut
    \/ OpenForm
    \/ Recycle
    \/ Finished

Spec == Init /\ [][Next]_vars

=============================================================================
