-------------------------- MODULE UserService_proofs --------------------------
(***************************************************************************)
(* Proofs about the accounts: the types, for any number of threads; and,   *)
(* of one request at a time, that accounts are never confused, that what   *)
(* they have written bears their names, and that a form that changes the   *)
(* email and the password at once sets the password.                       *)
(***************************************************************************)
EXTENDS UserProperties, TLAPS

NewSteps == {"verify:username", "verify:email", "add:find", "insert"}

(* The steps after the new name is in the table of users.                  *)
RenameSteps == {"upd:contents", "upd:editedby", "upd:pages", "upd:createdby",
                "upd:modified", "upd:modifiedby"}

UpdateSteps == {"upd:email?", "upd:username?", "upd:load", "upd:details", "upd:email",
                "upd:saveemail", "upd:username", "upd:saveusername"} \cup RenameSteps

PageSteps == {"page:name", "page:add", "page:load", "page:save", "page:version"}

(* A request that goes on to save what was typed has it.                   *)
Held(r) ==
    /\ r \in Request
    /\ r.pc \in NewSteps \cup UpdateSteps =>
          r.model.newEmail \in Emails /\ r.model.newUsername \in Usernames
    /\ r.pc \in {"add:find", "insert"} => r.op \in {"adduser", "signup"}
    /\ r.pc \in NewSteps /\ r.op \in {"adduser", "signup"} =>
          /\ r.model.password \in Passwords
          /\ r.model.existingEmail = NoName /\ r.model.existingUsername = NoName

Types ==
    /\ TablesTypeOK
    /\ cookies \subseteq Nat \ {0}
    /\ forms \subseteq Form
    /\ rq \in [Threads -> Request]
    /\ \A t \in Threads : Held(rq[t])
    /\ started \in Nat
    /\ cut \in BOOLEAN

(* Keys are keys, and none is used again.                                  *)
Known(author) == author.who < nextGuid

UserKeys ==
    /\ \A u, v \in users : u.id = v.id => u = v
    /\ \A u \in users : u.id < nextGuid

PageKeys ==
    /\ \A p, q \in pages : p.id = q.id => p = q
    /\ \A p \in pages : p.id < nextGuid /\ Known(p.createdBy) /\ Known(p.modifiedBy)

ContentKeys ==
    /\ \A c, d \in contents : c.id = d.id => c = d
    /\ \A c \in contents : c.id < nextGuid /\ Known(c.editedBy)

Apart == \A u, v \in users : u.id # v.id => u.username # v.username /\ u.email # v.email

(* The parts of what a request relies on when no other runs.  What it has  *)
(* read is still so;                                                       *)
SeenSound(r) ==
    /\ r.seenUsers \subseteq users /\ r.seenPages \subseteq pages
    /\ r.pc \in PageSteps => r.seenPages = {}

(* the user it is about to save differs from the row in other columns than *)
(* the names;                                                              *)
HandSound(r) ==
    /\ r.pc \in {"upd:details", "upd:saveemail", "upd:saveusername"} \cup RenameSteps =>
          r.user \subseteq users
    /\ r.pc = "save" =>
          \A u \in r.user : \E v \in users :
             v.id = u.id /\ v.username = u.username /\ v.email = u.email

(* the names it is about to give to an account are nobody's;               *)
CheckSound(r) ==
    /\ r.pc \in {"upd:username?", "upd:load", "upd:details", "upd:email", "upd:saveemail"}
       /\ r.model.existingEmail # r.model.newEmail => GetUserByEmail(r.model.newEmail) = {}
    /\ r.pc \in {"upd:load", "upd:details", "upd:email", "upd:saveemail", "upd:username",
                 "upd:saveusername"}
       /\ r.model.existingUsername # r.model.newUsername =>
          GetUserByUsername(r.model.newUsername) = {}
    /\ r.pc = "upd:saveemail" => r.model.existingEmail # r.model.newEmail
    /\ r.pc = "upd:saveusername" => r.model.existingUsername # r.model.newUsername
    /\ r.pc = "verify:email" /\ r.op = "signup" => GetUserByUsername(r.model.newUsername) = {}
    /\ r.pc = "insert" => /\ GetUserByUsername(r.model.newUsername) = {}
                          /\ GetUserByEmail(r.model.newEmail) = {}

(* the account it renames has the new name and no other has the old one,   *)
(* and the rows it goes through bear the old one;                          *)
RenameSound(r) ==
    /\ r.pc = "upd:saveusername" => \A u \in r.user : u.username = r.model.existingUsername
    /\ r.pc \in RenameSteps => /\ GetUserByUsername(r.model.existingUsername) = {}
                               /\ \A u \in r.user : u.username = r.model.newUsername
    /\ r.pc = "upd:editedby" =>
          \A c \in r.contents : c \in contents /\ c.editedBy.name = r.model.existingUsername
    /\ r.pc = "upd:createdby" =>
          \A p \in r.pages : p \in pages /\ p.createdBy.name = r.model.existingUsername
    /\ r.pc = "upd:modifiedby" =>
          \A p \in r.pages : p \in pages /\ p.modifiedBy.name = r.model.existingUsername

(* a page it is about to save is written by accounts there have been;      *)
WriterSound(r) ==
    /\ r.pc \in PageSteps => Known(r.author)
    /\ r.pc \in {"page:save", "page:version"} =>
          \A p \in r.pages : p.modifiedBy = r.author /\ Known(p.createdBy)

(* and EditUser knows the account by its new email.                        *)
PasswordSound(r) ==
    r.op = "edituser" =>
       /\ r.pc = "pwd:load" => r.model.existingEmail = r.model.newEmail
       /\ r.pc = "save" /\ r.model.password # NoName =>
             \A u \in r.user : u.password = r.model.password /\ u.email = r.model.newEmail

Sound(r) ==
    /\ SeenSound(r) /\ HandSound(r) /\ CheckSound(r) /\ RenameSound(r)
    /\ WriterSound(r) /\ PasswordSound(r)

(* What a rename has yet to reach bears the old name of that account.      *)
Old(r, author) ==
    author.name = r.model.existingUsername /\ \E u \in r.user : u.id = author.who

ContentsNamed(r) ==
    \A c \in contents :
       \/ IsNameOf(c.editedBy)
       \/ /\ r.pc = "upd:contents" \/ (r.pc = "upd:editedby" /\ c \in r.contents)
          /\ Old(r, c.editedBy)

CreatedNamed(r) ==
    \A p \in pages :
       \/ IsNameOf(p.createdBy)
       \/ /\ r.pc \in {"upd:contents", "upd:editedby", "upd:pages"}
               \/ (r.pc = "upd:createdby" /\ p \in r.pages)
          /\ Old(r, p.createdBy)

ModifiedNamed(r) ==
    \A p \in pages :
       \/ IsNameOf(p.modifiedBy)
       \/ /\ r.pc \in {"upd:contents", "upd:editedby", "upd:pages", "upd:createdby", "upd:modified"}
               \/ (r.pc = "upd:modifiedby" /\ p \in r.pages)
          /\ Old(r, p.modifiedBy)

WriterNamed(r) ==
    /\ r.pc \in {"page:add", "page:load", "page:save", "page:version"} => IsNameOf(r.author)
    /\ r.pc \in {"page:save", "page:version"} => \A p \in r.pages : IsNameOf(p.createdBy)

Named(r) == ContentsNamed(r) /\ CreatedNamed(r) /\ ModifiedNamed(r) /\ WriterNamed(r)

(* The request that runs, when it is the only one.                         *)
Present == IF Threads = {} THEN {Idle} ELSE {rq[t] : t \in Threads}

SerialInv ==
    Serial =>
       /\ UserKeys /\ PageKeys /\ ContentKeys /\ Apart
       /\ \A r \in Present : Sound(r)
       /\ ~cut => \A r \in Present : Named(r)

UserInv == Types /\ SerialInv

-----------------------------------------------------------------------------
LEMMA Basics ==
    ASSUME UserInv, NEW t \in Threads
    PROVE  /\ Types /\ TablesTypeOK /\ Held(rq[t]) /\ rq[t] \in Request
           /\ Serial => /\ UserKeys /\ PageKeys /\ ContentKeys /\ Apart
                        /\ Sound(rq[t])
                        /\ ~cut => Named(rq[t])
  <1>1. Types /\ TablesTypeOK /\ Held(rq[t]) /\ rq[t] \in Request
    BY DEF UserInv, Types, Held
  <1>2. rq[t] \in Present
    BY DEF Present
  <1> QED
    BY <1>1, <1>2 DEF UserInv, SerialInv

(* A step of a request.                                                    *)
LEMMA Renewed ==
    ASSUME UserInv, NEW t \in Threads, NEW r2, rq' = [rq EXCEPT ![t] = r2], cut' = cut,
           TablesTypeOK', cookies' \subseteq Nat \ {0}, forms' \subseteq Form, started' \in Nat,
           Held(r2),
           Serial => /\ UserKeys' /\ PageKeys' /\ ContentKeys' /\ Apart'
                     /\ Sound(r2)'
                     /\ ~cut => Named(r2)'
    PROVE  UserInv'
  <1>1. r2 \in Request
    BY DEF Held
  <1>2. Types'
    <2>1. rq' \in [Threads -> Request]
      BY <1>1 DEF UserInv, Types
    <2>2. \A u \in Threads : Held(rq'[u])
      BY DEF UserInv, Types
    <2> QED
      BY <2>1, <2>2 DEF UserInv, Types, Held
  <1>3. SerialInv'
    <2>1. ASSUME Serial PROVE Present' = {r2}
      <3>1. \A u \in Threads : u = t
        BY <2>1 DEF Serial
      <3>2. \A u \in Threads : rq'[u] = r2
        BY <3>1 DEF UserInv, Types
      <3> QED
        BY <3>1, <3>2 DEF Present
    <2> QED
      BY <2>1 DEF SerialInv, Serial
  <1> QED
    BY <1>2, <1>3 DEF UserInv

(* A step that changes no table; a key may be used up.                     *)
LEMMA Proceeded ==
    ASSUME UserInv, NEW t \in Threads, NEW r2, rq' = [rq EXCEPT ![t] = r2], cut' = cut,
           UNCHANGED <<users, pages, contents>>, nextGuid' \in Nat, nextGuid' >= nextGuid,
           cookies' \subseteq Nat \ {0}, forms' \subseteq Form, started' \in Nat,
           Held(r2), Serial => Sound(r2) /\ (~cut => Named(r2))
    PROVE  UserInv'
  <1>1. TablesTypeOK /\ nextGuid \in Nat \ {0}
    BY Basics DEF TablesTypeOK
  <1>2. TablesTypeOK'
    BY <1>1 DEF TablesTypeOK
  <1>3. \A author \in Author : Known(author) => Known(author)'
    BY <1>1 DEF Known, Author
  <1>4. r2 \in Request
    BY DEF Held
  <1>5. ASSUME Serial PROVE UserKeys' /\ PageKeys' /\ ContentKeys' /\ Apart'
    <2>1. UserKeys'
      <3>1. \A u \in users : u.id \in Nat /\ u.id < nextGuid
        BY <1>1, <1>5, Basics DEF TablesTypeOK, User, UserKeys
      <3> QED
        BY <1>1, <1>5, <3>1, Basics DEF UserKeys
    <2>2. PageKeys'
      <3>1. \A p \in pages : /\ p.id \in Nat /\ p.id < nextGuid
                             /\ p.createdBy \in Author /\ p.modifiedBy \in Author
        BY <1>1, <1>5, Basics DEF TablesTypeOK, AuthoredPage, PageKeys
      <3> QED
        BY <1>1, <1>3, <1>5, <3>1, Basics DEF PageKeys
    <2>3. ContentKeys'
      <3>1. \A c \in contents : c.id \in Nat /\ c.id < nextGuid /\ c.editedBy \in Author
        BY <1>1, <1>5, Basics DEF TablesTypeOK, AuthoredContent, ContentKeys
      <3> QED
        BY <1>1, <1>3, <1>5, <3>1, Basics DEF ContentKeys
    <2>4. Apart'
      BY <1>5, Basics DEF Apart
    <2> QED
      BY <2>1, <2>2, <2>3, <2>4
  <1>6. ASSUME Serial PROVE Sound(r2)'
    <2>1. SeenSound(r2)' /\ HandSound(r2)'
      BY <1>6 DEF Sound, SeenSound, HandSound
    <2>2. CheckSound(r2)' /\ RenameSound(r2)'
      BY <1>6 DEF Sound, CheckSound, RenameSound, GetUserByEmail, GetUserByUsername
    <2>3. WriterSound(r2)'
      <3>1. r2.author \in Author /\ \A p \in r2.pages : p.createdBy \in Author
        BY <1>4 DEF Request, AuthoredPage
      <3> QED
        BY <1>3, <1>6, <3>1 DEF Sound, WriterSound
    <2>4. PasswordSound(r2)'
      BY <1>6 DEF Sound, PasswordSound
    <2> QED
      BY <2>1, <2>2, <2>3, <2>4 DEF Sound
  <1>7. ASSUME Serial, ~cut PROVE Named(r2)'
    BY <1>7 DEF Named, ContentsNamed, CreatedNamed, ModifiedNamed, WriterNamed, IsNameOf, Old
  <1> QED
    BY <1>2, <1>5, <1>6, <1>7, Renewed

(* A thread that runs no request holds nothing.                            *)
LEMMA IdleHeld == Held(Idle) /\ Idle.pc = "idle"
  <1>1. Idle \in Request
    <2>1. BlankModel \in Model
      BY DEF BlankModel, Model
    <2>2. [name |-> NoName, who |-> 1] \in Author
      BY DEF Author
    <2> QED
      BY <2>1, <2>2 DEF Idle, Request, AllOps, Labels
  <1> QED
    BY <1>1 DEF Idle, Held, NewSteps, UpdateSteps, RenameSteps

LEMMA IdleSound == Sound(Idle) /\ WriterNamed(Idle)
  <1>1. /\ Idle.pc = "idle" /\ Idle.op = "login"
        /\ Idle.seenUsers = {} /\ Idle.seenPages = {}
    BY DEF Idle
  <1>2. SeenSound(Idle) /\ HandSound(Idle)
    BY <1>1 DEF SeenSound, HandSound, RenameSteps
  <1>3. CheckSound(Idle) /\ RenameSound(Idle)
    BY <1>1 DEF CheckSound, RenameSound, RenameSteps
  <1>4. WriterSound(Idle) /\ PasswordSound(Idle) /\ WriterNamed(Idle)
    BY <1>1 DEF WriterSound, PasswordSound, WriterNamed, PageSteps
  <1> QED
    BY <1>2, <1>3, <1>4 DEF Sound

(* A request that is not renaming leaves no name behind.                   *)
LEMMA NamesSettled ==
    ASSUME NEW r, r.pc \notin RenameSteps, Named(r)
    PROVE  /\ \A c \in contents : IsNameOf(c.editedBy)
           /\ \A p \in pages : IsNameOf(p.createdBy) /\ IsNameOf(p.modifiedBy)
  BY DEF Named, ContentsNamed, CreatedNamed, ModifiedNamed, RenameSteps

(* And it may go on to anything else that is not.                          *)
LEMMA NamesStaySettled ==
    ASSUME NEW r, r.pc \notin RenameSteps, Named(r), NEW r2, WriterNamed(r2)
    PROVE  Named(r2)
  BY NamesSettled DEF Named, ContentsNamed, CreatedNamed, ModifiedNamed

(* A request ends.                                                         *)
LEMMA Returned ==
    ASSUME UserInv, NEW t \in Threads, Return(t), cut' = cut, rq[t].pc \notin RenameSteps,
           UNCHANGED <<users, pages, contents, nextGuid, cookies, forms, started>>
    PROVE  UserInv'
  <1>1. /\ nextGuid \in Nat /\ nextGuid >= nextGuid
        /\ cookies \subseteq Nat \ {0} /\ forms \subseteq Form /\ started \in Nat
    BY Basics DEF Types, TablesTypeOK
  <1>2. Serial => Sound(Idle) /\ (~cut => Named(Idle))
    BY Basics, IdleSound, NamesStaySettled
  <1> QED
    BY <1>1, <1>2, IdleHeld, Proceeded DEF Return

-----------------------------------------------------------------------------
(* Requests arrive.                                                        *)
LEMMA Begun ==
    ASSUME UserInv, NEW t \in Threads, NEW r2, Begin(t, r2), cut' = cut,
           UNCHANGED <<users, pages, contents>>, nextGuid' \in Nat, nextGuid' >= nextGuid,
           cookies' \subseteq Nat \ {0}, forms' \subseteq Form,
           Held(r2), r2.seenUsers \subseteq users, r2.seenPages = {},
           r2.pc \in {"idle", "save", "pwd:load", "delete", "verify:username", "page:name"},
           r2.pc \in {"save", "pwd:load"} => r2.op # "edituser",
           r2.pc = "save" => \A u \in r2.user : \E v \in users :
                                v.id = u.id /\ v.username = u.username /\ v.email = u.email,
           r2.pc = "page:name" => \E u \in users : u.id = r2.author.who
    PROVE  UserInv'
  <1>1. /\ rq' = [rq EXCEPT ![t] = r2] /\ rq[t].pc = "idle"
        /\ started' \in Nat
    BY Basics DEF Begin, At, Become, Types
  <1>2. ASSUME Serial PROVE Sound(r2)
    <2>1. SeenSound(r2) /\ HandSound(r2)
      BY DEF SeenSound, HandSound, RenameSteps
    <2>2. CheckSound(r2) /\ RenameSound(r2)
      BY DEF CheckSound, RenameSound, RenameSteps
    <2>3. WriterSound(r2)
      <3>1. \A u \in users : u.id < nextGuid
        BY <1>2, Basics DEF UserKeys
      <3> QED
        BY <3>1 DEF WriterSound, PageSteps, Known
    <2>4. PasswordSound(r2)
      BY DEF PasswordSound
    <2> QED
      BY <2>1, <2>2, <2>3, <2>4 DEF Sound
  <1>3. ASSUME Serial, ~cut PROVE Named(r2)
    <2>1. WriterNamed(r2)
      BY DEF WriterNamed
    <2>2. rq[t].pc \notin RenameSteps
      BY <1>1 DEF RenameSteps
    <2> QED
      BY <1>3, <2>1, <2>2, Basics, NamesStaySettled
  <1> QED
    BY <1>1, <1>2, <1>3, Proceeded

LEMMA SavingBegun ==
    ASSUME UserInv, NEW t \in Threads, NEW op \in AllOps, op # "edituser",
           NEW row \in users, NEW changed \in User,
           changed.id = row.id, changed.username = row.username, changed.email = row.email,
           BeginSave(t, op, row, changed), cut' = cut,
           UNCHANGED <<users, pages, contents, cookies, forms>>,
           nextGuid' \in Nat, nextGuid' >= nextGuid
    PROVE  UserInv'
  <1>1. PICK r2 : r2 = [WithUser([Idle EXCEPT !.op = op, !.pc = "save"], row)
                          EXCEPT !.user = {changed}]
    OBVIOUS
  <1>2. row \in User /\ cookies \subseteq Nat \ {0} /\ forms \subseteq Form
    BY Basics DEF Types, TablesTypeOK
  <1>3. Idle \in Request
    BY IdleHeld DEF Held
  <1>4. r2 \in Request
    BY <1>1, <1>2, <1>3 DEF Request, WithUser, Labels
  <1>5. /\ r2.op = op /\ r2.pc = "save" /\ r2.user = {changed}
        /\ r2.seenUsers = {row} /\ r2.seenPages = {}
    BY <1>1 DEF WithUser, Idle
  <1>6. Held(r2)
    BY <1>4, <1>5 DEF Held, NewSteps, UpdateSteps, RenameSteps
  <1>7. Begin(t, r2)
    BY <1>1 DEF BeginSave
  <1> QED
    BY <1>2, <1>5, <1>6, <1>7, Begun

LEMMA Unchanged ==
    ASSUME UserInv, UNCHANGED <<tables, cookies, forms>>
    PROVE  /\ UNCHANGED <<users, pages, contents, nextGuid, cookies, forms>>
           /\ nextGuid' \in Nat /\ nextGuid' >= nextGuid
           /\ cookies' \subseteq Nat \ {0} /\ forms' \subseteq Form
           /\ users \subseteq User /\ nextGuid \in Nat \ {0}
  BY DEF UserInv, Types, TablesTypeOK, tables

(* Each of the twelve.                                                     *)
LEMMA ArriveKept ==
    ASSUME UserInv, NEW t \in Threads, Arrive(t), cut' = cut
    PROVE  UserInv'
  <1>1. /\ TablesTypeOK /\ nextGuid \in Nat \ {0} /\ users \subseteq User
        /\ cookies \subseteq Nat \ {0} /\ forms \subseteq Form
    BY DEF UserInv, Types, TablesTypeOK
  <1>2. Idle \in Request /\ BlankModel \in Model
    BY IdleHeld DEF Held, Request, Idle
  <1>3. CASE Login(t) \/ Logout(t)
    <2>1. PICK op \in {"login", "logout"} : /\ Begin(t, [Idle EXCEPT !.op = op])
                                            /\ cookies' \subseteq Nat \ {0}
                                            /\ UNCHANGED <<users, pages, contents, nextGuid, forms>>
      BY <1>1, <1>3 DEF Login, Logout, tables, User
    <2>2. PICK r2 : r2 = [Idle EXCEPT !.op = op]
      OBVIOUS
    <2>3. r2 \in Request /\ r2.pc = "idle" /\ r2.seenUsers = {} /\ r2.seenPages = {}
      BY <1>2, <2>2 DEF Idle, Request, AllOps
    <2>4. Held(r2)
      BY <2>3 DEF Held, NewSteps, UpdateSteps, RenameSteps
    <2>5. nextGuid' \in Nat /\ nextGuid' >= nextGuid /\ forms' \subseteq Form
      BY <1>1, <2>1
    <2> QED
      BY <2>1, <2>2, <2>3, <2>4, <2>5, Begun
  <1>4. CASE Activate(t)
    <2>1. PICK u \in users : /\ BeginSave(t, "activate", u, [u EXCEPT !.isActivated = TRUE])
                             /\ UNCHANGED <<tables, cookies, forms>>
      BY <1>4 DEF Activate, GetUserByActivationKey
    <2>2. PICK w : w = [u EXCEPT !.isActivated = TRUE]
      OBVIOUS
    <2>3. w \in User /\ w.id = u.id /\ w.username = u.username /\ w.email = u.email
      BY <1>1, <2>2 DEF User
    <2> QED
      BY <2>1, <2>2, <2>3, SavingBegun, Unchanged DEF AllOps
  <1>5. CASE ResetPassword(t)
    <2>1. PICK u \in users : BeginSave(t, "resetpassword", u, [u EXCEPT !.resetKey = nextGuid])
      BY <1>5 DEF ResetPassword
    <2>2. PICK w : w = [u EXCEPT !.resetKey = nextGuid]
      OBVIOUS
    <2>3. w \in User /\ w.id = u.id /\ w.username = u.username /\ w.email = u.email
      BY <1>1, <2>2 DEF User
    <2>4. /\ nextGuid' \in Nat /\ nextGuid' >= nextGuid
          /\ UNCHANGED <<users, pages, contents, cookies, forms>>
      BY <1>1, <1>5 DEF ResetPassword
    <2> QED
      BY <2>1, <2>2, <2>3, <2>4, SavingBegun DEF AllOps
  <1>6. CASE ChangeKnownPassword(t)
    <2>1. PICK u \in users, password \in NewPasswords :
             /\ BeginSave(t, "changepassword", u, [u EXCEPT !.password = password])
             /\ UNCHANGED <<tables, cookies, forms>>
      BY <1>6 DEF ChangeKnownPassword
    <2>2. PICK w : w = [u EXCEPT !.password = password]
      OBVIOUS
    <2>3. password \in Passwords
      BY RequestAssumption
    <2>4. w \in User /\ w.id = u.id /\ w.username = u.username /\ w.email = u.email
      BY <1>1, <2>2, <2>3 DEF User
    <2> QED
      BY <2>1, <2>2, <2>4, SavingBegun, Unchanged DEF AllOps
  <1>7. CASE ToggleAdmin(t)
    <2>1. PICK u \in users : /\ BeginSave(t, "toggleadmin", u, [u EXCEPT !.isAdmin = ~@])
                             /\ UNCHANGED <<tables, cookies, forms>>
      BY <1>7 DEF ToggleAdmin
    <2>2. PICK w : w = [u EXCEPT !.isAdmin = ~@]
      OBVIOUS
    <2>3. w \in User /\ w.id = u.id /\ w.username = u.username /\ w.email = u.email
      BY <1>1, <2>2 DEF User
    <2> QED
      BY <2>1, <2>2, <2>3, SavingBegun, Unchanged DEF AllOps
  <1>8. CASE ToggleEditor(t)
    <2>1. PICK u \in users : /\ BeginSave(t, "toggleeditor", u, [u EXCEPT !.isEditor = ~@])
                             /\ UNCHANGED <<tables, cookies, forms>>
      BY <1>8 DEF ToggleEditor
    <2>2. PICK w : w = [u EXCEPT !.isEditor = ~@]
      OBVIOUS
    <2>3. w \in User /\ w.id = u.id /\ w.username = u.username /\ w.email = u.email
      BY <1>1, <2>2 DEF User
    <2> QED
      BY <2>1, <2>2, <2>3, SavingBegun, Unchanged DEF AllOps
  <1>9. CASE CompleteResetPassword(t)
    <2>1. PICK u \in users, password \in NewPasswords :
             /\ Begin(t, WithUser([Idle EXCEPT !.op = "completereset", !.pc = "pwd:load",
                                               !.model.existingEmail = u.email,
                                               !.model.password = password], u))
             /\ UNCHANGED <<tables, cookies, forms>>
      BY <1>9 DEF CompleteResetPassword, GetUserByPasswordResetKey
    <2>2. PICK r1 : r1 = [Idle EXCEPT !.op = "completereset", !.pc = "pwd:load",
                                      !.model.existingEmail = u.email,
                                      !.model.password = password]
      OBVIOUS
    <2>3. u \in User /\ u.email \in Emails /\ password \in Passwords
      BY <1>1, RequestAssumption DEF User
    <2>4. r1 \in Request /\ r1.pc = "pwd:load" /\ r1.op = "completereset"
          /\ r1.seenUsers = {} /\ r1.seenPages = {}
      <3>1. PICK m : m = [BlankModel EXCEPT !.existingEmail = u.email, !.password = password]
        OBVIOUS
      <3>2. m \in Model
        BY <1>2, <2>3, <3>1 DEF Model
      <3>3. r1 = [Idle EXCEPT !.op = "completereset", !.pc = "pwd:load", !.model = m]
        BY <2>2, <3>1 DEF Idle, BlankModel
      <3> QED
        BY <1>2, <3>2, <3>3 DEF Idle, Request, AllOps, Labels
    <2>5. PICK r2 : r2 = WithUser(r1, u)
      OBVIOUS
    <2>6. /\ r2 \in Request /\ r2.pc = "pwd:load" /\ r2.op = "completereset"
          /\ r2.seenUsers = {u} /\ r2.seenPages = {}
      BY <2>3, <2>4, <2>5 DEF WithUser, Request
    <2>7. Held(r2)
      BY <2>6 DEF Held, NewSteps, UpdateSteps, RenameSteps
    <2>8. Begin(t, r2)
      BY <2>1, <2>2, <2>5
    <2> QED
      BY <2>1, <2>6, <2>7, <2>8, Begun, Unchanged
  <1>10. CASE DeleteUserFind(t)
    <2>1. PICK u \in users :
             /\ Begin(t, WithUser([Idle EXCEPT !.op = "delete", !.pc = "delete"], u))
             /\ UNCHANGED <<tables, cookies, forms>>
      BY <1>10 DEF DeleteUserFind
    <2>2. PICK r2 : r2 = WithUser([Idle EXCEPT !.op = "delete", !.pc = "delete"], u)
      OBVIOUS
    <2>3. u \in User
      BY <1>1
    <2>4. /\ r2 \in Request /\ r2.pc = "delete" /\ r2.seenUsers = {u} /\ r2.seenPages = {}
      BY <1>2, <2>2, <2>3 DEF WithUser, Request, Idle, AllOps, Labels
    <2>5. Held(r2)
      BY <2>4 DEF Held, NewSteps, UpdateSteps, RenameSteps
    <2> QED
      BY <2>1, <2>2, <2>4, <2>5, Begun, Unchanged
  <1>11. CASE NewUserPost(t)
    <2>1. PICK op \in {"adduser", "signup"}, email \in Emails, name \in Usernames,
               password \in NewPasswords :
             /\ Begin(t, [Idle EXCEPT !.op = op, !.pc = "verify:username",
                                      !.model.newEmail = email,
                                      !.model.newUsername = name,
                                      !.model.password = password])
             /\ UNCHANGED <<tables, cookies, forms>>
      BY <1>11 DEF NewUserPost
    <2>2. PICK m : m = [BlankModel EXCEPT !.newEmail = email, !.newUsername = name,
                                          !.password = password]
      OBVIOUS
    <2>3. password \in Passwords
      BY RequestAssumption
    <2>4. /\ m \in Model /\ m.newEmail = email /\ m.newUsername = name /\ m.password = password
          /\ m.existingEmail = NoName /\ m.existingUsername = NoName
      BY <1>2, <2>2, <2>3 DEF Model, BlankModel
    <2>5. PICK r2 : r2 = [Idle EXCEPT !.op = op, !.pc = "verify:username", !.model = m]
      OBVIOUS
    <2>6. Begin(t, r2)
      <3>1. r2 = [Idle EXCEPT !.op = op, !.pc = "verify:username", !.model.newEmail = email,
                              !.model.newUsername = name, !.model.password = password]
        BY <2>2, <2>5 DEF Idle, BlankModel
      <3> QED
        BY <2>1, <3>1
    <2>7. /\ r2 \in Request /\ r2.pc = "verify:username" /\ r2.model = m
          /\ r2.seenUsers = {} /\ r2.seenPages = {}
      BY <1>2, <2>4, <2>5 DEF Request, Idle, AllOps, Labels
    <2>8. Held(r2)
      BY <2>3, <2>4, <2>7 DEF Held
    <2> QED
      BY <2>1, <2>6, <2>7, <2>8, Begun, Unchanged
  <1>12. CASE FormPost(t)
    <2>1. PICK op \in {"edituser", "profile"}, form \in forms, email \in Emails,
               name \in Usernames, password \in NewPasswords \cup {NoName} :
             /\ Begin(t, [Idle EXCEPT
                  !.op = op, !.pc = "verify:username",
                  !.model = [id |-> form.id,
                             existingEmail |-> form.email,
                             existingUsername |-> form.username,
                             newEmail |-> email, newUsername |-> name,
                             password |-> password]])
             /\ UNCHANGED <<tables, cookies, forms>>
      BY <1>12 DEF FormPost
    <2>2. PICK m : m = [id |-> form.id, existingEmail |-> form.email,
                        existingUsername |-> form.username,
                        newEmail |-> email, newUsername |-> name, password |-> password]
      OBVIOUS
    <2>3. form \in Form /\ password \in Passwords \cup {NoName}
      BY <1>1, RequestAssumption
    <2>4. m \in Model /\ m.newEmail = email /\ m.newUsername = name
      BY <2>2, <2>3 DEF Model, Form
    <2>5. PICK r2 : r2 = [Idle EXCEPT !.op = op, !.pc = "verify:username", !.model = m]
      OBVIOUS
    <2>6. Begin(t, r2)
      BY <2>1, <2>2, <2>5
    <2>7. /\ r2 \in Request /\ r2.pc = "verify:username" /\ r2.model = m /\ r2.op = op
          /\ r2.seenUsers = {} /\ r2.seenPages = {}
      BY <1>2, <2>4, <2>5 DEF Request, Idle, AllOps, Labels
    <2>8. Held(r2)
      BY <2>4, <2>7 DEF Held
    <2> QED
      BY <2>1, <2>6, <2>7, <2>8, Begun, Unchanged
  <1>13. CASE WritePage(t)
    <2>1. PICK op \in {"addpage", "updatepage"}, id \in cookies :
             /\ MayEdit(id)
             /\ Begin(t, [Idle EXCEPT !.op = op, !.pc = "page:name",
                            !.seenUsers = GetUserById(id), !.author.who = id])
             /\ UNCHANGED <<tables, cookies, forms>>
      BY <1>13 DEF WritePage
    <2>2. PICK a : a = [name |-> NoName, who |-> id]
      OBVIOUS
    <2>3. a \in Author /\ GetUserById(id) \subseteq users /\ GetUserById(id) \subseteq User
      BY <1>1, <2>1, <2>2 DEF Author, GetUserById
    <2>4. PICK r2 : r2 = [Idle EXCEPT !.op = op, !.pc = "page:name",
                                      !.seenUsers = GetUserById(id), !.author = a]
      OBVIOUS
    <2>5. Begin(t, r2)
      <3>1. r2 = [Idle EXCEPT !.op = op, !.pc = "page:name",
                              !.seenUsers = GetUserById(id), !.author.who = id]
        BY <2>2, <2>4 DEF Idle
      <3> QED
        BY <2>1, <3>1
    <2>6. /\ r2 \in Request /\ r2.pc = "page:name" /\ r2.author = a
          /\ r2.seenUsers = GetUserById(id) /\ r2.seenPages = {}
      BY <1>2, <2>3, <2>4 DEF Request, Idle, AllOps, Labels
    <2>7. Held(r2)
      BY <2>6 DEF Held, NewSteps, UpdateSteps, RenameSteps
    <2>8. \E u \in users : u.id = r2.author.who
      BY <2>1, <2>2, <2>6 DEF MayEdit, GetUserById
    <2> QED
      BY <2>1, <2>3, <2>5, <2>6, <2>7, <2>8, Begun, Unchanged
  <1> QED
    BY <1>3, <1>4, <1>5, <1>6, <1>7, <1>8, <1>9, <1>10, <1>11, <1>12, <1>13 DEF Arrive

-----------------------------------------------------------------------------
(* Requests go on.  First the steps that change no table.                  *)
LEMMA TrackedIsFound ==
    ASSUME NEW table, \A u, v \in table : u.id = v.id => u = v,
           NEW own \in SUBSET table, NEW found \in SUBSET table
    PROVE  Tracked(own, found) = found
  BY DEF Tracked

(* What the model's first query has found still holds at the second.       *)
LEMMA VerifyNewUsernameKept ==
    ASSUME UserInv, NEW t \in Threads, VerifyNewUsernameIsNotInUse(t), cut' = cut
    PROVE  UserInv'
  <1>1. PICK r : r = rq[t]
    OBVIOUS
  <1>2. /\ Held(r) /\ r \in Request /\ Types
        /\ Serial => /\ UserKeys /\ PageKeys /\ ContentKeys /\ Apart
                     /\ SeenSound(r) /\ HandSound(r) /\ CheckSound(r) /\ RenameSound(r)
                     /\ WriterSound(r) /\ PasswordSound(r)
                     /\ ~cut => Named(r)
    BY <1>1, Basics DEF Sound
  <1>3. /\ users \subseteq User /\ pages \subseteq AuthoredPage
        /\ contents \subseteq AuthoredContent /\ nextGuid \in Nat \ {0} /\ cookies \subseteq Nat \ {0} /\ forms \subseteq Form
        /\ started \in Nat /\ rq \in [Threads -> Request]
    BY <1>2 DEF Types, TablesTypeOK
  <1>4. r.pc = "verify:username"
    BY <1>1 DEF At, VerifyNewUsernameIsNotInUse
  <1>5. CASE /\ r.model.existingUsername # r.model.newUsername
             /\ GetUserByUsername(r.model.newUsername) # {}
    <2>1. /\ Return(t)
          /\ UNCHANGED <<users, pages, contents, nextGuid, cookies, forms, started>>
      BY <1>1, <1>5 DEF VerifyNewUsernameIsNotInUse, tables
    <2> QED
      BY <1>1, <1>4, <2>1, Returned DEF RenameSteps
  <1>6. CASE ~(/\ r.model.existingUsername # r.model.newUsername
               /\ GetUserByUsername(r.model.newUsername) # {})
    <2>1. /\ Goto(t, "verify:email")
          /\ \/ r.model.existingUsername = r.model.newUsername
             \/ GetUserByUsername(r.model.newUsername) = {}
      BY <1>1, <1>6 DEF VerifyNewUsernameIsNotInUse, Goto
    <2>2. PICK r2 : r2 = [r EXCEPT !.pc = "verify:email"]
      OBVIOUS
    <2>3. /\ rq' = [rq EXCEPT ![t] = r2]
          /\ UNCHANGED <<users, pages, contents, nextGuid, cookies, forms, started>>
      BY <1>1, <1>3, <1>6, <2>1, <2>2 DEF VerifyNewUsernameIsNotInUse, tables, Goto
    <2>4. /\ r2 \in Request /\ r2.op = r.op /\ r2.pc = "verify:email" /\ r2.model = r.model
          /\ r2.user = r.user /\ r2.seenUsers = r.seenUsers /\ r2.seenPages = r.seenPages
          /\ r2.pages = r.pages /\ r2.contents = r.contents /\ r2.author = r.author
      BY <1>2, <1>3, <1>4, <2>1, <2>2 DEF Request, Labels
    <2>5. Held(r2)
      BY <1>2, <1>4, <2>1, <2>4 DEF Held, NewSteps, UpdateSteps, RenameSteps
    <2>6. ASSUME Serial PROVE Sound(r2)
      <3>1. SeenSound(r2)
        BY <1>2, <1>4, <2>1, <2>4, <2>6 DEF SeenSound, PageSteps
      <3>2. HandSound(r2)
        BY <1>2, <1>4, <2>1, <2>4, <2>6 DEF HandSound, RenameSteps
      <3>3. CheckSound(r2)
        BY <1>2, <1>4, <2>1, <2>4, <2>6, UserAssumption DEF CheckSound, Held, NewSteps
      <3>4. RenameSound(r2)
        BY <1>2, <1>4, <2>1, <2>4, <2>6 DEF RenameSound, RenameSteps
      <3>5. WriterSound(r2)
        BY <1>2, <1>4, <2>1, <2>4, <2>6 DEF WriterSound, PageSteps
      <3>6. PasswordSound(r2)
        BY <1>2, <1>4, <2>1, <2>4, <2>6 DEF PasswordSound
      <3> QED
        BY <3>1, <3>2, <3>3, <3>4, <3>5, <3>6 DEF Sound
    <2>7. ASSUME Serial, ~cut PROVE Named(r2)
      <3>1. WriterNamed(r2)
        BY <1>2, <1>4, <2>1, <2>4, <2>7 DEF WriterNamed
      <3> QED
        BY <1>2, <1>4, <2>7, <3>1, NamesStaySettled DEF RenameSteps
    <2>8. nextGuid' \in Nat /\ nextGuid' >= nextGuid
      BY <1>3, <2>3
    <2> QED
      BY <1>3, <2>3, <2>5, <2>6, <2>7, <2>8, Proceeded
  <1> QED
    BY <1>1, <1>5, <1>6 DEF VerifyNewUsernameIsNotInUse

(* Signup inserts what both queries have found free.                       *)
LEMMA VerifyNewEmailKept ==
    ASSUME UserInv, NEW t \in Threads, VerifyNewEmailIsNotInUse(t), cut' = cut
    PROVE  UserInv'
  <1>1. PICK r : r = rq[t]
    OBVIOUS
  <1>2. /\ Held(r) /\ r \in Request /\ Types
        /\ Serial => /\ UserKeys /\ PageKeys /\ ContentKeys /\ Apart
                     /\ SeenSound(r) /\ HandSound(r) /\ CheckSound(r) /\ RenameSound(r)
                     /\ WriterSound(r) /\ PasswordSound(r)
                     /\ ~cut => Named(r)
    BY <1>1, Basics DEF Sound
  <1>3. /\ users \subseteq User /\ pages \subseteq AuthoredPage
        /\ contents \subseteq AuthoredContent /\ nextGuid \in Nat \ {0} /\ cookies \subseteq Nat \ {0} /\ forms \subseteq Form
        /\ started \in Nat /\ rq \in [Threads -> Request]
    BY <1>2 DEF Types, TablesTypeOK
  <1>4. r.pc = "verify:email"
    BY <1>1 DEF At, VerifyNewEmailIsNotInUse
  <1>5. CASE r.model.existingEmail # r.model.newEmail /\ GetUserByEmail(r.model.newEmail) # {}
    <2>1. /\ Return(t)
          /\ UNCHANGED <<users, pages, contents, nextGuid, cookies, forms, started>>
      BY <1>1, <1>5 DEF VerifyNewEmailIsNotInUse, tables
    <2> QED
      BY <1>1, <1>4, <2>1, Returned DEF RenameSteps
  <1>6. CASE ~(r.model.existingEmail # r.model.newEmail /\ GetUserByEmail(r.model.newEmail) # {})
    <2>1. /\ Goto(t, AfterVerifying(r))
          /\ r.model.existingEmail = r.model.newEmail \/ GetUserByEmail(r.model.newEmail) = {}
          /\ AfterVerifying(r) \in {"add:find", "insert", "pwd:load", "upd:email?"}
          /\ AfterVerifying(r) = "add:find" => r.op = "adduser"
          /\ AfterVerifying(r) = "insert" => r.op = "signup"
          /\ AfterVerifying(r) = "pwd:load" => r.model.existingEmail = r.model.newEmail
      BY <1>1, <1>6, <1>2, <1>4
      DEF VerifyNewEmailIsNotInUse, Goto, AfterVerifying, NothingToUpdate
    <2>2. PICK r2 : r2 = [r EXCEPT !.pc = AfterVerifying(r)]
      OBVIOUS
    <2>3. /\ rq' = [rq EXCEPT ![t] = r2]
          /\ UNCHANGED <<users, pages, contents, nextGuid, cookies, forms, started>>
      BY <1>1, <1>3, <1>6, <2>1, <2>2, <1>2, <1>4
      DEF VerifyNewEmailIsNotInUse, tables, Goto, AfterVerifying, NothingToUpdate
    <2>4. /\ r2 \in Request /\ r2.op = r.op /\ r2.pc = AfterVerifying(r)
          /\ r2.model = r.model /\ r2.user = r.user /\ r2.seenUsers = r.seenUsers
          /\ r2.seenPages = r.seenPages /\ r2.pages = r.pages /\ r2.contents = r.contents
          /\ r2.author = r.author
      BY <1>2, <1>3, <1>4, <2>1, <2>2 DEF Request, Labels
    <2>5. Held(r2)
      BY <1>2, <1>4, <2>1, <2>4 DEF Held, NewSteps, UpdateSteps, RenameSteps
    <2>6. ASSUME Serial PROVE Sound(r2)
      <3>1. SeenSound(r2)
        BY <1>2, <1>4, <2>1, <2>4, <2>6 DEF SeenSound, PageSteps
      <3>2. HandSound(r2)
        BY <1>2, <1>4, <2>1, <2>4, <2>6 DEF HandSound, RenameSteps
      <3>3. CheckSound(r2)
        BY <1>2, <1>4, <2>1, <2>4, <2>6, UserAssumption DEF CheckSound, Held, NewSteps
      <3>4. RenameSound(r2)
        BY <1>2, <1>4, <2>1, <2>4, <2>6 DEF RenameSound, RenameSteps
      <3>5. WriterSound(r2)
        BY <1>2, <1>4, <2>1, <2>4, <2>6 DEF WriterSound, PageSteps
      <3>6. PasswordSound(r2)
        BY <1>2, <1>4, <2>1, <2>4, <2>6 DEF PasswordSound
      <3> QED
        BY <3>1, <3>2, <3>3, <3>4, <3>5, <3>6 DEF Sound
    <2>7. ASSUME Serial, ~cut PROVE Named(r2)
      <3>1. WriterNamed(r2)
        BY <1>2, <1>4, <2>1, <2>4, <2>7 DEF WriterNamed
      <3> QED
        BY <1>2, <1>4, <2>7, <3>1, NamesStaySettled DEF RenameSteps
    <2>8. nextGuid' \in Nat /\ nextGuid' >= nextGuid
      BY <1>3, <2>3
    <2> QED
      BY <1>3, <2>3, <2>5, <2>6, <2>7, <2>8, Proceeded
  <1> QED
    BY <1>1, <1>5, <1>6 DEF VerifyNewEmailIsNotInUse

(* AddUser asks for either name at once.                                   *)
LEMMA AddUserFindKept ==
    ASSUME UserInv, NEW t \in Threads, AddUserFind(t), cut' = cut
    PROVE  UserInv'
  <1>1. PICK r : r = rq[t]
    OBVIOUS
  <1>2. /\ Held(r) /\ r \in Request /\ Types
        /\ Serial => /\ UserKeys /\ PageKeys /\ ContentKeys /\ Apart
                     /\ SeenSound(r) /\ HandSound(r) /\ CheckSound(r) /\ RenameSound(r)
                     /\ WriterSound(r) /\ PasswordSound(r)
                     /\ ~cut => Named(r)
    BY <1>1, Basics DEF Sound
  <1>3. /\ users \subseteq User /\ pages \subseteq AuthoredPage
        /\ contents \subseteq AuthoredContent /\ nextGuid \in Nat \ {0} /\ cookies \subseteq Nat \ {0} /\ forms \subseteq Form
        /\ started \in Nat /\ rq \in [Threads -> Request]
    BY <1>2 DEF Types, TablesTypeOK
  <1>4. r.pc = "add:find"
    BY <1>1 DEF At, AddUserFind
  <1>5. CASE GetUserByUsernameOrEmail(r.model.newUsername, r.model.newEmail) # {}
    <2>1. /\ Return(t)
          /\ UNCHANGED <<users, pages, contents, nextGuid, cookies, forms, started>>
      BY <1>1, <1>5 DEF AddUserFind, tables
    <2> QED
      BY <1>1, <1>4, <2>1, Returned DEF RenameSteps
  <1>6. CASE ~(GetUserByUsernameOrEmail(r.model.newUsername, r.model.newEmail) # {})
    <2>1. /\ Goto(t, "insert")
          /\ GetUserByUsername(r.model.newUsername) = {}
          /\ GetUserByEmail(r.model.newEmail) = {}
      BY <1>1, <1>6 DEF AddUserFind, Goto, GetUserByUsernameOrEmail
    <2>2. PICK r2 : r2 = [r EXCEPT !.pc = "insert"]
      OBVIOUS
    <2>3. /\ rq' = [rq EXCEPT ![t] = r2]
          /\ UNCHANGED <<users, pages, contents, nextGuid, cookies, forms, started>>
      BY <1>1, <1>3, <1>6, <2>1, <2>2
      DEF AddUserFind, tables, Goto, GetUserByUsernameOrEmail
    <2>4. /\ r2 \in Request /\ r2.op = r.op /\ r2.pc = "insert" /\ r2.model = r.model
          /\ r2.user = r.user /\ r2.seenUsers = r.seenUsers /\ r2.seenPages = r.seenPages
          /\ r2.pages = r.pages /\ r2.contents = r.contents /\ r2.author = r.author
      BY <1>2, <1>3, <1>4, <2>1, <2>2 DEF Request, Labels
    <2>5. Held(r2)
      BY <1>2, <1>4, <2>1, <2>4 DEF Held, NewSteps, UpdateSteps, RenameSteps
    <2>6. ASSUME Serial PROVE Sound(r2)
      <3>1. SeenSound(r2)
        BY <1>2, <1>4, <2>1, <2>4, <2>6 DEF SeenSound, PageSteps
      <3>2. HandSound(r2)
        BY <1>2, <1>4, <2>1, <2>4, <2>6 DEF HandSound, RenameSteps
      <3>3. CheckSound(r2)
        BY <1>2, <1>4, <2>1, <2>4, <2>6 DEF CheckSound
      <3>4. RenameSound(r2)
        BY <1>2, <1>4, <2>1, <2>4, <2>6 DEF RenameSound, RenameSteps
      <3>5. WriterSound(r2)
        BY <1>2, <1>4, <2>1, <2>4, <2>6 DEF WriterSound, PageSteps
      <3>6. PasswordSound(r2)
        BY <1>2, <1>4, <2>1, <2>4, <2>6 DEF PasswordSound
      <3> QED
        BY <3>1, <3>2, <3>3, <3>4, <3>5, <3>6 DEF Sound
    <2>7. ASSUME Serial, ~cut PROVE Named(r2)
      <3>1. WriterNamed(r2)
        BY <1>2, <1>4, <2>1, <2>4, <2>7 DEF WriterNamed
      <3> QED
        BY <1>2, <1>4, <2>7, <3>1, NamesStaySettled DEF RenameSteps
    <2>8. nextGuid' \in Nat /\ nextGuid' >= nextGuid
      BY <1>3, <2>3
    <2> QED
      BY <1>3, <2>3, <2>5, <2>6, <2>7, <2>8, Proceeded
  <1> QED
    BY <1>1, <1>5, <1>6 DEF AddUserFind

(* UpdateUser asks for the new email,                                      *)
LEMMA CheckEmailKept ==
    ASSUME UserInv, NEW t \in Threads, UpdateUserCheckEmail(t), cut' = cut
    PROVE  UserInv'
  <1>1. PICK r : r = rq[t]
    OBVIOUS
  <1>2. /\ Held(r) /\ r \in Request /\ Types
        /\ Serial => /\ UserKeys /\ PageKeys /\ ContentKeys /\ Apart
                     /\ SeenSound(r) /\ HandSound(r) /\ CheckSound(r) /\ RenameSound(r)
                     /\ WriterSound(r) /\ PasswordSound(r)
                     /\ ~cut => Named(r)
    BY <1>1, Basics DEF Sound
  <1>3. /\ users \subseteq User /\ pages \subseteq AuthoredPage
        /\ contents \subseteq AuthoredContent /\ nextGuid \in Nat \ {0} /\ cookies \subseteq Nat \ {0} /\ forms \subseteq Form
        /\ started \in Nat /\ rq \in [Threads -> Request]
    BY <1>2 DEF Types, TablesTypeOK
  <1>4. r.pc = "upd:email?"
    BY <1>1 DEF At, UpdateUserCheckEmail
  <1>5. CASE r.model.existingEmail # r.model.newEmail /\ GetUserByEmail(r.model.newEmail) # {}
    <2>1. /\ Return(t)
          /\ UNCHANGED <<users, pages, contents, nextGuid, cookies, forms, started>>
      BY <1>1, <1>5 DEF UpdateUserCheckEmail, tables
    <2> QED
      BY <1>1, <1>4, <2>1, Returned DEF RenameSteps
  <1>6. CASE ~(r.model.existingEmail # r.model.newEmail /\ GetUserByEmail(r.model.newEmail) # {})
    <2>1. /\ Goto(t, "upd:username?")
          /\ r.model.existingEmail = r.model.newEmail \/ GetUserByEmail(r.model.newEmail) = {}
      BY <1>1, <1>6 DEF UpdateUserCheckEmail, Goto
    <2>2. PICK r2 : r2 = [r EXCEPT !.pc = "upd:username?"]
      OBVIOUS
    <2>3. /\ rq' = [rq EXCEPT ![t] = r2]
          /\ UNCHANGED <<users, pages, contents, nextGuid, cookies, forms, started>>
      BY <1>1, <1>3, <1>6, <2>1, <2>2 DEF UpdateUserCheckEmail, tables, Goto
    <2>4. /\ r2 \in Request /\ r2.op = r.op /\ r2.pc = "upd:username?" /\ r2.model = r.model
          /\ r2.user = r.user /\ r2.seenUsers = r.seenUsers /\ r2.seenPages = r.seenPages
          /\ r2.pages = r.pages /\ r2.contents = r.contents /\ r2.author = r.author
      BY <1>2, <1>3, <1>4, <2>1, <2>2 DEF Request, Labels
    <2>5. Held(r2)
      BY <1>2, <1>4, <2>1, <2>4 DEF Held, NewSteps, UpdateSteps, RenameSteps
    <2>6. ASSUME Serial PROVE Sound(r2)
      <3>1. SeenSound(r2)
        BY <1>2, <1>4, <2>1, <2>4, <2>6 DEF SeenSound, PageSteps
      <3>2. HandSound(r2)
        BY <1>2, <1>4, <2>1, <2>4, <2>6 DEF HandSound, RenameSteps
      <3>3. CheckSound(r2)
        BY <1>2, <1>4, <2>1, <2>4, <2>6 DEF CheckSound
      <3>4. RenameSound(r2)
        BY <1>2, <1>4, <2>1, <2>4, <2>6 DEF RenameSound, RenameSteps
      <3>5. WriterSound(r2)
        BY <1>2, <1>4, <2>1, <2>4, <2>6 DEF WriterSound, PageSteps
      <3>6. PasswordSound(r2)
        BY <1>2, <1>4, <2>1, <2>4, <2>6 DEF PasswordSound
      <3> QED
        BY <3>1, <3>2, <3>3, <3>4, <3>5, <3>6 DEF Sound
    <2>7. ASSUME Serial, ~cut PROVE Named(r2)
      <3>1. WriterNamed(r2)
        BY <1>2, <1>4, <2>1, <2>4, <2>7 DEF WriterNamed
      <3> QED
        BY <1>2, <1>4, <2>7, <3>1, NamesStaySettled DEF RenameSteps
    <2>8. nextGuid' \in Nat /\ nextGuid' >= nextGuid
      BY <1>3, <2>3
    <2> QED
      BY <1>3, <2>3, <2>5, <2>6, <2>7, <2>8, Proceeded
  <1> QED
    BY <1>1, <1>5, <1>6 DEF UpdateUserCheckEmail

(* and for the new name.                                                   *)
LEMMA CheckUsernameKept ==
    ASSUME UserInv, NEW t \in Threads, UpdateUserCheckUsername(t), cut' = cut
    PROVE  UserInv'
  <1>1. PICK r : r = rq[t]
    OBVIOUS
  <1>2. /\ Held(r) /\ r \in Request /\ Types
        /\ Serial => /\ UserKeys /\ PageKeys /\ ContentKeys /\ Apart
                     /\ SeenSound(r) /\ HandSound(r) /\ CheckSound(r) /\ RenameSound(r)
                     /\ WriterSound(r) /\ PasswordSound(r)
                     /\ ~cut => Named(r)
    BY <1>1, Basics DEF Sound
  <1>3. /\ users \subseteq User /\ pages \subseteq AuthoredPage
        /\ contents \subseteq AuthoredContent /\ nextGuid \in Nat \ {0} /\ cookies \subseteq Nat \ {0} /\ forms \subseteq Form
        /\ started \in Nat /\ rq \in [Threads -> Request]
    BY <1>2 DEF Types, TablesTypeOK
  <1>4. r.pc = "upd:username?"
    BY <1>1 DEF At, UpdateUserCheckUsername
  <1>5. CASE /\ r.model.existingUsername # r.model.newUsername
             /\ GetUserByUsername(r.model.newUsername) # {}
    <2>1. /\ Return(t)
          /\ UNCHANGED <<users, pages, contents, nextGuid, cookies, forms, started>>
      BY <1>1, <1>5 DEF UpdateUserCheckUsername, tables
    <2> QED
      BY <1>1, <1>4, <2>1, Returned DEF RenameSteps
  <1>6. CASE ~(/\ r.model.existingUsername # r.model.newUsername
               /\ GetUserByUsername(r.model.newUsername) # {})
    <2>1. /\ Goto(t, "upd:load")
          /\ \/ r.model.existingUsername = r.model.newUsername
             \/ GetUserByUsername(r.model.newUsername) = {}
      BY <1>1, <1>6 DEF UpdateUserCheckUsername, Goto
    <2>2. PICK r2 : r2 = [r EXCEPT !.pc = "upd:load"]
      OBVIOUS
    <2>3. /\ rq' = [rq EXCEPT ![t] = r2]
          /\ UNCHANGED <<users, pages, contents, nextGuid, cookies, forms, started>>
      BY <1>1, <1>3, <1>6, <2>1, <2>2 DEF UpdateUserCheckUsername, tables, Goto
    <2>4. /\ r2 \in Request /\ r2.op = r.op /\ r2.pc = "upd:load" /\ r2.model = r.model
          /\ r2.user = r.user /\ r2.seenUsers = r.seenUsers /\ r2.seenPages = r.seenPages
          /\ r2.pages = r.pages /\ r2.contents = r.contents /\ r2.author = r.author
      BY <1>2, <1>3, <1>4, <2>1, <2>2 DEF Request, Labels
    <2>5. Held(r2)
      BY <1>2, <1>4, <2>1, <2>4 DEF Held, NewSteps, UpdateSteps, RenameSteps
    <2>6. ASSUME Serial PROVE Sound(r2)
      <3>1. SeenSound(r2)
        BY <1>2, <1>4, <2>1, <2>4, <2>6 DEF SeenSound, PageSteps
      <3>2. HandSound(r2)
        BY <1>2, <1>4, <2>1, <2>4, <2>6 DEF HandSound, RenameSteps
      <3>3. CheckSound(r2)
        BY <1>2, <1>4, <2>1, <2>4, <2>6 DEF CheckSound
      <3>4. RenameSound(r2)
        BY <1>2, <1>4, <2>1, <2>4, <2>6 DEF RenameSound, RenameSteps
      <3>5. WriterSound(r2)
        BY <1>2, <1>4, <2>1, <2>4, <2>6 DEF WriterSound, PageSteps
      <3>6. PasswordSound(r2)
        BY <1>2, <1>4, <2>1, <2>4, <2>6 DEF PasswordSound
      <3> QED
        BY <3>1, <3>2, <3>3, <3>4, <3>5, <3>6 DEF Sound
    <2>7. ASSUME Serial, ~cut PROVE Named(r2)
      <3>1. WriterNamed(r2)
        BY <1>2, <1>4, <2>1, <2>4, <2>7 DEF WriterNamed
      <3> QED
        BY <1>2, <1>4, <2>7, <3>1, NamesStaySettled DEF RenameSteps
    <2>8. nextGuid' \in Nat /\ nextGuid' >= nextGuid
      BY <1>3, <2>3
    <2> QED
      BY <1>3, <2>3, <2>5, <2>6, <2>7, <2>8, Proceeded
  <1> QED
    BY <1>1, <1>5, <1>6 DEF UpdateUserCheckUsername

(* The account the form shows is read, and is in the table.                *)
LEMMA LoadKept ==
    ASSUME UserInv, NEW t \in Threads, UpdateUserLoad(t), cut' = cut
    PROVE  UserInv'
  <1>1. PICK r : r = rq[t]
    OBVIOUS
  <1>2. /\ Held(r) /\ r \in Request /\ Types
        /\ Serial => /\ UserKeys /\ PageKeys /\ ContentKeys /\ Apart
                     /\ SeenSound(r) /\ HandSound(r) /\ CheckSound(r) /\ RenameSound(r)
                     /\ WriterSound(r) /\ PasswordSound(r)
                     /\ ~cut => Named(r)
    BY <1>1, Basics DEF Sound
  <1>3. /\ users \subseteq User /\ pages \subseteq AuthoredPage
        /\ contents \subseteq AuthoredContent /\ nextGuid \in Nat \ {0} /\ cookies \subseteq Nat \ {0} /\ forms \subseteq Form
        /\ started \in Nat /\ rq \in [Threads -> Request]
    BY <1>2 DEF Types, TablesTypeOK
  <1>4. r.pc = "upd:load"
    BY <1>1 DEF At, UpdateUserLoad
  <1>5. CASE Return(t)
    <2>1. /\ Return(t)
          /\ UNCHANGED <<users, pages, contents, nextGuid, cookies, forms, started>>
      BY <1>1, <1>5 DEF UpdateUserLoad, tables
    <2> QED
      BY <1>1, <1>4, <2>1, Returned DEF RenameSteps
  <1>6. CASE \E u \in GetUserById(r.model.id) :
              Become(t, [WithUser(r, u) EXCEPT !.pc = "upd:details"])
    <2>1. PICK u \in users : Become(t, [WithUser(r, u) EXCEPT !.pc = "upd:details"])
      BY <1>1, <1>6 DEF UpdateUserLoad, Become, GetUserById
    <2>2. PICK r2 : r2 = [WithUser(r, u) EXCEPT !.pc = "upd:details"]
      OBVIOUS
    <2>3. /\ rq' = [rq EXCEPT ![t] = r2]
          /\ UNCHANGED <<users, pages, contents, nextGuid, cookies, forms, started>>
      BY <1>1, <1>3, <1>6, <2>1, <2>2 DEF UpdateUserLoad, tables, Become, GetUserById
    <2>4. /\ r2 \in Request /\ r2.op = r.op /\ r2.pc = "upd:details" /\ r2.model = r.model
          /\ r2.user = {u} /\ r2.seenUsers = r.seenUsers \cup {u}
          /\ r2.seenPages = r.seenPages /\ r2.pages = r.pages /\ r2.contents = r.contents
          /\ r2.author = r.author
      BY <1>2, <1>3, <1>4, <2>1, <2>2 DEF Request, Labels, WithUser
    <2>5. Held(r2)
      BY <1>2, <1>4, <2>1, <2>4 DEF Held, NewSteps, UpdateSteps, RenameSteps
    <2>6. ASSUME Serial PROVE Sound(r2)
      <3>1. SeenSound(r2)
        BY <1>2, <1>4, <2>1, <2>4, <2>6 DEF SeenSound, PageSteps
      <3>2. HandSound(r2)
        BY <1>2, <1>4, <2>1, <2>4, <2>6 DEF HandSound, RenameSteps
      <3>3. CheckSound(r2)
        BY <1>2, <1>4, <2>1, <2>4, <2>6 DEF CheckSound
      <3>4. RenameSound(r2)
        BY <1>2, <1>4, <2>1, <2>4, <2>6 DEF RenameSound, RenameSteps
      <3>5. WriterSound(r2)
        BY <1>2, <1>4, <2>1, <2>4, <2>6 DEF WriterSound, PageSteps
      <3>6. PasswordSound(r2)
        BY <1>2, <1>4, <2>1, <2>4, <2>6 DEF PasswordSound
      <3> QED
        BY <3>1, <3>2, <3>3, <3>4, <3>5, <3>6 DEF Sound
    <2>7. ASSUME Serial, ~cut PROVE Named(r2)
      <3>1. WriterNamed(r2)
        BY <1>2, <1>4, <2>1, <2>4, <2>7 DEF WriterNamed
      <3> QED
        BY <1>2, <1>4, <2>7, <3>1, NamesStaySettled DEF RenameSteps
    <2>8. nextGuid' \in Nat /\ nextGuid' >= nextGuid
      BY <1>3, <2>3
    <2> QED
      BY <1>3, <2>3, <2>5, <2>6, <2>7, <2>8, Proceeded
  <1> QED
    BY <1>1, <1>5, <1>6 DEF UpdateUserLoad

(* The account whose email changes is the one that has the form's.         *)
LEMMA FindEmailKept ==
    ASSUME UserInv, NEW t \in Threads, UpdateUserFindEmail(t), cut' = cut
    PROVE  UserInv'
  <1>1. PICK r : r = rq[t]
    OBVIOUS
  <1>2. /\ Held(r) /\ r \in Request /\ Types
        /\ Serial => /\ UserKeys /\ PageKeys /\ ContentKeys /\ Apart
                     /\ SeenSound(r) /\ HandSound(r) /\ CheckSound(r) /\ RenameSound(r)
                     /\ WriterSound(r) /\ PasswordSound(r)
                     /\ ~cut => Named(r)
    BY <1>1, Basics DEF Sound
  <1>3. /\ users \subseteq User /\ pages \subseteq AuthoredPage
        /\ contents \subseteq AuthoredContent /\ nextGuid \in Nat \ {0} /\ cookies \subseteq Nat \ {0} /\ forms \subseteq Form
        /\ started \in Nat /\ rq \in [Threads -> Request]
    BY <1>2 DEF Types, TablesTypeOK
  <1>4. r.pc = "upd:email"
    BY <1>1 DEF At, UpdateUserFindEmail
  <1> DEFINE found == Tracked(r.seenUsers, GetUserByEmail(r.model.existingEmail))
  <1>0. /\ found \subseteq User
        /\ Serial => found = GetUserByEmail(r.model.existingEmail) /\ found \subseteq users
    <2>1. GetUserByEmail(r.model.existingEmail) \subseteq users /\ r.seenUsers \subseteq User
      BY <1>2 DEF GetUserByEmail, Request
    <2>2. found \subseteq User
      BY <1>3, <2>1 DEF Tracked
    <2>3. ASSUME Serial PROVE found = GetUserByEmail(r.model.existingEmail)
      <3>1. r.seenUsers \in SUBSET users /\ GetUserByEmail(r.model.existingEmail) \in SUBSET users
        BY <1>2, <2>1, <2>3 DEF SeenSound
      <3>2. \A u, v \in users : u.id = v.id => u = v
        BY <1>2, <2>3 DEF UserKeys
      <3> QED
        BY <3>1, <3>2, TrackedIsFound
    <2> QED
      BY <2>1, <2>2, <2>3
  <1> HIDE DEF found
  <1>5. CASE r.model.existingEmail = r.model.newEmail /\ Goto(t, "upd:username")
    <2>1. /\ Goto(t, "upd:username")
      BY <1>1, <1>5 DEF UpdateUserFindEmail, Goto
    <2>2. PICK r2 : r2 = [r EXCEPT !.pc = "upd:username"]
      OBVIOUS
    <2>3. /\ rq' = [rq EXCEPT ![t] = r2]
          /\ UNCHANGED <<users, pages, contents, nextGuid, cookies, forms, started>>
      BY <1>1, <1>3, <1>5, <2>1, <2>2 DEF UpdateUserFindEmail, tables, Goto
    <2>4. /\ r2 \in Request /\ r2.op = r.op /\ r2.pc = "upd:username" /\ r2.model = r.model
          /\ r2.user = r.user /\ r2.seenUsers = r.seenUsers /\ r2.seenPages = r.seenPages
          /\ r2.pages = r.pages /\ r2.contents = r.contents /\ r2.author = r.author
      BY <1>2, <1>3, <1>4, <2>1, <2>2 DEF Request, Labels
    <2>5. Held(r2)
      BY <1>2, <1>4, <2>1, <2>4 DEF Held, NewSteps, UpdateSteps, RenameSteps
    <2>6. ASSUME Serial PROVE Sound(r2)
      <3>1. SeenSound(r2)
        BY <1>2, <1>4, <2>1, <2>4, <2>6 DEF SeenSound, PageSteps
      <3>2. HandSound(r2)
        BY <1>2, <1>4, <2>1, <2>4, <2>6 DEF HandSound, RenameSteps
      <3>3. CheckSound(r2)
        BY <1>2, <1>4, <2>1, <2>4, <2>6 DEF CheckSound
      <3>4. RenameSound(r2)
        BY <1>2, <1>4, <2>1, <2>4, <2>6 DEF RenameSound, RenameSteps
      <3>5. WriterSound(r2)
        BY <1>2, <1>4, <2>1, <2>4, <2>6 DEF WriterSound, PageSteps
      <3>6. PasswordSound(r2)
        BY <1>2, <1>4, <2>1, <2>4, <2>6 DEF PasswordSound
      <3> QED
        BY <3>1, <3>2, <3>3, <3>4, <3>5, <3>6 DEF Sound
    <2>7. ASSUME Serial, ~cut PROVE Named(r2)
      <3>1. WriterNamed(r2)
        BY <1>2, <1>4, <2>1, <2>4, <2>7 DEF WriterNamed
      <3> QED
        BY <1>2, <1>4, <2>7, <3>1, NamesStaySettled DEF RenameSteps
    <2>8. nextGuid' \in Nat /\ nextGuid' >= nextGuid
      BY <1>3, <2>3
    <2> QED
      BY <1>3, <2>3, <2>5, <2>6, <2>7, <2>8, Proceeded
  <1>6. CASE r.model.existingEmail # r.model.newEmail /\ found = {} /\ UpdateUserFails(t)
    <2>1. UpdateUserFails(t)
      BY <1>1, <1>6 DEF UpdateUserFindEmail, UpdateUserFails, Become
    <2>2. PICK r2 : r2 = [r EXCEPT !.pc = "pwd:load", !.model.existingEmail = r.model.newEmail]
      OBVIOUS
    <2>3. /\ rq' = [rq EXCEPT ![t] = r2]
          /\ UNCHANGED <<users, pages, contents, nextGuid, cookies, forms, started>>
      BY <1>1, <1>3, <1>6, <2>1, <2>2
      DEF UpdateUserFindEmail, tables, UpdateUserFails, Become
    <2>4. /\ r2 \in Request /\ r2.op = r.op /\ r2.pc = "pwd:load" /\ r2.user = r.user
          /\ r2.seenUsers = r.seenUsers /\ r2.seenPages = r.seenPages /\ r2.pages = r.pages
          /\ r2.contents = r.contents /\ r2.author = r.author
          /\ r2.model.existingEmail = r.model.newEmail
          /\ r2.model.newEmail = r.model.newEmail
          /\ r2.model.existingUsername = r.model.existingUsername
          /\ r2.model.newUsername = r.model.newUsername
          /\ r2.model.password = r.model.password
      <3>1. PICK m : m = [r.model EXCEPT !.existingEmail = r.model.newEmail]
        OBVIOUS
      <3>2. r.model \in Model
        BY <1>2 DEF Request
      <3>3. /\ m \in Model /\ m.existingEmail = r.model.newEmail /\ m.newEmail = r.model.newEmail
            /\ m.existingUsername = r.model.existingUsername
            /\ m.newUsername = r.model.newUsername /\ m.password = r.model.password
        BY <2>1, <3>1, <3>2 DEF Model
      <3>4. r2 = [r EXCEPT !.pc = "pwd:load", !.model = m]
        BY <2>2, <3>1
      <3> QED
        BY <1>2, <3>3, <3>4 DEF Request, Labels
    <2>5. Held(r2)
      BY <1>2, <1>4, <2>1, <2>4 DEF Held, NewSteps, UpdateSteps, RenameSteps
    <2>6. ASSUME Serial PROVE Sound(r2)
      <3>1. SeenSound(r2)
        BY <1>2, <1>4, <2>1, <2>4, <2>6 DEF SeenSound, PageSteps
      <3>2. HandSound(r2)
        BY <1>2, <1>4, <2>1, <2>4, <2>6 DEF HandSound, RenameSteps
      <3>3. CheckSound(r2)
        BY <1>2, <1>4, <2>1, <2>4, <2>6 DEF CheckSound
      <3>4. RenameSound(r2)
        BY <1>2, <1>4, <2>1, <2>4, <2>6 DEF RenameSound, RenameSteps
      <3>5. WriterSound(r2)
        BY <1>2, <1>4, <2>1, <2>4, <2>6 DEF WriterSound, PageSteps
      <3>6. PasswordSound(r2)
        BY <1>2, <1>4, <2>1, <2>4, <2>6 DEF PasswordSound
      <3> QED
        BY <3>1, <3>2, <3>3, <3>4, <3>5, <3>6 DEF Sound
    <2>7. ASSUME Serial, ~cut PROVE Named(r2)
      <3>1. WriterNamed(r2)
        BY <1>2, <1>4, <2>1, <2>4, <2>7 DEF WriterNamed
      <3> QED
        BY <1>2, <1>4, <2>7, <3>1, NamesStaySettled DEF RenameSteps
    <2>8. nextGuid' \in Nat /\ nextGuid' >= nextGuid
      BY <1>3, <2>3
    <2> QED
      BY <1>3, <2>3, <2>5, <2>6, <2>7, <2>8, Proceeded
  <1>7. CASE /\ r.model.existingEmail # r.model.newEmail
            /\ \E u \in found : Become(t, [WithUser(r, u) EXCEPT !.pc = "upd:saveemail"])
    <2>1. PICK u \in found : /\ Become(t, [WithUser(r, u) EXCEPT !.pc = "upd:saveemail"])
                            /\ r.model.existingEmail # r.model.newEmail
      BY <1>1, <1>7 DEF UpdateUserFindEmail, Become
    <2>2. PICK r2 : r2 = [WithUser(r, u) EXCEPT !.pc = "upd:saveemail"]
      OBVIOUS
    <2>3. /\ rq' = [rq EXCEPT ![t] = r2]
          /\ UNCHANGED <<users, pages, contents, nextGuid, cookies, forms, started>>
      BY <1>1, <1>3, <1>7, <2>1, <2>2 DEF UpdateUserFindEmail, tables, Become
    <2>4. /\ r2 \in Request /\ r2.op = r.op /\ r2.pc = "upd:saveemail" /\ r2.model = r.model
          /\ r2.user = {u} /\ r2.seenUsers = r.seenUsers \cup {u}
          /\ r2.seenPages = r.seenPages /\ r2.pages = r.pages /\ r2.contents = r.contents
          /\ r2.author = r.author
      BY <1>2, <1>3, <1>4, <2>1, <2>2, <1>0 DEF Request, Labels, WithUser
    <2>5. Held(r2)
      BY <1>2, <1>4, <2>1, <2>4 DEF Held, NewSteps, UpdateSteps, RenameSteps
    <2>6. ASSUME Serial PROVE Sound(r2)
      <3>1. SeenSound(r2)
        BY <1>2, <1>4, <2>1, <2>4, <2>6, <1>0 DEF SeenSound, PageSteps
      <3>2. HandSound(r2)
        BY <1>2, <1>4, <2>1, <2>4, <2>6, <1>0 DEF HandSound, RenameSteps
      <3>3. CheckSound(r2)
        BY <1>2, <1>4, <2>1, <2>4, <2>6 DEF CheckSound
      <3>4. RenameSound(r2)
        BY <1>2, <1>4, <2>1, <2>4, <2>6 DEF RenameSound, RenameSteps
      <3>5. WriterSound(r2)
        BY <1>2, <1>4, <2>1, <2>4, <2>6 DEF WriterSound, PageSteps
      <3>6. PasswordSound(r2)
        BY <1>2, <1>4, <2>1, <2>4, <2>6 DEF PasswordSound
      <3> QED
        BY <3>1, <3>2, <3>3, <3>4, <3>5, <3>6 DEF Sound
    <2>7. ASSUME Serial, ~cut PROVE Named(r2)
      <3>1. WriterNamed(r2)
        BY <1>2, <1>4, <2>1, <2>4, <2>7 DEF WriterNamed
      <3> QED
        BY <1>2, <1>4, <2>7, <3>1, NamesStaySettled DEF RenameSteps
    <2>8. nextGuid' \in Nat /\ nextGuid' >= nextGuid
      BY <1>3, <2>3
    <2> QED
      BY <1>3, <2>3, <2>5, <2>6, <2>7, <2>8, Proceeded
  <1> QED
    BY <1>1, <1>5, <1>6, <1>7 DEF UpdateUserFindEmail, found

(* The account that is renamed is the one that has the form's name.        *)
LEMMA FindUsernameKept ==
    ASSUME UserInv, NEW t \in Threads, UpdateUserFindUsername(t), cut' = cut
    PROVE  UserInv'
  <1>1. PICK r : r = rq[t]
    OBVIOUS
  <1>2. /\ Held(r) /\ r \in Request /\ Types
        /\ Serial => /\ UserKeys /\ PageKeys /\ ContentKeys /\ Apart
                     /\ SeenSound(r) /\ HandSound(r) /\ CheckSound(r) /\ RenameSound(r)
                     /\ WriterSound(r) /\ PasswordSound(r)
                     /\ ~cut => Named(r)
    BY <1>1, Basics DEF Sound
  <1>3. /\ users \subseteq User /\ pages \subseteq AuthoredPage
        /\ contents \subseteq AuthoredContent /\ nextGuid \in Nat \ {0} /\ cookies \subseteq Nat \ {0} /\ forms \subseteq Form
        /\ started \in Nat /\ rq \in [Threads -> Request]
    BY <1>2 DEF Types, TablesTypeOK
  <1>4. r.pc = "upd:username"
    BY <1>1 DEF At, UpdateUserFindUsername
  <1> DEFINE found == Tracked(r.seenUsers, GetUserByUsername(r.model.existingUsername))
  <1>0. /\ found \subseteq User
        /\ Serial => found = GetUserByUsername(r.model.existingUsername) /\ found \subseteq users
    <2>1. GetUserByUsername(r.model.existingUsername) \subseteq users /\ r.seenUsers \subseteq User
      BY <1>2 DEF GetUserByUsername, Request
    <2>2. found \subseteq User
      BY <1>3, <2>1 DEF Tracked
    <2>3. ASSUME Serial PROVE found = GetUserByUsername(r.model.existingUsername)
      <3>1. r.seenUsers \in SUBSET users /\ GetUserByUsername(r.model.existingUsername) \in SUBSET users
        BY <1>2, <2>1, <2>3 DEF SeenSound
      <3>2. \A u, v \in users : u.id = v.id => u = v
        BY <1>2, <2>3 DEF UserKeys
      <3> QED
        BY <3>1, <3>2, TrackedIsFound
    <2> QED
      BY <2>1, <2>2, <2>3
  <1> HIDE DEF found
  <1>5. CASE r.model.existingUsername = r.model.newUsername /\ UpdateUserSucceeds(t)
    <2>1. PICK email : /\ email = IF r.op = "edituser" THEN r.model.newEmail
                               ELSE r.model.existingEmail
                       /\ email \in Emails \cup {NoName} /\ UpdateUserSucceeds(t)
      BY <1>1, <1>5, <1>2
      DEF UpdateUserFindUsername, UpdateUserSucceeds, Become, Request, Model
    <2>2. PICK r2 : r2 = [r EXCEPT !.pc = "pwd:load", !.model.existingEmail = email]
      OBVIOUS
    <2>3. /\ rq' = [rq EXCEPT ![t] = r2]
          /\ UNCHANGED <<users, pages, contents, nextGuid, cookies, forms, started>>
      BY <1>1, <1>3, <1>5, <2>1, <2>2, <1>2
      DEF UpdateUserFindUsername, tables, UpdateUserSucceeds, Become, Request, Model
    <2>4. /\ r2 \in Request /\ r2.op = r.op /\ r2.pc = "pwd:load" /\ r2.user = r.user
          /\ r2.seenUsers = r.seenUsers /\ r2.seenPages = r.seenPages /\ r2.pages = r.pages
          /\ r2.contents = r.contents /\ r2.author = r.author
          /\ r2.model.existingEmail = email /\ r2.model.newEmail = r.model.newEmail
          /\ r2.model.existingUsername = r.model.existingUsername
          /\ r2.model.newUsername = r.model.newUsername
          /\ r2.model.password = r.model.password
      <3>1. PICK m : m = [r.model EXCEPT !.existingEmail = email]
        OBVIOUS
      <3>2. r.model \in Model
        BY <1>2 DEF Request
      <3>3. /\ m \in Model /\ m.existingEmail = email /\ m.newEmail = r.model.newEmail
            /\ m.existingUsername = r.model.existingUsername
            /\ m.newUsername = r.model.newUsername /\ m.password = r.model.password
        BY <2>1, <3>1, <3>2 DEF Model
      <3>4. r2 = [r EXCEPT !.pc = "pwd:load", !.model = m]
        BY <2>2, <3>1
      <3> QED
        BY <1>2, <3>3, <3>4 DEF Request, Labels
    <2>5. Held(r2)
      BY <1>2, <1>4, <2>1, <2>4 DEF Held, NewSteps, UpdateSteps, RenameSteps
    <2>6. ASSUME Serial PROVE Sound(r2)
      <3>1. SeenSound(r2)
        BY <1>2, <1>4, <2>1, <2>4, <2>6 DEF SeenSound, PageSteps
      <3>2. HandSound(r2)
        BY <1>2, <1>4, <2>1, <2>4, <2>6 DEF HandSound, RenameSteps
      <3>3. CheckSound(r2)
        BY <1>2, <1>4, <2>1, <2>4, <2>6 DEF CheckSound
      <3>4. RenameSound(r2)
        BY <1>2, <1>4, <2>1, <2>4, <2>6 DEF RenameSound, RenameSteps
      <3>5. WriterSound(r2)
        BY <1>2, <1>4, <2>1, <2>4, <2>6 DEF WriterSound, PageSteps
      <3>6. PasswordSound(r2)
        BY <1>2, <1>4, <2>1, <2>4, <2>6 DEF PasswordSound
      <3> QED
        BY <3>1, <3>2, <3>3, <3>4, <3>5, <3>6 DEF Sound
    <2>7. ASSUME Serial, ~cut PROVE Named(r2)
      <3>1. WriterNamed(r2)
        BY <1>2, <1>4, <2>1, <2>4, <2>7 DEF WriterNamed
      <3> QED
        BY <1>2, <1>4, <2>7, <3>1, NamesStaySettled DEF RenameSteps
    <2>8. nextGuid' \in Nat /\ nextGuid' >= nextGuid
      BY <1>3, <2>3
    <2> QED
      BY <1>3, <2>3, <2>5, <2>6, <2>7, <2>8, Proceeded
  <1>6. CASE r.model.existingUsername # r.model.newUsername /\ found = {} /\ UpdateUserFails(t)
    <2>1. UpdateUserFails(t)
      BY <1>1, <1>6 DEF UpdateUserFindUsername, UpdateUserFails, Become
    <2>2. PICK r2 : r2 = [r EXCEPT !.pc = "pwd:load", !.model.existingEmail = r.model.newEmail]
      OBVIOUS
    <2>3. /\ rq' = [rq EXCEPT ![t] = r2]
          /\ UNCHANGED <<users, pages, contents, nextGuid, cookies, forms, started>>
      BY <1>1, <1>3, <1>6, <2>1, <2>2
      DEF UpdateUserFindUsername, tables, UpdateUserFails, Become
    <2>4. /\ r2 \in Request /\ r2.op = r.op /\ r2.pc = "pwd:load" /\ r2.user = r.user
          /\ r2.seenUsers = r.seenUsers /\ r2.seenPages = r.seenPages /\ r2.pages = r.pages
          /\ r2.contents = r.contents /\ r2.author = r.author
          /\ r2.model.existingEmail = r.model.newEmail
          /\ r2.model.newEmail = r.model.newEmail
          /\ r2.model.existingUsername = r.model.existingUsername
          /\ r2.model.newUsername = r.model.newUsername
          /\ r2.model.password = r.model.password
      <3>1. PICK m : m = [r.model EXCEPT !.existingEmail = r.model.newEmail]
        OBVIOUS
      <3>2. r.model \in Model
        BY <1>2 DEF Request
      <3>3. /\ m \in Model /\ m.existingEmail = r.model.newEmail /\ m.newEmail = r.model.newEmail
            /\ m.existingUsername = r.model.existingUsername
            /\ m.newUsername = r.model.newUsername /\ m.password = r.model.password
        BY <2>1, <3>1, <3>2 DEF Model
      <3>4. r2 = [r EXCEPT !.pc = "pwd:load", !.model = m]
        BY <2>2, <3>1
      <3> QED
        BY <1>2, <3>3, <3>4 DEF Request, Labels
    <2>5. Held(r2)
      BY <1>2, <1>4, <2>1, <2>4 DEF Held, NewSteps, UpdateSteps, RenameSteps
    <2>6. ASSUME Serial PROVE Sound(r2)
      <3>1. SeenSound(r2)
        BY <1>2, <1>4, <2>1, <2>4, <2>6 DEF SeenSound, PageSteps
      <3>2. HandSound(r2)
        BY <1>2, <1>4, <2>1, <2>4, <2>6 DEF HandSound, RenameSteps
      <3>3. CheckSound(r2)
        BY <1>2, <1>4, <2>1, <2>4, <2>6 DEF CheckSound
      <3>4. RenameSound(r2)
        BY <1>2, <1>4, <2>1, <2>4, <2>6 DEF RenameSound, RenameSteps
      <3>5. WriterSound(r2)
        BY <1>2, <1>4, <2>1, <2>4, <2>6 DEF WriterSound, PageSteps
      <3>6. PasswordSound(r2)
        BY <1>2, <1>4, <2>1, <2>4, <2>6 DEF PasswordSound
      <3> QED
        BY <3>1, <3>2, <3>3, <3>4, <3>5, <3>6 DEF Sound
    <2>7. ASSUME Serial, ~cut PROVE Named(r2)
      <3>1. WriterNamed(r2)
        BY <1>2, <1>4, <2>1, <2>4, <2>7 DEF WriterNamed
      <3> QED
        BY <1>2, <1>4, <2>7, <3>1, NamesStaySettled DEF RenameSteps
    <2>8. nextGuid' \in Nat /\ nextGuid' >= nextGuid
      BY <1>3, <2>3
    <2> QED
      BY <1>3, <2>3, <2>5, <2>6, <2>7, <2>8, Proceeded
  <1>7. CASE /\ r.model.existingUsername # r.model.newUsername
            /\ \E u \in found : Become(t, [WithUser(r, u) EXCEPT !.pc = "upd:saveusername"])
    <2>1. PICK u \in found : /\ Become(t, [WithUser(r, u) EXCEPT !.pc = "upd:saveusername"])
                            /\ r.model.existingUsername # r.model.newUsername
      BY <1>1, <1>7 DEF UpdateUserFindUsername, Become
    <2>2. PICK r2 : r2 = [WithUser(r, u) EXCEPT !.pc = "upd:saveusername"]
      OBVIOUS
    <2>3. /\ rq' = [rq EXCEPT ![t] = r2]
          /\ UNCHANGED <<users, pages, contents, nextGuid, cookies, forms, started>>
      BY <1>1, <1>3, <1>7, <2>1, <2>2 DEF UpdateUserFindUsername, tables, Become
    <2>4. /\ r2 \in Request /\ r2.op = r.op /\ r2.pc = "upd:saveusername"
          /\ r2.model = r.model /\ r2.user = {u} /\ r2.seenUsers = r.seenUsers \cup {u}
          /\ r2.seenPages = r.seenPages /\ r2.pages = r.pages /\ r2.contents = r.contents
          /\ r2.author = r.author
      BY <1>2, <1>3, <1>4, <2>1, <2>2, <1>0 DEF Request, Labels, WithUser
    <2>5. Held(r2)
      BY <1>2, <1>4, <2>1, <2>4 DEF Held, NewSteps, UpdateSteps, RenameSteps
    <2>6. ASSUME Serial PROVE Sound(r2)
      <3>1. SeenSound(r2)
        BY <1>2, <1>4, <2>1, <2>4, <2>6, <1>0 DEF SeenSound, PageSteps
      <3>2. HandSound(r2)
        BY <1>2, <1>4, <2>1, <2>4, <2>6, <1>0 DEF HandSound, RenameSteps
      <3>3. CheckSound(r2)
        BY <1>2, <1>4, <2>1, <2>4, <2>6 DEF CheckSound
      <3>4. RenameSound(r2)
        BY <1>2, <1>4, <2>1, <2>4, <2>6, <1>0
        DEF RenameSound, RenameSteps, GetUserByUsername
      <3>5. WriterSound(r2)
        BY <1>2, <1>4, <2>1, <2>4, <2>6 DEF WriterSound, PageSteps
      <3>6. PasswordSound(r2)
        BY <1>2, <1>4, <2>1, <2>4, <2>6 DEF PasswordSound
      <3> QED
        BY <3>1, <3>2, <3>3, <3>4, <3>5, <3>6 DEF Sound
    <2>7. ASSUME Serial, ~cut PROVE Named(r2)
      <3>1. WriterNamed(r2)
        BY <1>2, <1>4, <2>1, <2>4, <2>7 DEF WriterNamed
      <3> QED
        BY <1>2, <1>4, <2>7, <3>1, NamesStaySettled DEF RenameSteps
    <2>8. nextGuid' \in Nat /\ nextGuid' >= nextGuid
      BY <1>3, <2>3
    <2> QED
      BY <1>3, <2>3, <2>5, <2>6, <2>7, <2>8, Proceeded
  <1> QED
    BY <1>1, <1>5, <1>6, <1>7 DEF UpdateUserFindUsername, found

(* All versions that bear the old name are read,                           *)
LEMMA ContentsKept ==
    ASSUME UserInv, NEW t \in Threads, UpdateUserContents(t), cut' = cut
    PROVE  UserInv'
  <1>1. PICK r : r = rq[t]
    OBVIOUS
  <1>2. /\ Held(r) /\ r \in Request /\ Types
        /\ Serial => /\ UserKeys /\ PageKeys /\ ContentKeys /\ Apart
                     /\ SeenSound(r) /\ HandSound(r) /\ CheckSound(r) /\ RenameSound(r)
                     /\ WriterSound(r) /\ PasswordSound(r)
                     /\ ~cut => Named(r)
    BY <1>1, Basics DEF Sound
  <1>3. /\ users \subseteq User /\ pages \subseteq AuthoredPage
        /\ contents \subseteq AuthoredContent /\ nextGuid \in Nat \ {0} /\ cookies \subseteq Nat \ {0} /\ forms \subseteq Form
        /\ started \in Nat /\ rq \in [Threads -> Request]
    BY <1>2 DEF Types, TablesTypeOK
  <1>4. r.pc = "upd:contents"
    BY <1>1 DEF At, UpdateUserContents
  <1>5. UserInv'
    <2>1. PICK rows : /\ rows = FindPageContentsEditedBy(r.model.existingUsername)
                      /\ Become(t, [r EXCEPT !.pc = "upd:editedby", !.contents = rows])
      BY <1>1 DEF UpdateUserContents, Become
    <2>2. PICK r2 : r2 = [r EXCEPT !.pc = "upd:editedby", !.contents = rows]
      OBVIOUS
    <2>3. /\ rq' = [rq EXCEPT ![t] = r2]
          /\ UNCHANGED <<users, pages, contents, nextGuid, cookies, forms, started>>
      BY <1>1, <1>3, <2>1, <2>2 DEF UpdateUserContents, tables, Become
    <2>4. /\ r2 \in Request /\ r2.op = r.op /\ r2.pc = "upd:editedby" /\ r2.model = r.model
          /\ r2.user = r.user /\ r2.seenUsers = r.seenUsers /\ r2.seenPages = r.seenPages
          /\ r2.pages = r.pages /\ r2.contents = rows /\ r2.author = r.author
      BY <1>2, <1>3, <1>4, <2>1, <2>2 DEF Request, Labels, FindPageContentsEditedBy
    <2>5. Held(r2)
      BY <1>2, <1>4, <2>1, <2>4 DEF Held, NewSteps, UpdateSteps, RenameSteps
    <2>6. ASSUME Serial PROVE Sound(r2)
      <3>1. SeenSound(r2)
        BY <1>2, <1>4, <2>1, <2>4, <2>6 DEF SeenSound, PageSteps
      <3>2. HandSound(r2)
        BY <1>2, <1>4, <2>1, <2>4, <2>6 DEF HandSound, RenameSteps
      <3>3. CheckSound(r2)
        BY <1>2, <1>4, <2>1, <2>4, <2>6 DEF CheckSound
      <3>4. RenameSound(r2)
        BY <1>2, <1>4, <2>1, <2>4, <2>6
        DEF RenameSound, RenameSteps, FindPageContentsEditedBy
      <3>5. WriterSound(r2)
        BY <1>2, <1>4, <2>1, <2>4, <2>6 DEF WriterSound, PageSteps
      <3>6. PasswordSound(r2)
        BY <1>2, <1>4, <2>1, <2>4, <2>6 DEF PasswordSound
      <3> QED
        BY <3>1, <3>2, <3>3, <3>4, <3>5, <3>6 DEF Sound
    <2>7. ASSUME Serial, ~cut PROVE Named(r2)
      <3>1. ContentsNamed(r2)
        BY <1>2, <1>4, <2>1, <2>4, <2>7
        DEF ContentsNamed, Named, Old, RenameSteps, IsNameOf, FindPageContentsEditedBy
      <3>2. CreatedNamed(r2)
        BY <1>2, <1>4, <2>1, <2>4, <2>7
        DEF CreatedNamed, Named, Old, RenameSteps, IsNameOf, FindPageContentsEditedBy
      <3>3. ModifiedNamed(r2)
        BY <1>2, <1>4, <2>1, <2>4, <2>7
        DEF ModifiedNamed, Named, Old, RenameSteps, IsNameOf, FindPageContentsEditedBy
      <3>4. WriterNamed(r2)
        BY <1>2, <1>4, <2>1, <2>4, <2>7 DEF WriterNamed
      <3> QED
        BY <3>1, <3>2, <3>3, <3>4 DEF Named
    <2>8. nextGuid' \in Nat /\ nextGuid' >= nextGuid
      BY <1>3, <2>3
    <2> QED
      BY <1>3, <2>3, <2>5, <2>6, <2>7, <2>8, Proceeded
  <1> QED
    BY <1>5

(* and all pages created,                                                  *)
LEMMA PagesKept ==
    ASSUME UserInv, NEW t \in Threads, UpdateUserPages(t), cut' = cut
    PROVE  UserInv'
  <1>1. PICK r : r = rq[t]
    OBVIOUS
  <1>2. /\ Held(r) /\ r \in Request /\ Types
        /\ Serial => /\ UserKeys /\ PageKeys /\ ContentKeys /\ Apart
                     /\ SeenSound(r) /\ HandSound(r) /\ CheckSound(r) /\ RenameSound(r)
                     /\ WriterSound(r) /\ PasswordSound(r)
                     /\ ~cut => Named(r)
    BY <1>1, Basics DEF Sound
  <1>3. /\ users \subseteq User /\ pages \subseteq AuthoredPage
        /\ contents \subseteq AuthoredContent /\ nextGuid \in Nat \ {0} /\ cookies \subseteq Nat \ {0} /\ forms \subseteq Form
        /\ started \in Nat /\ rq \in [Threads -> Request]
    BY <1>2 DEF Types, TablesTypeOK
  <1>4. r.pc = "upd:pages"
    BY <1>1 DEF At, UpdateUserPages
  <1>5. UserInv'
    <2>1. PICK own : /\ own = Tracked(r.seenPages, FindPagesCreatedBy(r.model.existingUsername))
                     /\ Become(t, [WithPages(r, FindPagesCreatedBy(r.model.existingUsername))
                                     EXCEPT !.pc = "upd:createdby"])
      BY <1>1 DEF UpdateUserPages, Become, WithPages
    <2>2. PICK r2 : r2 = [r EXCEPT !.pc = "upd:createdby", !.pages = own,
                               !.seenPages = r.seenPages \cup own]
      OBVIOUS
    <2>3. /\ rq' = [rq EXCEPT ![t] = r2]
          /\ UNCHANGED <<users, pages, contents, nextGuid, cookies, forms, started>>
      BY <1>1, <1>3, <2>1, <2>2 DEF UpdateUserPages, tables, Become, WithPages
    <2>9. /\ own \subseteq AuthoredPage
          /\ Serial => own = FindPagesCreatedBy(r.model.existingUsername) /\ own \subseteq pages
      <3>1. FindPagesCreatedBy(r.model.existingUsername) \subseteq pages /\ r.seenPages \subseteq AuthoredPage
        BY <1>2 DEF FindPagesCreatedBy, Request
      <3>2. own \subseteq AuthoredPage
        BY <1>3, <2>1, <3>1 DEF Tracked
      <3>3. ASSUME Serial PROVE own = FindPagesCreatedBy(r.model.existingUsername)
        <4>1. r.seenPages \in SUBSET pages /\ FindPagesCreatedBy(r.model.existingUsername) \in SUBSET pages
          BY <1>2, <3>1, <3>3 DEF SeenSound
        <4>2. \A p, q \in pages : p.id = q.id => p = q
          BY <1>2, <3>3 DEF PageKeys
        <4> QED
          BY <2>1, <4>1, <4>2, TrackedIsFound
      <3> QED
        BY <3>1, <3>2, <3>3
    <2>4. /\ r2 \in Request /\ r2.op = r.op /\ r2.pc = "upd:createdby" /\ r2.model = r.model
          /\ r2.user = r.user /\ r2.seenUsers = r.seenUsers
          /\ r2.seenPages = r.seenPages \cup own /\ r2.pages = own
          /\ r2.contents = r.contents /\ r2.author = r.author
      BY <1>2, <1>3, <1>4, <2>1, <2>2, <2>9 DEF Request, Labels
    <2>5. Held(r2)
      BY <1>2, <1>4, <2>1, <2>4 DEF Held, NewSteps, UpdateSteps, RenameSteps
    <2>6. ASSUME Serial PROVE Sound(r2)
      <3>1. SeenSound(r2)
        BY <1>2, <1>4, <2>1, <2>4, <2>6, <2>9 DEF SeenSound, PageSteps
      <3>2. HandSound(r2)
        BY <1>2, <1>4, <2>1, <2>4, <2>6 DEF HandSound, RenameSteps
      <3>3. CheckSound(r2)
        BY <1>2, <1>4, <2>1, <2>4, <2>6 DEF CheckSound
      <3>4. RenameSound(r2)
        BY <1>2, <1>4, <2>1, <2>4, <2>6, <2>9
        DEF RenameSound, RenameSteps, FindPagesCreatedBy
      <3>5. WriterSound(r2)
        BY <1>2, <1>4, <2>1, <2>4, <2>6 DEF WriterSound, PageSteps
      <3>6. PasswordSound(r2)
        BY <1>2, <1>4, <2>1, <2>4, <2>6 DEF PasswordSound
      <3> QED
        BY <3>1, <3>2, <3>3, <3>4, <3>5, <3>6 DEF Sound
    <2>7. ASSUME Serial, ~cut PROVE Named(r2)
      <3>1. ContentsNamed(r2)
        BY <1>2, <1>4, <2>1, <2>4, <2>7, <2>9
        DEF ContentsNamed, Named, Old, RenameSteps, IsNameOf, FindPagesCreatedBy
      <3>2. CreatedNamed(r2)
        BY <1>2, <1>4, <2>1, <2>4, <2>7, <2>9
        DEF CreatedNamed, Named, Old, RenameSteps, IsNameOf, FindPagesCreatedBy
      <3>3. ModifiedNamed(r2)
        BY <1>2, <1>4, <2>1, <2>4, <2>7, <2>9
        DEF ModifiedNamed, Named, Old, RenameSteps, IsNameOf, FindPagesCreatedBy
      <3>4. WriterNamed(r2)
        BY <1>2, <1>4, <2>1, <2>4, <2>7 DEF WriterNamed
      <3> QED
        BY <3>1, <3>2, <3>3, <3>4 DEF Named
    <2>8. nextGuid' \in Nat /\ nextGuid' >= nextGuid
      BY <1>3, <2>3
    <2> QED
      BY <1>3, <2>3, <2>5, <2>6, <2>7, <2>8, Proceeded
  <1> QED
    BY <1>5

(* and all pages modified under it.                                        *)
LEMMA ModifiedKept ==
    ASSUME UserInv, NEW t \in Threads, UpdateUserModified(t), cut' = cut
    PROVE  UserInv'
  <1>1. PICK r : r = rq[t]
    OBVIOUS
  <1>2. /\ Held(r) /\ r \in Request /\ Types
        /\ Serial => /\ UserKeys /\ PageKeys /\ ContentKeys /\ Apart
                     /\ SeenSound(r) /\ HandSound(r) /\ CheckSound(r) /\ RenameSound(r)
                     /\ WriterSound(r) /\ PasswordSound(r)
                     /\ ~cut => Named(r)
    BY <1>1, Basics DEF Sound
  <1>3. /\ users \subseteq User /\ pages \subseteq AuthoredPage
        /\ contents \subseteq AuthoredContent /\ nextGuid \in Nat \ {0} /\ cookies \subseteq Nat \ {0} /\ forms \subseteq Form
        /\ started \in Nat /\ rq \in [Threads -> Request]
    BY <1>2 DEF Types, TablesTypeOK
  <1>4. r.pc = "upd:modified"
    BY <1>1 DEF At, UpdateUserModified
  <1>5. UserInv'
    <2>1. PICK own : /\ own = Tracked(r.seenPages, FindPagesModifiedBy(r.model.existingUsername))
                     /\ Become(t, [WithPages(r, FindPagesModifiedBy(r.model.existingUsername))
                                     EXCEPT !.pc = "upd:modifiedby"])
      BY <1>1 DEF UpdateUserModified, Become, WithPages
    <2>2. PICK r2 : r2 = [r EXCEPT !.pc = "upd:modifiedby", !.pages = own,
                               !.seenPages = r.seenPages \cup own]
      OBVIOUS
    <2>3. /\ rq' = [rq EXCEPT ![t] = r2]
          /\ UNCHANGED <<users, pages, contents, nextGuid, cookies, forms, started>>
      BY <1>1, <1>3, <2>1, <2>2 DEF UpdateUserModified, tables, Become, WithPages
    <2>9. /\ own \subseteq AuthoredPage
          /\ Serial => own = FindPagesModifiedBy(r.model.existingUsername) /\ own \subseteq pages
      <3>1. FindPagesModifiedBy(r.model.existingUsername) \subseteq pages /\ r.seenPages \subseteq AuthoredPage
        BY <1>2 DEF FindPagesModifiedBy, Request
      <3>2. own \subseteq AuthoredPage
        BY <1>3, <2>1, <3>1 DEF Tracked
      <3>3. ASSUME Serial PROVE own = FindPagesModifiedBy(r.model.existingUsername)
        <4>1. r.seenPages \in SUBSET pages /\ FindPagesModifiedBy(r.model.existingUsername) \in SUBSET pages
          BY <1>2, <3>1, <3>3 DEF SeenSound
        <4>2. \A p, q \in pages : p.id = q.id => p = q
          BY <1>2, <3>3 DEF PageKeys
        <4> QED
          BY <2>1, <4>1, <4>2, TrackedIsFound
      <3> QED
        BY <3>1, <3>2, <3>3
    <2>4. /\ r2 \in Request /\ r2.op = r.op /\ r2.pc = "upd:modifiedby"
          /\ r2.model = r.model /\ r2.user = r.user /\ r2.seenUsers = r.seenUsers
          /\ r2.seenPages = r.seenPages \cup own /\ r2.pages = own
          /\ r2.contents = r.contents /\ r2.author = r.author
      BY <1>2, <1>3, <1>4, <2>1, <2>2, <2>9 DEF Request, Labels
    <2>5. Held(r2)
      BY <1>2, <1>4, <2>1, <2>4 DEF Held, NewSteps, UpdateSteps, RenameSteps
    <2>6. ASSUME Serial PROVE Sound(r2)
      <3>1. SeenSound(r2)
        BY <1>2, <1>4, <2>1, <2>4, <2>6, <2>9 DEF SeenSound, PageSteps
      <3>2. HandSound(r2)
        BY <1>2, <1>4, <2>1, <2>4, <2>6 DEF HandSound, RenameSteps
      <3>3. CheckSound(r2)
        BY <1>2, <1>4, <2>1, <2>4, <2>6 DEF CheckSound
      <3>4. RenameSound(r2)
        BY <1>2, <1>4, <2>1, <2>4, <2>6, <2>9
        DEF RenameSound, RenameSteps, FindPagesModifiedBy
      <3>5. WriterSound(r2)
        BY <1>2, <1>4, <2>1, <2>4, <2>6 DEF WriterSound, PageSteps
      <3>6. PasswordSound(r2)
        BY <1>2, <1>4, <2>1, <2>4, <2>6 DEF PasswordSound
      <3> QED
        BY <3>1, <3>2, <3>3, <3>4, <3>5, <3>6 DEF Sound
    <2>7. ASSUME Serial, ~cut PROVE Named(r2)
      <3>1. ContentsNamed(r2)
        BY <1>2, <1>4, <2>1, <2>4, <2>7, <2>9
        DEF ContentsNamed, Named, Old, RenameSteps, IsNameOf, FindPagesModifiedBy
      <3>2. CreatedNamed(r2)
        BY <1>2, <1>4, <2>1, <2>4, <2>7, <2>9
        DEF CreatedNamed, Named, Old, RenameSteps, IsNameOf, FindPagesModifiedBy
      <3>3. ModifiedNamed(r2)
        BY <1>2, <1>4, <2>1, <2>4, <2>7, <2>9
        DEF ModifiedNamed, Named, Old, RenameSteps, IsNameOf, FindPagesModifiedBy
      <3>4. WriterNamed(r2)
        BY <1>2, <1>4, <2>1, <2>4, <2>7 DEF WriterNamed
      <3> QED
        BY <3>1, <3>2, <3>3, <3>4 DEF Named
    <2>8. nextGuid' \in Nat /\ nextGuid' >= nextGuid
      BY <1>3, <2>3
    <2> QED
      BY <1>3, <2>3, <2>5, <2>6, <2>7, <2>8, Proceeded
  <1> QED
    BY <1>5

(* The password goes to the account of that email, if there is one.        *)
LEMMA ChangePasswordKept ==
    ASSUME UserInv, NEW t \in Threads, ChangePassword(t), cut' = cut
    PROVE  UserInv'
  <1>1. PICK r : r = rq[t]
    OBVIOUS
  <1>2. /\ Held(r) /\ r \in Request /\ Types
        /\ Serial => /\ UserKeys /\ PageKeys /\ ContentKeys /\ Apart
                     /\ SeenSound(r) /\ HandSound(r) /\ CheckSound(r) /\ RenameSound(r)
                     /\ WriterSound(r) /\ PasswordSound(r)
                     /\ ~cut => Named(r)
    BY <1>1, Basics DEF Sound
  <1>3. /\ users \subseteq User /\ pages \subseteq AuthoredPage
        /\ contents \subseteq AuthoredContent /\ nextGuid \in Nat \ {0} /\ cookies \subseteq Nat \ {0} /\ forms \subseteq Form
        /\ started \in Nat /\ rq \in [Threads -> Request]
    BY <1>2 DEF Types, TablesTypeOK
  <1>4. r.pc = "pwd:load"
    BY <1>1 DEF At, ChangePassword
  <1> DEFINE found == Tracked(r.seenUsers, GetUserByEmail(r.model.existingEmail))
  <1>0. /\ found \subseteq User
        /\ Serial => found = GetUserByEmail(r.model.existingEmail) /\ found \subseteq users
    <2>1. GetUserByEmail(r.model.existingEmail) \subseteq users /\ r.seenUsers \subseteq User
      BY <1>2 DEF GetUserByEmail, Request
    <2>2. found \subseteq User
      BY <1>3, <2>1 DEF Tracked
    <2>3. ASSUME Serial PROVE found = GetUserByEmail(r.model.existingEmail)
      <3>1. r.seenUsers \in SUBSET users /\ GetUserByEmail(r.model.existingEmail) \in SUBSET users
        BY <1>2, <2>1, <2>3 DEF SeenSound
      <3>2. \A u, v \in users : u.id = v.id => u = v
        BY <1>2, <2>3 DEF UserKeys
      <3> QED
        BY <3>1, <3>2, TrackedIsFound
    <2> QED
      BY <2>1, <2>2, <2>3
  <1> HIDE DEF found
  <1>5. CASE (r.model.password = NoName \/ found = {}) /\ Return(t)
    <2>1. /\ Return(t)
          /\ UNCHANGED <<users, pages, contents, nextGuid, cookies, forms, started>>
      BY <1>1, <1>5 DEF ChangePassword, tables
    <2> QED
      BY <1>1, <1>4, <2>1, Returned DEF RenameSteps
  <1>6. CASE /\ r.model.password # NoName
            /\ \E u \in found : Become(t, [r EXCEPT !.pc = "save",
                                               !.user = {[u EXCEPT !.password = r.model.password]}])
    <2>1. PICK u, w : /\ u \in found /\ w = [u EXCEPT !.password = r.model.password]
                     /\ Become(t, [r EXCEPT !.pc = "save", !.user = {w}])
                     /\ r.model.password # NoName
      BY <1>1, <1>6 DEF ChangePassword, Become
    <2>2. PICK r2 : r2 = [r EXCEPT !.pc = "save", !.user = {w}]
      OBVIOUS
    <2>3. /\ rq' = [rq EXCEPT ![t] = r2]
          /\ UNCHANGED <<users, pages, contents, nextGuid, cookies, forms, started>>
      BY <1>1, <1>3, <1>6, <2>1, <2>2 DEF ChangePassword, tables, Become
    <2>9. u \in User /\ r.model.password \in Passwords
      BY <1>0, <1>2, <2>1 DEF Request, Model
    <2>10. /\ w \in User /\ w.id = u.id /\ w.username = u.username /\ w.email = u.email
           /\ w.password = r.model.password
      BY <2>1, <2>9 DEF User
    <2>11. Serial => u \in users /\ u.email = r.model.existingEmail
      BY <1>0, <2>1 DEF GetUserByEmail
    <2>4. /\ r2 \in Request /\ r2.op = r.op /\ r2.pc = "save" /\ r2.model = r.model
          /\ r2.user = {w} /\ r2.seenUsers = r.seenUsers /\ r2.seenPages = r.seenPages
          /\ r2.pages = r.pages /\ r2.contents = r.contents /\ r2.author = r.author
      BY <1>2, <1>3, <1>4, <2>1, <2>2, <2>10 DEF Request, Labels
    <2>5. Held(r2)
      BY <1>2, <1>4, <2>1, <2>4 DEF Held, NewSteps, UpdateSteps, RenameSteps
    <2>6. ASSUME Serial PROVE Sound(r2)
      <3>1. SeenSound(r2)
        BY <1>2, <1>4, <2>1, <2>4, <2>6 DEF SeenSound, PageSteps
      <3>2. HandSound(r2)
        BY <1>2, <1>4, <2>1, <2>4, <2>6, <2>10, <2>11 DEF HandSound, RenameSteps
      <3>3. CheckSound(r2)
        BY <1>2, <1>4, <2>1, <2>4, <2>6 DEF CheckSound
      <3>4. RenameSound(r2)
        BY <1>2, <1>4, <2>1, <2>4, <2>6 DEF RenameSound, RenameSteps
      <3>5. WriterSound(r2)
        BY <1>2, <1>4, <2>1, <2>4, <2>6 DEF WriterSound, PageSteps
      <3>6. PasswordSound(r2)
        BY <1>2, <1>4, <2>1, <2>4, <2>6, <2>10, <2>11 DEF PasswordSound
      <3> QED
        BY <3>1, <3>2, <3>3, <3>4, <3>5, <3>6 DEF Sound
    <2>7. ASSUME Serial, ~cut PROVE Named(r2)
      <3>1. WriterNamed(r2)
        BY <1>2, <1>4, <2>1, <2>4, <2>7 DEF WriterNamed
      <3> QED
        BY <1>2, <1>4, <2>7, <3>1, NamesStaySettled DEF RenameSteps
    <2>8. nextGuid' \in Nat /\ nextGuid' >= nextGuid
      BY <1>3, <2>3
    <2> QED
      BY <1>3, <2>3, <2>5, <2>6, <2>7, <2>8, Proceeded
  <1> QED
    BY <1>1, <1>5, <1>6 DEF ChangePassword, found

(* Who writes a page has the name of the account, or the account is gone.  *)
LEMMA CurrentUsernameKept ==
    ASSUME UserInv, NEW t \in Threads, CurrentUsername(t), cut' = cut
    PROVE  UserInv'
  <1>1. PICK r : r = rq[t]
    OBVIOUS
  <1>2. /\ Held(r) /\ r \in Request /\ Types
        /\ Serial => /\ UserKeys /\ PageKeys /\ ContentKeys /\ Apart
                     /\ SeenSound(r) /\ HandSound(r) /\ CheckSound(r) /\ RenameSound(r)
                     /\ WriterSound(r) /\ PasswordSound(r)
                     /\ ~cut => Named(r)
    BY <1>1, Basics DEF Sound
  <1>3. /\ users \subseteq User /\ pages \subseteq AuthoredPage
        /\ contents \subseteq AuthoredContent /\ nextGuid \in Nat \ {0} /\ cookies \subseteq Nat \ {0} /\ forms \subseteq Form
        /\ started \in Nat /\ rq \in [Threads -> Request]
    BY <1>2 DEF Types, TablesTypeOK
  <1>4. r.pc = "page:name"
    BY <1>1 DEF At, CurrentUsername
  <1> DEFINE label == IF r.op = "addpage" THEN "page:add" ELSE "page:load"
  <1>9. label \in {"page:add", "page:load"}
    OBVIOUS
  <1> HIDE DEF label
  <1> DEFINE found == Tracked(r.seenUsers, GetUserById(r.author.who))
  <1>0. /\ found \subseteq User
        /\ Serial => found = GetUserById(r.author.who) /\ found \subseteq users
    <2>1. GetUserById(r.author.who) \subseteq users /\ r.seenUsers \subseteq User
      BY <1>2 DEF GetUserById, Request
    <2>2. found \subseteq User
      BY <1>3, <2>1 DEF Tracked
    <2>3. ASSUME Serial PROVE found = GetUserById(r.author.who)
      <3>1. r.seenUsers \in SUBSET users /\ GetUserById(r.author.who) \in SUBSET users
        BY <1>2, <2>1, <2>3 DEF SeenSound
      <3>2. \A u, v \in users : u.id = v.id => u = v
        BY <1>2, <2>3 DEF UserKeys
      <3> QED
        BY <3>1, <3>2, TrackedIsFound
    <2> QED
      BY <2>1, <2>2, <2>3
  <1> HIDE DEF found
  <1>5. CASE found = {} /\ cookies' = cookies \ {r.author.who} /\ Goto(t, label)
    <2>1. found = {} /\ Goto(t, label)
      BY <1>1, <1>5 DEF CurrentUsername, Goto
    <2>2. PICK r2 : r2 = [r EXCEPT !.pc = label]
      OBVIOUS
    <2>3. /\ rq' = [rq EXCEPT ![t] = r2]
          /\ UNCHANGED <<users, pages, contents, nextGuid, forms, started>>
          /\ cookies' \subseteq Nat \ {0}
      BY <1>1, <1>3, <1>5, <2>1, <2>2 DEF CurrentUsername, tables, Goto
    <2>4. /\ r2 \in Request /\ r2.op = r.op /\ r2.pc = label /\ r2.model = r.model
          /\ r2.user = r.user /\ r2.seenUsers = r.seenUsers /\ r2.seenPages = r.seenPages
          /\ r2.pages = r.pages /\ r2.contents = r.contents /\ r2.author = r.author
      BY <1>2, <1>3, <1>4, <2>1, <2>2, <1>9 DEF Request, Labels
    <2>5. Held(r2)
      BY <1>2, <1>4, <2>1, <2>4, <1>9 DEF Held, NewSteps, UpdateSteps, RenameSteps
    <2>6. ASSUME Serial PROVE Sound(r2)
      <3>1. SeenSound(r2)
        BY <1>2, <1>4, <2>1, <2>4, <2>6, <1>9 DEF SeenSound, PageSteps
      <3>2. HandSound(r2)
        BY <1>2, <1>4, <2>1, <2>4, <2>6, <1>9 DEF HandSound, RenameSteps
      <3>3. CheckSound(r2)
        BY <1>2, <1>4, <2>1, <2>4, <2>6, <1>9 DEF CheckSound
      <3>4. RenameSound(r2)
        BY <1>2, <1>4, <2>1, <2>4, <2>6, <1>9 DEF RenameSound, RenameSteps
      <3>5. WriterSound(r2)
        BY <1>2, <1>4, <2>1, <2>4, <2>6, <1>9 DEF WriterSound, PageSteps
      <3>6. PasswordSound(r2)
        BY <1>2, <1>4, <2>1, <2>4, <2>6, <1>9 DEF PasswordSound
      <3> QED
        BY <3>1, <3>2, <3>3, <3>4, <3>5, <3>6 DEF Sound
    <2>7. ASSUME Serial, ~cut PROVE Named(r2)
      <3>1. WriterNamed(r2)
        BY <1>2, <1>4, <2>1, <2>4, <2>7, <1>9, <1>0 DEF WriterNamed, IsNameOf, GetUserById
      <3> QED
        BY <1>2, <1>4, <2>7, <3>1, NamesStaySettled DEF RenameSteps
    <2>8. nextGuid' \in Nat /\ nextGuid' >= nextGuid
      BY <1>3, <2>3
    <2> QED
      BY <1>3, <2>3, <2>5, <2>6, <2>7, <2>8, Proceeded
  <1>6. CASE \E u \in found : Become(t, [r EXCEPT !.pc = label, !.author.name = u.username])
                      /\ cookies' = cookies
    <2>1. PICK u, a : /\ u \in found
                     /\ a = [r.author EXCEPT !.name = u.username]
                     /\ Become(t, [r EXCEPT !.pc = label, !.author.name = u.username])
                     /\ cookies' = cookies
      BY <1>1, <1>6, <1>2 DEF CurrentUsername, Become, Request, Author
    <2>2. PICK r2 : r2 = [r EXCEPT !.pc = label, !.author = a]
      OBVIOUS
    <2>3. /\ rq' = [rq EXCEPT ![t] = r2]
          /\ UNCHANGED <<users, pages, contents, nextGuid, forms, started>>
          /\ cookies' \subseteq Nat \ {0}
      BY <1>1, <1>3, <1>6, <2>1, <2>2, <1>2
      DEF CurrentUsername, tables, Become, Request, Author
    <2>9. a \in Author /\ a.who = r.author.who /\ a.name = u.username
      BY <1>0, <1>2, <2>1 DEF Request, Author, User
    <2>10. Serial => \A v \in users : v.id = a.who => v = u
      BY <1>0, <1>2, <2>1, <2>9 DEF GetUserById, UserKeys
    <2>4. /\ r2 \in Request /\ r2.op = r.op /\ r2.pc = label /\ r2.model = r.model
          /\ r2.user = r.user /\ r2.seenUsers = r.seenUsers /\ r2.seenPages = r.seenPages
          /\ r2.pages = r.pages /\ r2.contents = r.contents /\ r2.author = a
      BY <1>2, <1>3, <1>4, <2>1, <2>2, <1>9, <2>9 DEF Request, Labels
    <2>5. Held(r2)
      BY <1>2, <1>4, <2>1, <2>4, <1>9 DEF Held, NewSteps, UpdateSteps, RenameSteps
    <2>6. ASSUME Serial PROVE Sound(r2)
      <3>1. SeenSound(r2)
        BY <1>2, <1>4, <2>1, <2>4, <2>6, <1>9 DEF SeenSound, PageSteps
      <3>2. HandSound(r2)
        BY <1>2, <1>4, <2>1, <2>4, <2>6, <1>9 DEF HandSound, RenameSteps
      <3>3. CheckSound(r2)
        BY <1>2, <1>4, <2>1, <2>4, <2>6, <1>9 DEF CheckSound
      <3>4. RenameSound(r2)
        BY <1>2, <1>4, <2>1, <2>4, <2>6, <1>9 DEF RenameSound, RenameSteps
      <3>5. WriterSound(r2)
        BY <1>2, <1>4, <2>1, <2>4, <2>6, <1>9, <2>9 DEF WriterSound, PageSteps, Known
      <3>6. PasswordSound(r2)
        BY <1>2, <1>4, <2>1, <2>4, <2>6, <1>9 DEF PasswordSound
      <3> QED
        BY <3>1, <3>2, <3>3, <3>4, <3>5, <3>6 DEF Sound
    <2>7. ASSUME Serial, ~cut PROVE Named(r2)
      <3>1. WriterNamed(r2)
        BY <1>2, <1>4, <2>1, <2>4, <2>7, <1>9, <2>9, <2>10 DEF WriterNamed, IsNameOf
      <3> QED
        BY <1>2, <1>4, <2>7, <3>1, NamesStaySettled DEF RenameSteps
    <2>8. nextGuid' \in Nat /\ nextGuid' >= nextGuid
      BY <1>3, <2>3
    <2> QED
      BY <1>3, <2>3, <2>5, <2>6, <2>7, <2>8, Proceeded
  <1> QED
    BY <1>1, <1>5, <1>6 DEF CurrentUsername, found, label

(* The page that is read keeps who created it.                             *)
LEMMA UpdatePageLoadKept ==
    ASSUME UserInv, NEW t \in Threads, UpdatePageLoad(t), cut' = cut
    PROVE  UserInv'
  <1>1. PICK r : r = rq[t]
    OBVIOUS
  <1>2. /\ Held(r) /\ r \in Request /\ Types
        /\ Serial => /\ UserKeys /\ PageKeys /\ ContentKeys /\ Apart
                     /\ SeenSound(r) /\ HandSound(r) /\ CheckSound(r) /\ RenameSound(r)
                     /\ WriterSound(r) /\ PasswordSound(r)
                     /\ ~cut => Named(r)
    BY <1>1, Basics DEF Sound
  <1>3. /\ users \subseteq User /\ pages \subseteq AuthoredPage
        /\ contents \subseteq AuthoredContent /\ nextGuid \in Nat \ {0} /\ cookies \subseteq Nat \ {0} /\ forms \subseteq Form
        /\ started \in Nat /\ rq \in [Threads -> Request]
    BY <1>2 DEF Types, TablesTypeOK
  <1>4. r.pc = "page:load"
    BY <1>1 DEF At, UpdatePageLoad
  <1>5. UserInv'
    <2>1. PICK p, q : /\ p \in pages
                     /\ q = [p EXCEPT !.modifiedBy = r.author]
                     /\ Become(t, [r EXCEPT !.pc = "page:save", !.pages = {q}])
      BY <1>1 DEF UpdatePageLoad, Become
    <2>2. PICK r2 : r2 = [r EXCEPT !.pc = "page:save", !.pages = {q}]
      OBVIOUS
    <2>3. /\ rq' = [rq EXCEPT ![t] = r2]
          /\ UNCHANGED <<users, pages, contents, nextGuid, cookies, forms, started>>
      BY <1>1, <1>3, <2>1, <2>2 DEF UpdatePageLoad, tables, Become
    <2>9. p \in AuthoredPage /\ r.author \in Author
      BY <1>2, <1>3, <2>1 DEF Request
    <2>10. q \in AuthoredPage /\ q.modifiedBy = r.author /\ q.createdBy = p.createdBy
      BY <2>1, <2>9 DEF AuthoredPage
    <2>11. Serial /\ ~cut => IsNameOf(r.author) /\ IsNameOf(p.createdBy)
      <3>1. Serial /\ ~cut => IsNameOf(r.author)
        BY <1>2, <1>4 DEF Named, WriterNamed
      <3>2. Serial /\ ~cut => IsNameOf(p.createdBy)
        BY <1>2, <1>4, <2>1, NamesSettled DEF RenameSteps
      <3> QED
        BY <3>1, <3>2
    <2>4. /\ r2 \in Request /\ r2.op = r.op /\ r2.pc = "page:save" /\ r2.model = r.model
          /\ r2.user = r.user /\ r2.seenUsers = r.seenUsers /\ r2.seenPages = r.seenPages
          /\ r2.pages = {q} /\ r2.contents = r.contents /\ r2.author = r.author
      BY <1>2, <1>3, <1>4, <2>1, <2>2, <2>10 DEF Request, Labels
    <2>5. Held(r2)
      BY <1>2, <1>4, <2>1, <2>4 DEF Held, NewSteps, UpdateSteps, RenameSteps
    <2>6. ASSUME Serial PROVE Sound(r2)
      <3>1. SeenSound(r2)
        BY <1>2, <1>4, <2>1, <2>4, <2>6 DEF SeenSound, PageSteps
      <3>2. HandSound(r2)
        BY <1>2, <1>4, <2>1, <2>4, <2>6 DEF HandSound, RenameSteps
      <3>3. CheckSound(r2)
        BY <1>2, <1>4, <2>1, <2>4, <2>6 DEF CheckSound
      <3>4. RenameSound(r2)
        BY <1>2, <1>4, <2>1, <2>4, <2>6 DEF RenameSound, RenameSteps
      <3>5. WriterSound(r2)
        BY <1>2, <1>4, <2>1, <2>4, <2>6, <2>10 DEF WriterSound, PageSteps, PageKeys
      <3>6. PasswordSound(r2)
        BY <1>2, <1>4, <2>1, <2>4, <2>6 DEF PasswordSound
      <3> QED
        BY <3>1, <3>2, <3>3, <3>4, <3>5, <3>6 DEF Sound
    <2>7. ASSUME Serial, ~cut PROVE Named(r2)
      <3>1. WriterNamed(r2)
        BY <1>2, <1>4, <2>1, <2>4, <2>7, <2>10, <2>11 DEF WriterNamed
      <3> QED
        BY <1>2, <1>4, <2>7, <3>1, NamesStaySettled DEF RenameSteps
    <2>8. nextGuid' \in Nat /\ nextGuid' >= nextGuid
      BY <1>3, <2>3
    <2> QED
      BY <1>3, <2>3, <2>5, <2>6, <2>7, <2>8, Proceeded
  <1> QED
    BY <1>5

-----------------------------------------------------------------------------
(* The steps that change a table.                                          *)
LEMMA IdleStaysSound == Sound(Idle)' /\ WriterNamed(Idle)'
  <1>1. /\ Idle.pc = "idle" /\ Idle.op = "login"
        /\ Idle.seenUsers = {} /\ Idle.seenPages = {}
    BY DEF Idle
  <1>2. SeenSound(Idle)' /\ HandSound(Idle)'
    BY <1>1 DEF SeenSound, HandSound, RenameSteps
  <1>3. CheckSound(Idle)' /\ RenameSound(Idle)'
    BY <1>1 DEF CheckSound, RenameSound, RenameSteps
  <1>4. WriterSound(Idle)' /\ PasswordSound(Idle)' /\ WriterNamed(Idle)'
    BY <1>1 DEF WriterSound, PasswordSound, WriterNamed, PageSteps
  <1> QED
    BY <1>2, <1>3, <1>4 DEF Sound

(* The row that is saved has the name and the email it had.                *)
LEMMA SaveUserKept ==
    ASSUME UserInv, NEW t \in Threads, SaveUser(t), cut' = cut
    PROVE  UserInv'
  <1>1. PICK r : r = rq[t]
    OBVIOUS
  <1>2. /\ Held(r) /\ r \in Request /\ Types
        /\ Serial => /\ UserKeys /\ PageKeys /\ ContentKeys /\ Apart
                     /\ SeenSound(r) /\ HandSound(r) /\ CheckSound(r) /\ RenameSound(r)
                     /\ WriterSound(r) /\ PasswordSound(r)
                     /\ ~cut => Named(r)
    BY <1>1, Basics DEF Sound
  <1>3. /\ users \subseteq User /\ pages \subseteq AuthoredPage
        /\ contents \subseteq AuthoredContent /\ nextGuid \in Nat \ {0} /\ cookies \subseteq Nat \ {0} /\ forms \subseteq Form
        /\ started \in Nat /\ rq \in [Threads -> Request]
    BY <1>2 DEF Types, TablesTypeOK
  <1>4. r.pc = "save"
    BY <1>1 DEF At, SaveUser
  <1>5. UserInv'
    <2>1. PICK w \in r.user : UpdateUserRow(w) /\ Return(t)
      BY <1>1 DEF SaveUser, UpdateUserRow, Return
    <2>2. PICK r2 : r2 = Idle
      OBVIOUS
    <2>3. /\ rq' = [rq EXCEPT ![t] = r2]
          /\ users' = {IF v.id = w.id THEN w ELSE v : v \in users}
          /\ UNCHANGED <<pages, contents, nextGuid, cookies, forms, started>>
      BY <1>1, <2>1, <2>2 DEF SaveUser, tables, UpdateUserRow, Return
    <2>11. /\ \A x \in users' : x = w \/ (x \in users /\ x.id # w.id)
           /\ \A v \in users : v.id # w.id => v \in users'
           /\ (\E v \in users : v.id = w.id) => w \in users'
           /\ \A x \in users' : \E v \in users : v.id = x.id
           /\ (\A u, v \in users : u.id = v.id => u = v) =>
                 \A u, v \in users' : u.id = v.id => u = v
      BY <2>3
    <2>12. w \in User
      BY <1>2, <2>1 DEF Request
    <2>13. Serial => \E v \in users : v.id = w.id /\ v.username = w.username /\ v.email = w.email
      BY <1>2, <1>4, <2>1 DEF HandSound
    <2>4. Held(r2)
      BY <2>2, IdleHeld
    <2>6. TablesTypeOK'
      BY <1>3, <2>3, <2>11, <2>12 DEF TablesTypeOK
    <2>7. ASSUME Serial PROVE UserKeys' /\ PageKeys' /\ ContentKeys' /\ Apart'
      <3>1. UserKeys'
        BY <1>2, <1>3, <1>4, <2>1, <2>3, <2>2, <2>7, <2>11 DEF UserKeys
      <3>2. PageKeys'
        BY <1>2, <1>3, <1>4, <2>1, <2>3, <2>2, <2>7 DEF PageKeys, Known
      <3>3. ContentKeys'
        BY <1>2, <1>3, <1>4, <2>1, <2>3, <2>2, <2>7 DEF ContentKeys, Known
      <3>4. Apart'
        BY <1>2, <1>3, <1>4, <2>1, <2>3, <2>2, <2>7, <2>11, <2>13 DEF Apart
      <3> QED
        BY <3>1, <3>2, <3>3, <3>4
    <2>8. ASSUME Serial PROVE Sound(r2)'
      BY <2>2, IdleStaysSound
    <2>9. ASSUME Serial, ~cut PROVE Named(r2)'
      <3>1. ContentsNamed(r2)'
        BY <1>2, <1>3, <1>4, <2>1, <2>3, <2>2, <2>9, <2>11, <2>13
        DEF ContentsNamed, Named, Old, RenameSteps, IsNameOf
      <3>2. CreatedNamed(r2)'
        BY <1>2, <1>3, <1>4, <2>1, <2>3, <2>2, <2>9, <2>11, <2>13
        DEF CreatedNamed, Named, Old, RenameSteps, IsNameOf
      <3>3. ModifiedNamed(r2)'
        BY <1>2, <1>3, <1>4, <2>1, <2>3, <2>2, <2>9, <2>11, <2>13
        DEF ModifiedNamed, Named, Old, RenameSteps, IsNameOf
      <3>4. WriterNamed(r2)'
        BY <2>2, IdleStaysSound
      <3> QED
        BY <3>1, <3>2, <3>3, <3>4 DEF Named
    <2>10. /\ cookies' \subseteq Nat \ {0} /\ forms' \subseteq Form /\ started' \in Nat
      BY <1>3, <2>3
    <2> QED
      BY <2>3, <2>4, <2>6, <2>7, <2>8, <2>9, <2>10, Renewed
  <1> QED
    BY <1>5

(* What a deleted account has written has no name to bear.                 *)
LEMMA DeleteUserKept ==
    ASSUME UserInv, NEW t \in Threads, DeleteUser(t), cut' = cut
    PROVE  UserInv'
  <1>1. PICK r : r = rq[t]
    OBVIOUS
  <1>2. /\ Held(r) /\ r \in Request /\ Types
        /\ Serial => /\ UserKeys /\ PageKeys /\ ContentKeys /\ Apart
                     /\ SeenSound(r) /\ HandSound(r) /\ CheckSound(r) /\ RenameSound(r)
                     /\ WriterSound(r) /\ PasswordSound(r)
                     /\ ~cut => Named(r)
    BY <1>1, Basics DEF Sound
  <1>3. /\ users \subseteq User /\ pages \subseteq AuthoredPage
        /\ contents \subseteq AuthoredContent /\ nextGuid \in Nat \ {0} /\ cookies \subseteq Nat \ {0} /\ forms \subseteq Form
        /\ started \in Nat /\ rq \in [Threads -> Request]
    BY <1>2 DEF Types, TablesTypeOK
  <1>4. r.pc = "delete"
    BY <1>1 DEF At, DeleteUser
  <1>5. UserInv'
    <2>1. PICK w \in r.user : DeleteUserRow(w) /\ Return(t)
      BY <1>1 DEF DeleteUser, DeleteUserRow, Return
    <2>2. PICK r2 : r2 = Idle
      OBVIOUS
    <2>3. /\ rq' = [rq EXCEPT ![t] = r2]
          /\ users' = {u \in users : u.id # w.id}
          /\ UNCHANGED <<pages, contents, nextGuid, cookies, forms, started>>
      BY <1>1, <2>1, <2>2 DEF DeleteUser, tables, DeleteUserRow, Return
    <2>4. Held(r2)
      BY <2>2, IdleHeld
    <2>6. TablesTypeOK'
      BY <1>3, <2>3 DEF TablesTypeOK
    <2>7. ASSUME Serial PROVE UserKeys' /\ PageKeys' /\ ContentKeys' /\ Apart'
      <3>1. UserKeys'
        BY <1>2, <1>3, <1>4, <2>1, <2>3, <2>2, <2>7 DEF UserKeys
      <3>2. PageKeys'
        BY <1>2, <1>3, <1>4, <2>1, <2>3, <2>2, <2>7 DEF PageKeys, Known
      <3>3. ContentKeys'
        BY <1>2, <1>3, <1>4, <2>1, <2>3, <2>2, <2>7 DEF ContentKeys, Known
      <3>4. Apart'
        BY <1>2, <1>3, <1>4, <2>1, <2>3, <2>2, <2>7 DEF Apart
      <3> QED
        BY <3>1, <3>2, <3>3, <3>4
    <2>8. ASSUME Serial PROVE Sound(r2)'
      BY <2>2, IdleStaysSound
    <2>9. ASSUME Serial, ~cut PROVE Named(r2)'
      <3>1. ContentsNamed(r2)'
        BY <1>2, <1>3, <1>4, <2>1, <2>3, <2>2, <2>9
        DEF ContentsNamed, Named, Old, RenameSteps, IsNameOf
      <3>2. CreatedNamed(r2)'
        BY <1>2, <1>3, <1>4, <2>1, <2>3, <2>2, <2>9
        DEF CreatedNamed, Named, Old, RenameSteps, IsNameOf
      <3>3. ModifiedNamed(r2)'
        BY <1>2, <1>3, <1>4, <2>1, <2>3, <2>2, <2>9
        DEF ModifiedNamed, Named, Old, RenameSteps, IsNameOf
      <3>4. WriterNamed(r2)'
        BY <2>2, IdleStaysSound
      <3> QED
        BY <3>1, <3>2, <3>3, <3>4 DEF Named
    <2>10. /\ cookies' \subseteq Nat \ {0} /\ forms' \subseteq Form /\ started' \in Nat
      BY <1>3, <2>3
    <2> QED
      BY <2>3, <2>4, <2>6, <2>7, <2>8, <2>9, <2>10, Renewed
  <1> QED
    BY <1>5

(* The new account has a key nothing has, and names nobody has.            *)
LEMMA InsertNewUserKept ==
    ASSUME UserInv, NEW t \in Threads, InsertNewUser(t), cut' = cut
    PROVE  UserInv'
  <1>1. PICK r : r = rq[t]
    OBVIOUS
  <1>2. /\ Held(r) /\ r \in Request /\ Types
        /\ Serial => /\ UserKeys /\ PageKeys /\ ContentKeys /\ Apart
                     /\ SeenSound(r) /\ HandSound(r) /\ CheckSound(r) /\ RenameSound(r)
                     /\ WriterSound(r) /\ PasswordSound(r)
                     /\ ~cut => Named(r)
    BY <1>1, Basics DEF Sound
  <1>3. /\ users \subseteq User /\ pages \subseteq AuthoredPage
        /\ contents \subseteq AuthoredContent /\ nextGuid \in Nat \ {0} /\ cookies \subseteq Nat \ {0} /\ forms \subseteq Form
        /\ started \in Nat /\ rq \in [Threads -> Request]
    BY <1>2 DEF Types, TablesTypeOK
  <1>4. r.pc = "insert"
    BY <1>1 DEF At, InsertNewUser
  <1>5. UserInv'
    <2>1. PICK signup \in BOOLEAN, admin \in BOOLEAN :
             /\ InsertUser([id |-> 1, email |-> r.model.newEmail,
                            username |-> r.model.newUsername,
                            password |-> r.model.password,
                            isAdmin |-> admin, isEditor |-> ~admin,
                            isActivated |-> ~signup,
                            activationKey |-> 0, resetKey |-> 0], signup)
             /\ Return(t)
      BY <1>1 DEF InsertNewUser
    <2>2. PICK v : v = [id |-> 1, email |-> r.model.newEmail,
                        username |-> r.model.newUsername,
                        password |-> r.model.password,
                        isAdmin |-> admin, isEditor |-> ~admin,
                        isActivated |-> ~signup,
                        activationKey |-> 0, resetKey |-> 0]
      OBVIOUS
    <2>w. PICK w : w = [v EXCEPT !.id = nextGuid,
                                 !.activationKey = IF signup THEN nextGuid + 1 ELSE 0]
      OBVIOUS
    <2>3. /\ rq' = [rq EXCEPT ![t] = Idle]
          /\ users' = users \cup {w}
          /\ nextGuid' = nextGuid + 2
          /\ UNCHANGED <<pages, contents, cookies, forms, started>>
      <3>1. InsertUser(v, signup)
        BY <2>1, <2>2
      <3>2. users' = users \cup {w} /\ nextGuid' = nextGuid + 2 /\ UNCHANGED <<pages, contents>>
        BY <2>w, <3>1 DEF InsertUser
      <3> QED
        BY <2>1, <3>2 DEF InsertNewUser, Return
    <2>4. /\ w \in User /\ w.id = nextGuid
          /\ w.username = r.model.newUsername /\ w.email = r.model.newEmail
      <3>1. /\ r.model.newEmail \in Emails /\ r.model.newUsername \in Usernames
            /\ r.model.password \in Passwords
        BY <1>2, <1>4 DEF Held, NewSteps
      <3>2. v \in User
        BY <2>2, <3>1 DEF User
      <3>3. (IF signup THEN nextGuid + 1 ELSE 0) \in Nat
        BY <1>3
      <3>4. PICK k \in Nat : w = [v EXCEPT !.id = nextGuid, !.activationKey = k]
        BY <2>w, <3>3
      <3>5. v.username = r.model.newUsername /\ v.email = r.model.newEmail
        BY <2>2
      <3> QED
        BY <1>3, <3>2, <3>4, <3>5 DEF User
    <2>5. TablesTypeOK'
      BY <1>3, <2>3, <2>4 DEF TablesTypeOK
    <2>6. nextGuid < nextGuid + 2 /\ \A n \in Nat : n < nextGuid => n < nextGuid + 2 /\ n # nextGuid
      BY <1>3
    <2>7. /\ \A u \in users : u.id \in Nat
          /\ \A p \in pages : p.id \in Nat /\ p.createdBy.who \in Nat /\ p.modifiedBy.who \in Nat
          /\ \A c \in contents : c.id \in Nat /\ c.editedBy.who \in Nat
      BY <1>3 DEF User, AuthoredPage, AuthoredContent, Author
    <2>8. ASSUME Serial PROVE UserKeys' /\ PageKeys' /\ ContentKeys' /\ Apart'
      <3>1. UserKeys'
        BY <1>2, <2>3, <2>4, <2>6, <2>7, <2>8 DEF UserKeys
      <3>2. PageKeys'
        BY <1>2, <2>3, <2>6, <2>7, <2>8 DEF PageKeys, Known
      <3>3. ContentKeys'
        BY <1>2, <2>3, <2>6, <2>7, <2>8 DEF ContentKeys, Known
      <3>4. Apart'
        BY <1>2, <1>4, <2>3, <2>4, <2>8 DEF Apart, CheckSound, GetUserByUsername, GetUserByEmail
      <3> QED
        BY <3>1, <3>2, <3>3, <3>4
    <2>9. ASSUME Serial, ~cut PROVE Named(Idle)'
      <3>1. /\ \A c \in contents : IsNameOf(c.editedBy) /\ c.editedBy.who # nextGuid
            /\ \A p \in pages : /\ IsNameOf(p.createdBy) /\ p.createdBy.who # nextGuid
                               /\ IsNameOf(p.modifiedBy) /\ p.modifiedBy.who # nextGuid
        <4>1. /\ \A c \in contents : IsNameOf(c.editedBy)
              /\ \A p \in pages : IsNameOf(p.createdBy) /\ IsNameOf(p.modifiedBy)
          BY <1>2, <1>4, <2>9, NamesSettled DEF RenameSteps
        <4>2. /\ \A c \in contents : c.editedBy.who # nextGuid
              /\ \A p \in pages : p.createdBy.who # nextGuid /\ p.modifiedBy.who # nextGuid
          BY <1>2, <2>6, <2>7, <2>9 DEF PageKeys, ContentKeys, Known
        <4> QED
          BY <4>1, <4>2
      <3>2. ContentsNamed(Idle)' /\ CreatedNamed(Idle)' /\ ModifiedNamed(Idle)'
        BY <2>3, <2>4, <3>1 DEF ContentsNamed, CreatedNamed, ModifiedNamed, IsNameOf
      <3> QED
        BY <3>2, IdleStaysSound DEF Named
    <2>10. /\ cookies' \subseteq Nat \ {0} /\ forms' \subseteq Form /\ started' \in Nat
      BY <1>3, <2>3
    <2> QED
      BY <2>3, <2>5, <2>8, <2>9, <2>10, IdleHeld, IdleStaysSound, Renewed
  <1> QED
    BY <1>5

(* The row is written as it was read.                                      *)
LEMMA DetailsKept ==
    ASSUME UserInv, NEW t \in Threads, UpdateUserDetails(t), cut' = cut
    PROVE  UserInv'
  <1>1. PICK r : r = rq[t]
    OBVIOUS
  <1>2. /\ Held(r) /\ r \in Request /\ Types
        /\ Serial => /\ UserKeys /\ PageKeys /\ ContentKeys /\ Apart
                     /\ SeenSound(r) /\ HandSound(r) /\ CheckSound(r) /\ RenameSound(r)
                     /\ WriterSound(r) /\ PasswordSound(r)
                     /\ ~cut => Named(r)
    BY <1>1, Basics DEF Sound
  <1>3. /\ users \subseteq User /\ pages \subseteq AuthoredPage
        /\ contents \subseteq AuthoredContent /\ nextGuid \in Nat \ {0} /\ cookies \subseteq Nat \ {0} /\ forms \subseteq Form
        /\ started \in Nat /\ rq \in [Threads -> Request]
    BY <1>2 DEF Types, TablesTypeOK
  <1>4. r.pc = "upd:details"
    BY <1>1 DEF At, UpdateUserDetails
  <1>5. UserInv'
    <2>1. PICK w \in r.user : UpdateUserRow(w) /\ Goto(t, "upd:email")
      BY <1>1 DEF UpdateUserDetails, UpdateUserRow, Goto
    <2>2. PICK r2 : r2 = [r EXCEPT !.pc = "upd:email"]
      OBVIOUS
    <2>3. /\ rq' = [rq EXCEPT ![t] = r2]
          /\ users' = {IF v.id = w.id THEN w ELSE v : v \in users}
          /\ UNCHANGED <<pages, contents, nextGuid, cookies, forms, started>>
      BY <1>1, <2>1, <2>2 DEF UpdateUserDetails, tables, UpdateUserRow, Goto
    <2>11. /\ \A x \in users' : x = w \/ (x \in users /\ x.id # w.id)
           /\ \A v \in users : v.id # w.id => v \in users'
           /\ (\E v \in users : v.id = w.id) => w \in users'
           /\ \A x \in users' : \E v \in users : v.id = x.id
           /\ (\A u, v \in users : u.id = v.id => u = v) =>
                 \A u, v \in users' : u.id = v.id => u = v
      BY <2>3
    <2>12. w \in User
      BY <1>2, <2>1 DEF Request
    <2>13. Serial => users' = users
      <3>1. Serial => w \in users /\ \A v \in users : v.id = w.id => v = w
        BY <1>2, <1>4, <2>1 DEF HandSound, UserKeys
      <3>2. Serial => \A x : x \in users' <=> x \in users
        BY <2>11, <3>1
      <3> QED
        BY <3>2
    <2>4. /\ r2 \in Request /\ r2.op = r.op /\ r2.pc = "upd:email" /\ r2.model = r.model
          /\ r2.user = r.user /\ r2.seenUsers = r.seenUsers /\ r2.seenPages = r.seenPages
          /\ r2.pages = r.pages /\ r2.contents = r.contents /\ r2.author = r.author
      BY <1>2, <1>3, <1>4, <2>1, <2>2 DEF Request, Labels
    <2>5. Held(r2)
      BY <1>2, <1>4, <2>1, <2>4 DEF Held, NewSteps, UpdateSteps, RenameSteps
    <2>6. TablesTypeOK'
      BY <1>3, <2>3, <2>11, <2>12 DEF TablesTypeOK
    <2>7. ASSUME Serial PROVE UserKeys' /\ PageKeys' /\ ContentKeys' /\ Apart'
      <3>1. UserKeys'
        BY <1>2, <1>3, <1>4, <2>1, <2>3, <2>4, <2>7, <2>13 DEF UserKeys
      <3>2. PageKeys'
        BY <1>2, <1>3, <1>4, <2>1, <2>3, <2>4, <2>7 DEF PageKeys, Known
      <3>3. ContentKeys'
        BY <1>2, <1>3, <1>4, <2>1, <2>3, <2>4, <2>7 DEF ContentKeys, Known
      <3>4. Apart'
        BY <1>2, <1>3, <1>4, <2>1, <2>3, <2>4, <2>7, <2>13 DEF Apart
      <3> QED
        BY <3>1, <3>2, <3>3, <3>4
    <2>8. ASSUME Serial PROVE Sound(r2)'
      <3>1. SeenSound(r2)'
        BY <1>2, <1>3, <1>4, <2>1, <2>3, <2>4, <2>8, <2>13 DEF SeenSound, PageSteps
      <3>2. HandSound(r2)'
        BY <1>2, <1>3, <1>4, <2>1, <2>3, <2>4, <2>8, <2>13 DEF HandSound, RenameSteps
      <3>3. CheckSound(r2)'
        BY <1>2, <1>3, <1>4, <2>1, <2>3, <2>4, <2>8, <2>13
        DEF CheckSound, GetUserByEmail, GetUserByUsername
      <3>4. RenameSound(r2)'
        BY <1>2, <1>3, <1>4, <2>1, <2>3, <2>4, <2>8, <2>13
        DEF RenameSound, RenameSteps, GetUserByUsername
      <3>5. WriterSound(r2)'
        BY <1>2, <1>3, <1>4, <2>1, <2>3, <2>4, <2>8 DEF WriterSound, PageSteps, Known
      <3>6. PasswordSound(r2)'
        BY <1>2, <1>3, <1>4, <2>1, <2>3, <2>4, <2>8 DEF PasswordSound
      <3> QED
        BY <3>1, <3>2, <3>3, <3>4, <3>5, <3>6 DEF Sound
    <2>9. ASSUME Serial, ~cut PROVE Named(r2)'
      <3>1. ContentsNamed(r2)'
        BY <1>2, <1>3, <1>4, <2>1, <2>3, <2>4, <2>9, <2>13
        DEF ContentsNamed, Named, Old, RenameSteps, IsNameOf
      <3>2. CreatedNamed(r2)'
        BY <1>2, <1>3, <1>4, <2>1, <2>3, <2>4, <2>9, <2>13
        DEF CreatedNamed, Named, Old, RenameSteps, IsNameOf
      <3>3. ModifiedNamed(r2)'
        BY <1>2, <1>3, <1>4, <2>1, <2>3, <2>4, <2>9, <2>13
        DEF ModifiedNamed, Named, Old, RenameSteps, IsNameOf
      <3>4. WriterNamed(r2)'
        BY <1>2, <1>3, <1>4, <2>1, <2>3, <2>4, <2>9, <2>13 DEF WriterNamed
      <3> QED
        BY <3>1, <3>2, <3>3, <3>4 DEF Named
    <2>10. /\ cookies' \subseteq Nat \ {0} /\ forms' \subseteq Form /\ started' \in Nat
      BY <1>3, <2>3
    <2> QED
      BY <2>3, <2>5, <2>6, <2>7, <2>8, <2>9, <2>10, Renewed
  <1> QED
    BY <1>5

(* The new email is nobody's; no name changes.                             *)
LEMMA SaveEmailKept ==
    ASSUME UserInv, NEW t \in Threads, UpdateUserSaveEmail(t), cut' = cut
    PROVE  UserInv'
  <1>1. PICK r : r = rq[t]
    OBVIOUS
  <1>2. /\ Held(r) /\ r \in Request /\ Types
        /\ Serial => /\ UserKeys /\ PageKeys /\ ContentKeys /\ Apart
                     /\ SeenSound(r) /\ HandSound(r) /\ CheckSound(r) /\ RenameSound(r)
                     /\ WriterSound(r) /\ PasswordSound(r)
                     /\ ~cut => Named(r)
    BY <1>1, Basics DEF Sound
  <1>3. /\ users \subseteq User /\ pages \subseteq AuthoredPage
        /\ contents \subseteq AuthoredContent /\ nextGuid \in Nat \ {0} /\ cookies \subseteq Nat \ {0} /\ forms \subseteq Form
        /\ started \in Nat /\ rq \in [Threads -> Request]
    BY <1>2 DEF Types, TablesTypeOK
  <1>4. r.pc = "upd:saveemail"
    BY <1>1 DEF At, UpdateUserSaveEmail
  <1>5. UserInv'
    <2>1. PICK u \in r.user : SaveChanged(t, [u EXCEPT !.email = r.model.newEmail], "upd:username")
      BY <1>1 DEF UpdateUserSaveEmail
    <2>w. PICK w : w = [u EXCEPT !.email = r.model.newEmail]
      OBVIOUS
    <2>s. PICK seen : seen = {IF v.id = w.id THEN w ELSE v : v \in r.seenUsers}
      OBVIOUS
    <2>2. PICK r2 : r2 = [r EXCEPT !.pc = "upd:username", !.user = {w}, !.seenUsers = seen]
      OBVIOUS
    <2>3. /\ rq' = [rq EXCEPT ![t] = r2]
          /\ users' = {IF v.id = w.id THEN w ELSE v : v \in users}
          /\ UNCHANGED <<pages, contents, nextGuid, cookies, forms, started>>
      <3>1. /\ users' = {IF v.id = w.id THEN w ELSE v : v \in users}
            /\ UNCHANGED <<pages, contents, nextGuid>>
            /\ Become(t, [Saved(r, w) EXCEPT !.pc = "upd:username"])
        BY <1>1, <2>1, <2>w DEF SaveChanged, UpdateUserRow
      <3>2. [Saved(r, w) EXCEPT !.pc = "upd:username"] = r2
        BY <1>2, <2>2, <2>s DEF Saved, Request
      <3> QED
        BY <1>1, <3>1, <3>2 DEF UpdateUserSaveEmail, Become
    <2>11. /\ \A x \in users' : x = w \/ (x \in users /\ x.id # w.id)
           /\ \A v \in users : v.id # w.id => v \in users'
           /\ (\E v \in users : v.id = w.id) => w \in users'
           /\ \A x \in users' : \E v \in users : v.id = x.id
           /\ (\A x, y \in users : x.id = y.id => x = y) =>
                 \A x, y \in users' : x.id = y.id => x = y
      BY <2>3
    <2>12. r.model.newEmail \in Emails /\ u \in User
      BY <1>2, <1>4, <2>1 DEF Held, UpdateSteps, RenameSteps, Request
    <2>13. /\ w \in User /\ w.id = u.id /\ w.email = r.model.newEmail /\ w.username = u.username
      BY <2>w, <2>12 DEF User
    <2>14. Serial => /\ u \in users /\ (\A v \in users : v.id = w.id => v = u)
                     /\ w \in users'
      <3>1. Serial => u \in users /\ \A v \in users : v.id = w.id => v = u
        BY <1>2, <1>4, <2>1, <2>13 DEF HandSound, UserKeys, RenameSteps
      <3> QED
        BY <2>11, <2>13, <3>1
    <2>15. seen \subseteq User /\ (Serial => seen \subseteq users')
      <3>1. seen \subseteq User
        BY <1>2, <2>s, <2>13 DEF Request
      <3>2. ASSUME Serial PROVE seen \subseteq users'
        <4>1. r.seenUsers \subseteq users
          BY <1>2, <3>2 DEF SeenSound
        <4> QED
          BY <2>s, <2>11, <2>14, <3>2, <4>1
      <3> QED
        BY <3>1, <3>2
    <2>16. Serial => \A v \in users : v.id # w.id => v.username # w.username /\ v.email # w.email
      <3>1. Serial => \A v \in users : v.email # w.email
        BY <1>2, <1>4, <2>13 DEF CheckSound, GetUserByEmail
      <3>2. Serial => \A v \in users : v.id # w.id => v.username # w.username
        BY <1>2, <2>13, <2>14 DEF Apart
      <3> QED
        BY <3>1, <3>2
    <2>17. Serial /\ ~cut => /\ \A c \in contents : IsNameOf(c.editedBy)'
                             /\ \A p \in pages : IsNameOf(p.createdBy)' /\ IsNameOf(p.modifiedBy)'
      <3>1. Serial /\ ~cut => /\ \A c \in contents : IsNameOf(c.editedBy)
                              /\ \A p \in pages : IsNameOf(p.createdBy) /\ IsNameOf(p.modifiedBy)
        BY <1>2, <1>4, NamesSettled DEF RenameSteps
      <3>2. ASSUME Serial, NEW a, IsNameOf(a) PROVE IsNameOf(a)'
        BY <2>11, <2>13, <2>14, <3>2 DEF IsNameOf
      <3> QED
        BY <3>1, <3>2
    <2>4. /\ r2 \in Request /\ r2.op = r.op /\ r2.pc = "upd:username" /\ r2.model = r.model
          /\ r2.user = {w} /\ r2.seenUsers = seen /\ r2.seenPages = r.seenPages
          /\ r2.pages = r.pages /\ r2.contents = r.contents /\ r2.author = r.author
      BY <1>2, <1>3, <1>4, <2>1, <2>2, <2>13, <2>15 DEF Request, Labels
    <2>5. Held(r2)
      BY <1>2, <1>4, <2>1, <2>4 DEF Held, NewSteps, UpdateSteps, RenameSteps
    <2>6. TablesTypeOK'
      BY <1>3, <2>3, <2>11, <2>13 DEF TablesTypeOK
    <2>7. ASSUME Serial PROVE UserKeys' /\ PageKeys' /\ ContentKeys' /\ Apart'
      <3>1. UserKeys'
        BY <1>2, <1>3, <1>4, <2>1, <2>3, <2>4, <2>7, <2>11, <2>13, <2>14 DEF UserKeys
      <3>2. PageKeys'
        BY <1>2, <1>3, <1>4, <2>1, <2>3, <2>4, <2>7 DEF PageKeys, Known
      <3>3. ContentKeys'
        BY <1>2, <1>3, <1>4, <2>1, <2>3, <2>4, <2>7 DEF ContentKeys, Known
      <3>4. Apart'
        BY <1>2, <1>3, <1>4, <2>1, <2>3, <2>4, <2>7, <2>11, <2>16 DEF Apart
      <3> QED
        BY <3>1, <3>2, <3>3, <3>4
    <2>8. ASSUME Serial PROVE Sound(r2)'
      <3>1. SeenSound(r2)'
        BY <1>2, <1>3, <1>4, <2>1, <2>3, <2>4, <2>8, <2>15 DEF SeenSound, PageSteps
      <3>2. HandSound(r2)'
        BY <1>2, <1>3, <1>4, <2>1, <2>3, <2>4, <2>8, <2>14 DEF HandSound, RenameSteps
      <3>3. CheckSound(r2)'
        BY <1>2, <1>3, <1>4, <2>1, <2>3, <2>4, <2>8, <2>11, <2>13, <2>14
        DEF CheckSound, GetUserByEmail, GetUserByUsername
      <3>4. RenameSound(r2)'
        BY <1>2, <1>3, <1>4, <2>1, <2>3, <2>4, <2>8, <2>11, <2>13, <2>14
        DEF RenameSound, RenameSteps, GetUserByUsername
      <3>5. WriterSound(r2)'
        BY <1>2, <1>3, <1>4, <2>1, <2>3, <2>4, <2>8 DEF WriterSound, PageSteps, Known
      <3>6. PasswordSound(r2)'
        BY <1>2, <1>3, <1>4, <2>1, <2>3, <2>4, <2>8 DEF PasswordSound
      <3> QED
        BY <3>1, <3>2, <3>3, <3>4, <3>5, <3>6 DEF Sound
    <2>9. ASSUME Serial, ~cut PROVE Named(r2)'
      <3>1. ContentsNamed(r2)'
        BY <1>2, <1>3, <1>4, <2>1, <2>3, <2>4, <2>9, <2>17
        DEF ContentsNamed, Named, Old, RenameSteps, IsNameOf
      <3>2. CreatedNamed(r2)'
        BY <1>2, <1>3, <1>4, <2>1, <2>3, <2>4, <2>9, <2>17
        DEF CreatedNamed, Named, Old, RenameSteps, IsNameOf
      <3>3. ModifiedNamed(r2)'
        BY <1>2, <1>3, <1>4, <2>1, <2>3, <2>4, <2>9, <2>17
        DEF ModifiedNamed, Named, Old, RenameSteps, IsNameOf
      <3>4. WriterNamed(r2)'
        BY <1>2, <1>3, <1>4, <2>1, <2>3, <2>4, <2>9 DEF WriterNamed
      <3> QED
        BY <3>1, <3>2, <3>3, <3>4 DEF Named
    <2>10. /\ cookies' \subseteq Nat \ {0} /\ forms' \subseteq Form /\ started' \in Nat
      BY <1>3, <2>3
    <2> QED
      BY <2>3, <2>5, <2>6, <2>7, <2>8, <2>9, <2>10, Renewed
  <1> QED
    BY <1>5

(* The new name is nobody's, and now nobody has the old one: what bears it *)
(* is what the loops are to reach.                                         *)
LEMMA SaveUsernameKept ==
    ASSUME UserInv, NEW t \in Threads, UpdateUserSaveUsername(t), cut' = cut
    PROVE  UserInv'
  <1>1. PICK r : r = rq[t]
    OBVIOUS
  <1>2. /\ Held(r) /\ r \in Request /\ Types
        /\ Serial => /\ UserKeys /\ PageKeys /\ ContentKeys /\ Apart
                     /\ SeenSound(r) /\ HandSound(r) /\ CheckSound(r) /\ RenameSound(r)
                     /\ WriterSound(r) /\ PasswordSound(r)
                     /\ ~cut => Named(r)
    BY <1>1, Basics DEF Sound
  <1>3. /\ users \subseteq User /\ pages \subseteq AuthoredPage
        /\ contents \subseteq AuthoredContent /\ nextGuid \in Nat \ {0} /\ cookies \subseteq Nat \ {0} /\ forms \subseteq Form
        /\ started \in Nat /\ rq \in [Threads -> Request]
    BY <1>2 DEF Types, TablesTypeOK
  <1>4. r.pc = "upd:saveusername"
    BY <1>1 DEF At, UpdateUserSaveUsername
  <1>5. UserInv'
    <2>1. PICK u \in r.user : SaveChanged(t, [u EXCEPT !.username = r.model.newUsername], "upd:contents")
      BY <1>1 DEF UpdateUserSaveUsername
    <2>w. PICK w : w = [u EXCEPT !.username = r.model.newUsername]
      OBVIOUS
    <2>s. PICK seen : seen = {IF v.id = w.id THEN w ELSE v : v \in r.seenUsers}
      OBVIOUS
    <2>2. PICK r2 : r2 = [r EXCEPT !.pc = "upd:contents", !.user = {w}, !.seenUsers = seen]
      OBVIOUS
    <2>3. /\ rq' = [rq EXCEPT ![t] = r2]
          /\ users' = {IF v.id = w.id THEN w ELSE v : v \in users}
          /\ UNCHANGED <<pages, contents, nextGuid, cookies, forms, started>>
      <3>1. /\ users' = {IF v.id = w.id THEN w ELSE v : v \in users}
            /\ UNCHANGED <<pages, contents, nextGuid>>
            /\ Become(t, [Saved(r, w) EXCEPT !.pc = "upd:contents"])
        BY <1>1, <2>1, <2>w DEF SaveChanged, UpdateUserRow
      <3>2. [Saved(r, w) EXCEPT !.pc = "upd:contents"] = r2
        BY <1>2, <2>2, <2>s DEF Saved, Request
      <3> QED
        BY <1>1, <3>1, <3>2 DEF UpdateUserSaveUsername, Become
    <2>11. /\ \A x \in users' : x = w \/ (x \in users /\ x.id # w.id)
           /\ \A v \in users : v.id # w.id => v \in users'
           /\ (\E v \in users : v.id = w.id) => w \in users'
           /\ \A x \in users' : \E v \in users : v.id = x.id
           /\ (\A x, y \in users : x.id = y.id => x = y) =>
                 \A x, y \in users' : x.id = y.id => x = y
      BY <2>3
    <2>12. r.model.newUsername \in Usernames /\ u \in User
      BY <1>2, <1>4, <2>1 DEF Held, UpdateSteps, RenameSteps, Request
    <2>13. /\ w \in User /\ w.id = u.id /\ w.username = r.model.newUsername /\ w.email = u.email
      BY <2>w, <2>12 DEF User
    <2>14. Serial => /\ u \in users /\ (\A v \in users : v.id = w.id => v = u)
                     /\ w \in users'
      <3>1. Serial => u \in users /\ \A v \in users : v.id = w.id => v = u
        BY <1>2, <1>4, <2>1, <2>13 DEF HandSound, UserKeys, RenameSteps
      <3> QED
        BY <2>11, <2>13, <3>1
    <2>15. seen \subseteq User /\ (Serial => seen \subseteq users')
      <3>1. seen \subseteq User
        BY <1>2, <2>s, <2>13 DEF Request
      <3>2. ASSUME Serial PROVE seen \subseteq users'
        <4>1. r.seenUsers \subseteq users
          BY <1>2, <3>2 DEF SeenSound
        <4> QED
          BY <2>s, <2>11, <2>14, <3>2, <4>1
      <3> QED
        BY <3>1, <3>2
    <2>16. Serial => \A v \in users : v.id # w.id => v.username # w.username /\ v.email # w.email
      <3>1. Serial => \A v \in users : v.username # w.username
        BY <1>2, <1>4, <2>13 DEF CheckSound, GetUserByUsername
      <3>2. Serial => \A v \in users : v.id # w.id => v.email # w.email
        BY <1>2, <2>13, <2>14 DEF Apart
      <3> QED
        BY <3>1, <3>2
    <2>17. Serial => u.username = r.model.existingUsername
      BY <1>2, <1>4, <2>1 DEF RenameSound
    <2>18. Serial => /\ r.model.existingUsername # r.model.newUsername
                     /\ \A v \in users' : v.username # r.model.existingUsername
      <3>1. Serial => r.model.existingUsername # r.model.newUsername
        BY <1>2, <1>4 DEF CheckSound
      <3>2. Serial => \A v \in users : v.id # w.id => v.username # u.username
        BY <1>2, <2>13, <2>14 DEF Apart
      <3> QED
        BY <2>11, <2>13, <2>17, <3>1, <3>2
    <2>19. ASSUME Serial, NEW a, IsNameOf(a)
           PROVE  IsNameOf(a)' \/ (a.name = r.model.existingUsername /\ a.who = w.id)
      BY <2>11, <2>13, <2>14, <2>17, <2>19 DEF IsNameOf
    <2>20. Serial /\ ~cut =>
              /\ \A c \in contents : IsNameOf(c.editedBy)
              /\ \A p \in pages : IsNameOf(p.createdBy) /\ IsNameOf(p.modifiedBy)
      BY <1>2, <1>4, NamesSettled DEF RenameSteps
    <2>4. /\ r2 \in Request /\ r2.op = r.op /\ r2.pc = "upd:contents" /\ r2.model = r.model
          /\ r2.user = {w} /\ r2.seenUsers = seen /\ r2.seenPages = r.seenPages
          /\ r2.pages = r.pages /\ r2.contents = r.contents /\ r2.author = r.author
      BY <1>2, <1>3, <1>4, <2>1, <2>2, <2>13, <2>15 DEF Request, Labels
    <2>5. Held(r2)
      BY <1>2, <1>4, <2>1, <2>4 DEF Held, NewSteps, UpdateSteps, RenameSteps
    <2>6. TablesTypeOK'
      BY <1>3, <2>3, <2>11, <2>13 DEF TablesTypeOK
    <2>7. ASSUME Serial PROVE UserKeys' /\ PageKeys' /\ ContentKeys' /\ Apart'
      <3>1. UserKeys'
        BY <1>2, <1>3, <1>4, <2>1, <2>3, <2>4, <2>7, <2>11, <2>13, <2>14 DEF UserKeys
      <3>2. PageKeys'
        BY <1>2, <1>3, <1>4, <2>1, <2>3, <2>4, <2>7 DEF PageKeys, Known
      <3>3. ContentKeys'
        BY <1>2, <1>3, <1>4, <2>1, <2>3, <2>4, <2>7 DEF ContentKeys, Known
      <3>4. Apart'
        BY <1>2, <1>3, <1>4, <2>1, <2>3, <2>4, <2>7, <2>11, <2>16 DEF Apart
      <3> QED
        BY <3>1, <3>2, <3>3, <3>4
    <2>8. ASSUME Serial PROVE Sound(r2)'
      <3>1. SeenSound(r2)'
        BY <1>2, <1>3, <1>4, <2>1, <2>3, <2>4, <2>8, <2>15 DEF SeenSound, PageSteps
      <3>2. HandSound(r2)'
        BY <1>2, <1>3, <1>4, <2>1, <2>3, <2>4, <2>8, <2>14 DEF HandSound, RenameSteps
      <3>3. CheckSound(r2)'
        BY <1>2, <1>3, <1>4, <2>1, <2>3, <2>4, <2>8
        DEF CheckSound, GetUserByEmail, GetUserByUsername
      <3>4. RenameSound(r2)'
        BY <1>2, <1>3, <1>4, <2>1, <2>3, <2>4, <2>8, <2>13, <2>18
        DEF RenameSound, RenameSteps, GetUserByUsername
      <3>5. WriterSound(r2)'
        BY <1>2, <1>3, <1>4, <2>1, <2>3, <2>4, <2>8 DEF WriterSound, PageSteps, Known
      <3>6. PasswordSound(r2)'
        BY <1>2, <1>3, <1>4, <2>1, <2>3, <2>4, <2>8 DEF PasswordSound
      <3> QED
        BY <3>1, <3>2, <3>3, <3>4, <3>5, <3>6 DEF Sound
    <2>9. ASSUME Serial, ~cut PROVE Named(r2)'
      <3>1. ContentsNamed(r2)'
        BY <1>2, <1>3, <1>4, <2>1, <2>3, <2>4, <2>9, <2>19, <2>20
        DEF ContentsNamed, Named, Old, RenameSteps, IsNameOf
      <3>2. CreatedNamed(r2)'
        BY <1>2, <1>3, <1>4, <2>1, <2>3, <2>4, <2>9, <2>19, <2>20
        DEF CreatedNamed, Named, Old, RenameSteps, IsNameOf
      <3>3. ModifiedNamed(r2)'
        BY <1>2, <1>3, <1>4, <2>1, <2>3, <2>4, <2>9, <2>19, <2>20
        DEF ModifiedNamed, Named, Old, RenameSteps, IsNameOf
      <3>4. WriterNamed(r2)'
        BY <1>2, <1>3, <1>4, <2>1, <2>3, <2>4, <2>9 DEF WriterNamed
      <3> QED
        BY <3>1, <3>2, <3>3, <3>4 DEF Named
    <2>10. /\ cookies' \subseteq Nat \ {0} /\ forms' \subseteq Form /\ started' \in Nat
      BY <1>3, <2>3
    <2> QED
      BY <2>3, <2>5, <2>6, <2>7, <2>8, <2>9, <2>10, Renewed
  <1> QED
    BY <1>5

(* Each version that is written bears the new name; at the end none is     *)
(* left.                                                                   *)
LEMMA EditedByKept ==
    ASSUME UserInv, NEW t \in Threads, UpdateUserEditedBy(t), cut' = cut
    PROVE  UserInv'
  <1>1. PICK r : r = rq[t]
    OBVIOUS
  <1>2. /\ Held(r) /\ r \in Request /\ Types
        /\ Serial => /\ UserKeys /\ PageKeys /\ ContentKeys /\ Apart
                     /\ SeenSound(r) /\ HandSound(r) /\ CheckSound(r) /\ RenameSound(r)
                     /\ WriterSound(r) /\ PasswordSound(r)
                     /\ ~cut => Named(r)
    BY <1>1, Basics DEF Sound
  <1>3. /\ users \subseteq User /\ pages \subseteq AuthoredPage
        /\ contents \subseteq AuthoredContent /\ nextGuid \in Nat \ {0} /\ cookies \subseteq Nat \ {0} /\ forms \subseteq Form
        /\ started \in Nat /\ rq \in [Threads -> Request]
    BY <1>2 DEF Types, TablesTypeOK
  <1>4. r.pc = "upd:editedby"
    BY <1>1 DEF At, UpdateUserEditedBy
  <1>5. CASE r.contents = {} /\ Goto(t, "upd:pages") /\ UNCHANGED tables
    <2>1. /\ Goto(t, "upd:pages")
          /\ r.contents = {}
      BY <1>1, <1>5 DEF UpdateUserEditedBy, Goto
    <2>2. PICK r2 : r2 = [r EXCEPT !.pc = "upd:pages"]
      OBVIOUS
    <2>3. /\ rq' = [rq EXCEPT ![t] = r2]
          /\ UNCHANGED <<users, pages, contents, nextGuid, cookies, forms, started>>
      BY <1>1, <1>3, <1>5, <2>1, <2>2 DEF UpdateUserEditedBy, tables, Goto
    <2>4. /\ r2 \in Request /\ r2.op = r.op /\ r2.pc = "upd:pages" /\ r2.model = r.model
          /\ r2.user = r.user /\ r2.seenUsers = r.seenUsers /\ r2.seenPages = r.seenPages
          /\ r2.pages = r.pages /\ r2.contents = r.contents /\ r2.author = r.author
      BY <1>2, <1>3, <1>4, <2>1, <2>2 DEF Request, Labels
    <2>5. Held(r2)
      BY <1>2, <1>4, <2>1, <2>4 DEF Held, NewSteps, UpdateSteps, RenameSteps
    <2>6. ASSUME Serial PROVE Sound(r2)
      <3>1. SeenSound(r2)
        BY <1>2, <1>4, <2>1, <2>4, <2>6 DEF SeenSound, PageSteps
      <3>2. HandSound(r2)
        BY <1>2, <1>4, <2>1, <2>4, <2>6 DEF HandSound, RenameSteps
      <3>3. CheckSound(r2)
        BY <1>2, <1>4, <2>1, <2>4, <2>6 DEF CheckSound
      <3>4. RenameSound(r2)
        BY <1>2, <1>4, <2>1, <2>4, <2>6 DEF RenameSound, RenameSteps
      <3>5. WriterSound(r2)
        BY <1>2, <1>4, <2>1, <2>4, <2>6 DEF WriterSound, PageSteps
      <3>6. PasswordSound(r2)
        BY <1>2, <1>4, <2>1, <2>4, <2>6 DEF PasswordSound
      <3> QED
        BY <3>1, <3>2, <3>3, <3>4, <3>5, <3>6 DEF Sound
    <2>7. ASSUME Serial, ~cut PROVE Named(r2)
      <3>1. ContentsNamed(r2)
        BY <1>2, <1>4, <2>1, <2>4, <2>7 DEF ContentsNamed, Named, Old, RenameSteps, IsNameOf
      <3>2. CreatedNamed(r2)
        BY <1>2, <1>4, <2>1, <2>4, <2>7 DEF CreatedNamed, Named, Old, RenameSteps, IsNameOf
      <3>3. ModifiedNamed(r2)
        BY <1>2, <1>4, <2>1, <2>4, <2>7 DEF ModifiedNamed, Named, Old, RenameSteps, IsNameOf
      <3>4. WriterNamed(r2)
        BY <1>2, <1>4, <2>1, <2>4, <2>7 DEF WriterNamed
      <3> QED
        BY <3>1, <3>2, <3>3, <3>4 DEF Named
    <2>8. nextGuid' \in Nat /\ nextGuid' >= nextGuid
      BY <1>3, <2>3
    <2> QED
      BY <1>3, <2>3, <2>5, <2>6, <2>7, <2>8, Proceeded
  <1>6. CASE \E c \in r.contents :
              /\ UpdatePageContent([c EXCEPT !.editedBy.name = r.model.newUsername])
              /\ Become(t, [r EXCEPT !.contents = @ \ {c}])
    <2>1. PICK c, d :
             /\ c \in r.contents
             /\ d = [c EXCEPT !.editedBy.name = r.model.newUsername]
             /\ UpdatePageContent([c EXCEPT !.editedBy.name = r.model.newUsername])
             /\ Become(t, [r EXCEPT !.contents = @ \ {c}])
      BY <1>1, <1>6 DEF UpdateUserEditedBy
    <2>2. PICK r2 : r2 = [r EXCEPT !.contents = r.contents \ {c}]
      OBVIOUS
    <2>3. /\ rq' = [rq EXCEPT ![t] = r2]
          /\ contents' = {IF v.id = d.id THEN d ELSE v : v \in contents}
          /\ UNCHANGED <<users, pages, nextGuid, cookies, forms, started>>
      <3>1. UpdatePageContent(d) /\ Become(t, [r EXCEPT !.contents = @ \ {c}])
        BY <2>1
      <3>2. /\ contents' = {IF v.id = d.id THEN d ELSE v : v \in contents}
            /\ UNCHANGED <<users, pages, nextGuid>>
        BY <3>1 DEF UpdatePageContent
      <3>3. UNCHANGED <<cookies, forms, started>>
        BY DEF UpdateUserEditedBy
      <3> QED
        BY <1>1, <2>2, <3>1, <3>2, <3>3 DEF Become
    <2>11. /\ \A x \in contents' : x = d \/ (x \in contents /\ x.id # d.id)
           /\ \A v \in contents : v.id # d.id => v \in contents'
           /\ (\E v \in contents : v.id = d.id) => d \in contents'
           /\ \A x \in contents' : \E v \in contents : v.id = x.id
           /\ (\A u, v \in contents : u.id = v.id => u = v) =>
                 \A u, v \in contents' : u.id = v.id => u = v
      BY <2>3
    <2>12. c \in AuthoredContent /\ r.model.newUsername \in Usernames
      BY <1>2, <1>4, <2>1 DEF Held, UpdateSteps, RenameSteps, Request
    <2>13. /\ d \in AuthoredContent /\ d.id = c.id
           /\ d.editedBy.who = c.editedBy.who /\ d.editedBy.name = r.model.newUsername
      BY <2>1, <2>12 DEF AuthoredContent, Author
    <2>14. Serial => /\ c \in contents /\ c.editedBy.name = r.model.existingUsername
                     /\ d \in contents' /\ \A v \in contents : v.id = d.id => v = c
      <3>1. Serial => c \in contents /\ c.editedBy.name = r.model.existingUsername
        BY <1>2, <1>4, <2>1 DEF RenameSound
      <3>2. Serial => \A v \in contents : v.id = c.id => v = c
        BY <1>2, <3>1 DEF ContentKeys
      <3> QED
        BY <2>11, <2>13, <3>1, <3>2
    <2>15. Serial /\ ~cut => IsNameOf(d.editedBy)
      <3>1. Serial => /\ \A u \in users : u.username # r.model.existingUsername
                      /\ r.user \subseteq users
                      /\ \A u \in r.user : u.username = r.model.newUsername
        BY <1>2, <1>4 DEF RenameSound, HandSound, GetUserByUsername, RenameSteps
      <3>2. Serial /\ ~cut => IsNameOf(c.editedBy) \/ Old(r, c.editedBy)
        BY <1>2, <1>4, <2>14 DEF Named, ContentsNamed
      <3>3. Serial => \A u, v \in users : u.id = v.id => u = v
        BY <1>2 DEF UserKeys
      <3> QED
        BY <2>13, <2>14, <3>1, <3>2, <3>3 DEF IsNameOf, Old
    <2>4. /\ r2 \in Request /\ r2.op = r.op /\ r2.pc = r.pc /\ r2.model = r.model
          /\ r2.user = r.user /\ r2.seenUsers = r.seenUsers /\ r2.seenPages = r.seenPages
          /\ r2.pages = r.pages /\ r2.contents = r.contents \ {c} /\ r2.author = r.author
      BY <1>2, <1>3, <1>4, <2>1, <2>2 DEF Request, Labels
    <2>5. Held(r2)
      BY <1>2, <1>4, <2>1, <2>4 DEF Held, NewSteps, UpdateSteps, RenameSteps
    <2>6. TablesTypeOK'
      BY <1>3, <2>3, <2>11, <2>13 DEF TablesTypeOK
    <2>7. ASSUME Serial PROVE UserKeys' /\ PageKeys' /\ ContentKeys' /\ Apart'
      <3>1. UserKeys'
        BY <1>2, <1>3, <1>4, <2>1, <2>3, <2>4, <2>7 DEF UserKeys
      <3>2. PageKeys'
        BY <1>2, <1>3, <1>4, <2>1, <2>3, <2>4, <2>7 DEF PageKeys, Known
      <3>3. ContentKeys'
        <4>1. \A x, y \in contents' : x.id = y.id => x = y
          BY <1>2, <2>7, <2>11 DEF ContentKeys
        <4>2. \A x \in contents' : x = d \/ x \in contents
          BY <2>11
        <4>3. /\ \A x \in contents : x.id < nextGuid /\ Known(x.editedBy)
              /\ d.id < nextGuid /\ Known(d.editedBy)
          BY <1>2, <2>7, <2>13, <2>14 DEF ContentKeys, Known
        <4> QED
          BY <2>3, <4>1, <4>2, <4>3 DEF ContentKeys, Known
      <3>4. Apart'
        BY <1>2, <1>3, <1>4, <2>1, <2>3, <2>4, <2>7 DEF Apart
      <3> QED
        BY <3>1, <3>2, <3>3, <3>4
    <2>8. ASSUME Serial PROVE Sound(r2)'
      <3>1. SeenSound(r2)'
        BY <1>2, <1>3, <1>4, <2>1, <2>3, <2>4, <2>8 DEF SeenSound, PageSteps
      <3>2. HandSound(r2)'
        BY <1>2, <1>3, <1>4, <2>1, <2>3, <2>4, <2>8 DEF HandSound, RenameSteps
      <3>3. CheckSound(r2)'
        BY <1>2, <1>3, <1>4, <2>1, <2>3, <2>4, <2>8
        DEF CheckSound, GetUserByEmail, GetUserByUsername
      <3>4. RenameSound(r2)'
        BY <1>2, <1>3, <1>4, <2>1, <2>3, <2>4, <2>8, <2>11, <2>13, <2>14
        DEF RenameSound, RenameSteps, GetUserByUsername
      <3>5. WriterSound(r2)'
        BY <1>2, <1>3, <1>4, <2>1, <2>3, <2>4, <2>8 DEF WriterSound, PageSteps, Known
      <3>6. PasswordSound(r2)'
        BY <1>2, <1>3, <1>4, <2>1, <2>3, <2>4, <2>8 DEF PasswordSound
      <3> QED
        BY <3>1, <3>2, <3>3, <3>4, <3>5, <3>6 DEF Sound
    <2>9. ASSUME Serial, ~cut PROVE Named(r2)'
      <3>1. ContentsNamed(r2)'
        <4>1. \A v \in contents' : v = d \/ (v \in contents /\ v # c)
          BY <2>11, <2>13
        <4>2. \A v \in contents : IsNameOf(v.editedBy) \/ (v \in r.contents /\ Old(r, v.editedBy))
          BY <1>2, <1>4, <2>9 DEF Named, ContentsNamed
        <4>3. \A v \in contents' : IsNameOf(v.editedBy) \/ (v \in r2.contents /\ Old(r2, v.editedBy))
          BY <2>4, <2>9, <2>15, <4>1, <4>2 DEF Old
        <4> QED
          BY <1>4, <2>3, <2>4, <4>3 DEF ContentsNamed, IsNameOf, Old
      <3>2. CreatedNamed(r2)'
        BY <1>2, <1>3, <1>4, <2>1, <2>3, <2>4, <2>9
        DEF CreatedNamed, Named, Old, RenameSteps, IsNameOf
      <3>3. ModifiedNamed(r2)'
        BY <1>2, <1>3, <1>4, <2>1, <2>3, <2>4, <2>9
        DEF ModifiedNamed, Named, Old, RenameSteps, IsNameOf
      <3>4. WriterNamed(r2)'
        BY <1>2, <1>3, <1>4, <2>1, <2>3, <2>4, <2>9 DEF WriterNamed
      <3> QED
        BY <3>1, <3>2, <3>3, <3>4 DEF Named
    <2>10. /\ cookies' \subseteq Nat \ {0} /\ forms' \subseteq Form /\ started' \in Nat
      BY <1>3, <2>3
    <2> QED
      BY <2>3, <2>5, <2>6, <2>7, <2>8, <2>9, <2>10, Renewed
  <1> QED
    BY <1>1, <1>5, <1>6 DEF UpdateUserEditedBy

(* The same for who created a page,                                        *)
LEMMA CreatedByKept ==
    ASSUME UserInv, NEW t \in Threads, UpdateUserCreatedBy(t), cut' = cut
    PROVE  UserInv'
  <1>1. PICK r : r = rq[t]
    OBVIOUS
  <1>2. /\ Held(r) /\ r \in Request /\ Types
        /\ Serial => /\ UserKeys /\ PageKeys /\ ContentKeys /\ Apart
                     /\ SeenSound(r) /\ HandSound(r) /\ CheckSound(r) /\ RenameSound(r)
                     /\ WriterSound(r) /\ PasswordSound(r)
                     /\ ~cut => Named(r)
    BY <1>1, Basics DEF Sound
  <1>3. /\ users \subseteq User /\ pages \subseteq AuthoredPage
        /\ contents \subseteq AuthoredContent /\ nextGuid \in Nat \ {0} /\ cookies \subseteq Nat \ {0} /\ forms \subseteq Form
        /\ started \in Nat /\ rq \in [Threads -> Request]
    BY <1>2 DEF Types, TablesTypeOK
  <1>4. r.pc = "upd:createdby"
    BY <1>1 DEF At, UpdateUserCreatedBy
  <1>5. CASE r.pages = {} /\ Goto(t, "upd:modified") /\ UNCHANGED tables
    <2>1. /\ Goto(t, "upd:modified")
          /\ r.pages = {}
      BY <1>1, <1>5 DEF UpdateUserCreatedBy, Goto
    <2>2. PICK r2 : r2 = [r EXCEPT !.pc = "upd:modified"]
      OBVIOUS
    <2>3. /\ rq' = [rq EXCEPT ![t] = r2]
          /\ UNCHANGED <<users, pages, contents, nextGuid, cookies, forms, started>>
      BY <1>1, <1>3, <1>5, <2>1, <2>2 DEF UpdateUserCreatedBy, tables, Goto
    <2>4. /\ r2 \in Request /\ r2.op = r.op /\ r2.pc = "upd:modified" /\ r2.model = r.model
          /\ r2.user = r.user /\ r2.seenUsers = r.seenUsers /\ r2.seenPages = r.seenPages
          /\ r2.pages = r.pages /\ r2.contents = r.contents /\ r2.author = r.author
      BY <1>2, <1>3, <1>4, <2>1, <2>2 DEF Request, Labels
    <2>5. Held(r2)
      BY <1>2, <1>4, <2>1, <2>4 DEF Held, NewSteps, UpdateSteps, RenameSteps
    <2>6. ASSUME Serial PROVE Sound(r2)
      <3>1. SeenSound(r2)
        BY <1>2, <1>4, <2>1, <2>4, <2>6 DEF SeenSound, PageSteps
      <3>2. HandSound(r2)
        BY <1>2, <1>4, <2>1, <2>4, <2>6 DEF HandSound, RenameSteps
      <3>3. CheckSound(r2)
        BY <1>2, <1>4, <2>1, <2>4, <2>6 DEF CheckSound
      <3>4. RenameSound(r2)
        BY <1>2, <1>4, <2>1, <2>4, <2>6 DEF RenameSound, RenameSteps
      <3>5. WriterSound(r2)
        BY <1>2, <1>4, <2>1, <2>4, <2>6 DEF WriterSound, PageSteps
      <3>6. PasswordSound(r2)
        BY <1>2, <1>4, <2>1, <2>4, <2>6 DEF PasswordSound
      <3> QED
        BY <3>1, <3>2, <3>3, <3>4, <3>5, <3>6 DEF Sound
    <2>7. ASSUME Serial, ~cut PROVE Named(r2)
      <3>1. ContentsNamed(r2)
        BY <1>2, <1>4, <2>1, <2>4, <2>7 DEF ContentsNamed, Named, Old, RenameSteps, IsNameOf
      <3>2. CreatedNamed(r2)
        BY <1>2, <1>4, <2>1, <2>4, <2>7 DEF CreatedNamed, Named, Old, RenameSteps, IsNameOf
      <3>3. ModifiedNamed(r2)
        BY <1>2, <1>4, <2>1, <2>4, <2>7 DEF ModifiedNamed, Named, Old, RenameSteps, IsNameOf
      <3>4. WriterNamed(r2)
        BY <1>2, <1>4, <2>1, <2>4, <2>7 DEF WriterNamed
      <3> QED
        BY <3>1, <3>2, <3>3, <3>4 DEF Named
    <2>8. nextGuid' \in Nat /\ nextGuid' >= nextGuid
      BY <1>3, <2>3
    <2> QED
      BY <1>3, <2>3, <2>5, <2>6, <2>7, <2>8, Proceeded
  <1>6. CASE \E p \in r.pages :
              SavePage(t, p, [p EXCEPT !.createdBy.name = r.model.newUsername])
    <2>1. PICK p, q :
             /\ p \in r.pages
             /\ q = [p EXCEPT !.createdBy.name = r.model.newUsername]
             /\ SavePage(t, p, [p EXCEPT !.createdBy.name = r.model.newUsername])
      BY <1>1, <1>6 DEF UpdateUserCreatedBy
    <2>2. PICK r2 : r2 = [r EXCEPT !.pages = r.pages \ {p},
                               !.seenPages = (r.seenPages \ {p}) \cup {q}]
      OBVIOUS
    <2>3. /\ rq' = [rq EXCEPT ![t] = r2]
          /\ pages' = {IF v.id = q.id THEN q ELSE v : v \in pages}
          /\ UNCHANGED <<users, contents, nextGuid, cookies, forms, started>>
      <3>1. SavePage(t, p, q) /\ rq[t] = r
        BY <1>1, <2>1
      <3>2. /\ pages' = {IF v.id = q.id THEN q ELSE v : v \in pages}
            /\ UNCHANGED <<users, contents, nextGuid>>
            /\ Become(t, [r EXCEPT !.pages = r.pages \ {p},
                                   !.seenPages = (r.seenPages \ {p}) \cup {q}])
        BY <1>1, <3>1 DEF SavePage, SaveOrUpdatePage
      <3>3. UNCHANGED <<cookies, forms, started>>
        BY DEF UpdateUserCreatedBy
      <3> QED
        BY <1>1, <2>2, <3>1, <3>2, <3>3 DEF Become
    <2>11. /\ \A x \in pages' : x = q \/ (x \in pages /\ x.id # q.id)
           /\ \A v \in pages : v.id # q.id => v \in pages'
           /\ (\E v \in pages : v.id = q.id) => q \in pages'
           /\ \A x \in pages' : \E v \in pages : v.id = x.id
           /\ (\A u, v \in pages : u.id = v.id => u = v) =>
                 \A u, v \in pages' : u.id = v.id => u = v
      BY <2>3
    <2>12. p \in AuthoredPage /\ r.model.newUsername \in Usernames
      BY <1>2, <1>4, <2>1 DEF Held, UpdateSteps, RenameSteps, Request
    <2>13. /\ q \in AuthoredPage /\ q.id = p.id
           /\ q.createdBy.who = p.createdBy.who /\ q.createdBy.name = r.model.newUsername
           /\ q.modifiedBy = p.modifiedBy
      BY <2>1, <2>12 DEF AuthoredPage, Author
    <2>14. Serial => /\ p \in pages /\ p.createdBy.name = r.model.existingUsername
                     /\ q \in pages' /\ \A v \in pages : v.id = q.id => v = p
      <3>1. Serial => p \in pages /\ p.createdBy.name = r.model.existingUsername
        BY <1>2, <1>4, <2>1 DEF RenameSound
      <3>2. Serial => \A v \in pages : v.id = p.id => v = p
        BY <1>2, <3>1 DEF PageKeys
      <3> QED
        BY <2>11, <2>13, <3>1, <3>2
    <2>15. Serial /\ ~cut => IsNameOf(q.createdBy)
      <3>1. Serial => /\ \A u \in users : u.username # r.model.existingUsername
                      /\ r.user \subseteq users
                      /\ \A u \in r.user : u.username = r.model.newUsername
        BY <1>2, <1>4 DEF RenameSound, HandSound, GetUserByUsername, RenameSteps
      <3>2. Serial /\ ~cut => IsNameOf(p.createdBy) \/ Old(r, p.createdBy)
        BY <1>2, <1>4, <2>14 DEF Named, CreatedNamed
      <3>3. Serial => \A u, v \in users : u.id = v.id => u = v
        BY <1>2 DEF UserKeys
      <3> QED
        BY <2>13, <2>14, <3>1, <3>2, <3>3 DEF IsNameOf, Old
    <2>4. /\ r2 \in Request /\ r2.op = r.op /\ r2.pc = r.pc /\ r2.model = r.model
          /\ r2.user = r.user /\ r2.seenUsers = r.seenUsers
          /\ r2.seenPages = (r.seenPages \ {p}) \cup {q} /\ r2.pages = r.pages \ {p}
          /\ r2.contents = r.contents /\ r2.author = r.author
      BY <1>2, <1>3, <1>4, <2>1, <2>2, <2>13 DEF Request, Labels
    <2>5. Held(r2)
      BY <1>2, <1>4, <2>1, <2>4 DEF Held, NewSteps, UpdateSteps, RenameSteps
    <2>6. TablesTypeOK'
      BY <1>3, <2>3, <2>11, <2>13 DEF TablesTypeOK
    <2>7. ASSUME Serial PROVE UserKeys' /\ PageKeys' /\ ContentKeys' /\ Apart'
      <3>1. UserKeys'
        BY <1>2, <1>3, <1>4, <2>1, <2>3, <2>4, <2>7 DEF UserKeys
      <3>2. PageKeys'
        <4>1. \A x, y \in pages' : x.id = y.id => x = y
          BY <1>2, <2>7, <2>11 DEF PageKeys
        <4>2. \A x \in pages' : x = q \/ x \in pages
          BY <2>11
        <4>3. /\ \A x \in pages : x.id < nextGuid /\ Known(x.createdBy) /\ Known(x.modifiedBy)
              /\ q.id < nextGuid /\ Known(q.createdBy) /\ Known(q.modifiedBy)
          BY <1>2, <2>7, <2>13, <2>14 DEF PageKeys, Known
        <4> QED
          BY <2>3, <4>1, <4>2, <4>3 DEF PageKeys, Known
      <3>3. ContentKeys'
        BY <1>2, <1>3, <1>4, <2>1, <2>3, <2>4, <2>7 DEF ContentKeys, Known
      <3>4. Apart'
        BY <1>2, <1>3, <1>4, <2>1, <2>3, <2>4, <2>7 DEF Apart
      <3> QED
        BY <3>1, <3>2, <3>3, <3>4
    <2>8. ASSUME Serial PROVE Sound(r2)'
      <3>1. SeenSound(r2)'
        BY <1>2, <1>3, <1>4, <2>1, <2>3, <2>4, <2>8, <2>11, <2>13, <2>14
        DEF SeenSound, PageSteps
      <3>2. HandSound(r2)'
        BY <1>2, <1>3, <1>4, <2>1, <2>3, <2>4, <2>8 DEF HandSound, RenameSteps
      <3>3. CheckSound(r2)'
        BY <1>2, <1>3, <1>4, <2>1, <2>3, <2>4, <2>8
        DEF CheckSound, GetUserByEmail, GetUserByUsername
      <3>4. RenameSound(r2)'
        BY <1>2, <1>3, <1>4, <2>1, <2>3, <2>4, <2>8, <2>11, <2>13, <2>14
        DEF RenameSound, RenameSteps, GetUserByUsername
      <3>5. WriterSound(r2)'
        BY <1>2, <1>3, <1>4, <2>1, <2>3, <2>4, <2>8 DEF WriterSound, PageSteps, Known
      <3>6. PasswordSound(r2)'
        BY <1>2, <1>3, <1>4, <2>1, <2>3, <2>4, <2>8 DEF PasswordSound
      <3> QED
        BY <3>1, <3>2, <3>3, <3>4, <3>5, <3>6 DEF Sound
    <2>9. ASSUME Serial, ~cut PROVE Named(r2)'
      <3>1. ContentsNamed(r2)'
        BY <1>2, <1>3, <1>4, <2>1, <2>3, <2>4, <2>9
        DEF ContentsNamed, Named, Old, RenameSteps, IsNameOf
      <3>2. CreatedNamed(r2)'
        <4>1. \A v \in pages' : v = q \/ (v \in pages /\ v # p)
          BY <2>11, <2>13
        <4>2. \A v \in pages : IsNameOf(v.createdBy) \/ (v \in r.pages /\ Old(r, v.createdBy))
          BY <1>2, <1>4, <2>9 DEF Named, CreatedNamed
        <4>3. \A v \in pages' : IsNameOf(v.createdBy) \/ (v \in r2.pages /\ Old(r2, v.createdBy))
          BY <2>4, <2>9, <2>15, <4>1, <4>2 DEF Old
        <4> QED
          BY <1>4, <2>3, <2>4, <4>3 DEF CreatedNamed, IsNameOf, Old
      <3>3. ModifiedNamed(r2)'
        <4>1. \A v \in pages' : \E w \in pages : v.modifiedBy = w.modifiedBy
          BY <2>11, <2>13, <2>14, <2>9
        <4>2. \A v \in pages : IsNameOf(v.modifiedBy) \/ Old(r, v.modifiedBy)
          BY <1>2, <1>4, <2>9 DEF Named, ModifiedNamed
        <4>3. \A v \in pages' : IsNameOf(v.modifiedBy) \/ Old(r2, v.modifiedBy)
          BY <2>4, <4>1, <4>2 DEF Old
        <4> QED
          BY <1>4, <2>3, <2>4, <4>3 DEF ModifiedNamed, IsNameOf, Old
      <3>4. WriterNamed(r2)'
        BY <1>2, <1>3, <1>4, <2>1, <2>3, <2>4, <2>9 DEF WriterNamed
      <3> QED
        BY <3>1, <3>2, <3>3, <3>4 DEF Named
    <2>10. /\ cookies' \subseteq Nat \ {0} /\ forms' \subseteq Form /\ started' \in Nat
      BY <1>3, <2>3
    <2> QED
      BY <2>3, <2>5, <2>6, <2>7, <2>8, <2>9, <2>10, Renewed
  <1> QED
    BY <1>1, <1>5, <1>6 DEF UpdateUserCreatedBy

(* and for who modified it.                                                *)
LEMMA ModifiedByKept ==
    ASSUME UserInv, NEW t \in Threads, UpdateUserModifiedBy(t), cut' = cut
    PROVE  UserInv'
  <1>1. PICK r : r = rq[t]
    OBVIOUS
  <1>2. /\ Held(r) /\ r \in Request /\ Types
        /\ Serial => /\ UserKeys /\ PageKeys /\ ContentKeys /\ Apart
                     /\ SeenSound(r) /\ HandSound(r) /\ CheckSound(r) /\ RenameSound(r)
                     /\ WriterSound(r) /\ PasswordSound(r)
                     /\ ~cut => Named(r)
    BY <1>1, Basics DEF Sound
  <1>3. /\ users \subseteq User /\ pages \subseteq AuthoredPage
        /\ contents \subseteq AuthoredContent /\ nextGuid \in Nat \ {0} /\ cookies \subseteq Nat \ {0} /\ forms \subseteq Form
        /\ started \in Nat /\ rq \in [Threads -> Request]
    BY <1>2 DEF Types, TablesTypeOK
  <1>4. r.pc = "upd:modifiedby"
    BY <1>1 DEF At, UpdateUserModifiedBy
  <1>5. CASE r.pages = {} /\ UpdateUserSucceeds(t) /\ UNCHANGED tables
    <2>1. PICK email : /\ email = IF r.op = "edituser" THEN r.model.newEmail
                               ELSE r.model.existingEmail
                       /\ email \in Emails \cup {NoName} /\ UpdateUserSucceeds(t)
                       /\ r.pages = {}
      BY <1>1, <1>5, <1>2
      DEF UpdateUserModifiedBy, UpdateUserSucceeds, Become, Request, Model
    <2>2. PICK r2 : r2 = [r EXCEPT !.pc = "pwd:load", !.model.existingEmail = email]
      OBVIOUS
    <2>3. /\ rq' = [rq EXCEPT ![t] = r2]
          /\ UNCHANGED <<users, pages, contents, nextGuid, cookies, forms, started>>
      BY <1>1, <1>3, <1>5, <2>1, <2>2, <1>2
      DEF UpdateUserModifiedBy, tables, UpdateUserSucceeds, Become, Request, Model
    <2>4. /\ r2 \in Request /\ r2.op = r.op /\ r2.pc = "pwd:load" /\ r2.user = r.user
          /\ r2.seenUsers = r.seenUsers /\ r2.seenPages = r.seenPages /\ r2.pages = r.pages
          /\ r2.contents = r.contents /\ r2.author = r.author
          /\ r2.model.existingEmail = email /\ r2.model.newEmail = r.model.newEmail
          /\ r2.model.existingUsername = r.model.existingUsername
          /\ r2.model.newUsername = r.model.newUsername
          /\ r2.model.password = r.model.password
      <3>1. PICK m : m = [r.model EXCEPT !.existingEmail = email]
        OBVIOUS
      <3>2. r.model \in Model
        BY <1>2 DEF Request
      <3>3. /\ m \in Model /\ m.existingEmail = email /\ m.newEmail = r.model.newEmail
            /\ m.existingUsername = r.model.existingUsername
            /\ m.newUsername = r.model.newUsername /\ m.password = r.model.password
        BY <2>1, <3>1, <3>2 DEF Model
      <3>4. r2 = [r EXCEPT !.pc = "pwd:load", !.model = m]
        BY <2>2, <3>1
      <3> QED
        BY <1>2, <3>3, <3>4 DEF Request, Labels
    <2>5. Held(r2)
      BY <1>2, <1>4, <2>1, <2>4 DEF Held, NewSteps, UpdateSteps, RenameSteps
    <2>6. ASSUME Serial PROVE Sound(r2)
      <3>1. SeenSound(r2)
        BY <1>2, <1>4, <2>1, <2>4, <2>6 DEF SeenSound, PageSteps
      <3>2. HandSound(r2)
        BY <1>2, <1>4, <2>1, <2>4, <2>6 DEF HandSound, RenameSteps
      <3>3. CheckSound(r2)
        BY <1>2, <1>4, <2>1, <2>4, <2>6 DEF CheckSound
      <3>4. RenameSound(r2)
        BY <1>2, <1>4, <2>1, <2>4, <2>6 DEF RenameSound, RenameSteps
      <3>5. WriterSound(r2)
        BY <1>2, <1>4, <2>1, <2>4, <2>6 DEF WriterSound, PageSteps
      <3>6. PasswordSound(r2)
        BY <1>2, <1>4, <2>1, <2>4, <2>6 DEF PasswordSound
      <3> QED
        BY <3>1, <3>2, <3>3, <3>4, <3>5, <3>6 DEF Sound
    <2>7. ASSUME Serial, ~cut PROVE Named(r2)
      <3>1. ContentsNamed(r2)
        BY <1>2, <1>4, <2>1, <2>4, <2>7 DEF ContentsNamed, Named, Old, RenameSteps, IsNameOf
      <3>2. CreatedNamed(r2)
        BY <1>2, <1>4, <2>1, <2>4, <2>7 DEF CreatedNamed, Named, Old, RenameSteps, IsNameOf
      <3>3. ModifiedNamed(r2)
        BY <1>2, <1>4, <2>1, <2>4, <2>7 DEF ModifiedNamed, Named, Old, RenameSteps, IsNameOf
      <3>4. WriterNamed(r2)
        BY <1>2, <1>4, <2>1, <2>4, <2>7 DEF WriterNamed
      <3> QED
        BY <3>1, <3>2, <3>3, <3>4 DEF Named
    <2>8. nextGuid' \in Nat /\ nextGuid' >= nextGuid
      BY <1>3, <2>3
    <2> QED
      BY <1>3, <2>3, <2>5, <2>6, <2>7, <2>8, Proceeded
  <1>6. CASE \E p \in r.pages :
              SavePage(t, p, [p EXCEPT !.modifiedBy.name = r.model.newUsername])
    <2>1. PICK p, q :
             /\ p \in r.pages
             /\ q = [p EXCEPT !.modifiedBy.name = r.model.newUsername]
             /\ SavePage(t, p, [p EXCEPT !.modifiedBy.name = r.model.newUsername])
      BY <1>1, <1>6 DEF UpdateUserModifiedBy
    <2>2. PICK r2 : r2 = [r EXCEPT !.pages = r.pages \ {p},
                               !.seenPages = (r.seenPages \ {p}) \cup {q}]
      OBVIOUS
    <2>3. /\ rq' = [rq EXCEPT ![t] = r2]
          /\ pages' = {IF v.id = q.id THEN q ELSE v : v \in pages}
          /\ UNCHANGED <<users, contents, nextGuid, cookies, forms, started>>
      <3>1. SavePage(t, p, q) /\ rq[t] = r
        BY <1>1, <2>1
      <3>2. /\ pages' = {IF v.id = q.id THEN q ELSE v : v \in pages}
            /\ UNCHANGED <<users, contents, nextGuid>>
            /\ Become(t, [r EXCEPT !.pages = r.pages \ {p},
                                   !.seenPages = (r.seenPages \ {p}) \cup {q}])
        BY <1>1, <3>1 DEF SavePage, SaveOrUpdatePage
      <3>3. UNCHANGED <<cookies, forms, started>>
        BY DEF UpdateUserModifiedBy
      <3> QED
        BY <1>1, <2>2, <3>1, <3>2, <3>3 DEF Become
    <2>11. /\ \A x \in pages' : x = q \/ (x \in pages /\ x.id # q.id)
           /\ \A v \in pages : v.id # q.id => v \in pages'
           /\ (\E v \in pages : v.id = q.id) => q \in pages'
           /\ \A x \in pages' : \E v \in pages : v.id = x.id
           /\ (\A u, v \in pages : u.id = v.id => u = v) =>
                 \A u, v \in pages' : u.id = v.id => u = v
      BY <2>3
    <2>12. p \in AuthoredPage /\ r.model.newUsername \in Usernames
      BY <1>2, <1>4, <2>1 DEF Held, UpdateSteps, RenameSteps, Request
    <2>13. /\ q \in AuthoredPage /\ q.id = p.id
           /\ q.modifiedBy.who = p.modifiedBy.who /\ q.modifiedBy.name = r.model.newUsername
           /\ q.createdBy = p.createdBy
      BY <2>1, <2>12 DEF AuthoredPage, Author
    <2>14. Serial => /\ p \in pages /\ p.modifiedBy.name = r.model.existingUsername
                     /\ q \in pages' /\ \A v \in pages : v.id = q.id => v = p
      <3>1. Serial => p \in pages /\ p.modifiedBy.name = r.model.existingUsername
        BY <1>2, <1>4, <2>1 DEF RenameSound
      <3>2. Serial => \A v \in pages : v.id = p.id => v = p
        BY <1>2, <3>1 DEF PageKeys
      <3> QED
        BY <2>11, <2>13, <3>1, <3>2
    <2>15. Serial /\ ~cut => IsNameOf(q.modifiedBy)
      <3>1. Serial => /\ \A u \in users : u.username # r.model.existingUsername
                      /\ r.user \subseteq users
                      /\ \A u \in r.user : u.username = r.model.newUsername
        BY <1>2, <1>4 DEF RenameSound, HandSound, GetUserByUsername, RenameSteps
      <3>2. Serial /\ ~cut => IsNameOf(p.modifiedBy) \/ Old(r, p.modifiedBy)
        BY <1>2, <1>4, <2>14 DEF Named, ModifiedNamed
      <3>3. Serial => \A u, v \in users : u.id = v.id => u = v
        BY <1>2 DEF UserKeys
      <3> QED
        BY <2>13, <2>14, <3>1, <3>2, <3>3 DEF IsNameOf, Old
    <2>4. /\ r2 \in Request /\ r2.op = r.op /\ r2.pc = r.pc /\ r2.model = r.model
          /\ r2.user = r.user /\ r2.seenUsers = r.seenUsers
          /\ r2.seenPages = (r.seenPages \ {p}) \cup {q} /\ r2.pages = r.pages \ {p}
          /\ r2.contents = r.contents /\ r2.author = r.author
      BY <1>2, <1>3, <1>4, <2>1, <2>2, <2>13 DEF Request, Labels
    <2>5. Held(r2)
      BY <1>2, <1>4, <2>1, <2>4 DEF Held, NewSteps, UpdateSteps, RenameSteps
    <2>6. TablesTypeOK'
      BY <1>3, <2>3, <2>11, <2>13 DEF TablesTypeOK
    <2>7. ASSUME Serial PROVE UserKeys' /\ PageKeys' /\ ContentKeys' /\ Apart'
      <3>1. UserKeys'
        BY <1>2, <1>3, <1>4, <2>1, <2>3, <2>4, <2>7 DEF UserKeys
      <3>2. PageKeys'
        <4>1. \A x, y \in pages' : x.id = y.id => x = y
          BY <1>2, <2>7, <2>11 DEF PageKeys
        <4>2. \A x \in pages' : x = q \/ x \in pages
          BY <2>11
        <4>3. /\ \A x \in pages : x.id < nextGuid /\ Known(x.createdBy) /\ Known(x.modifiedBy)
              /\ q.id < nextGuid /\ Known(q.createdBy) /\ Known(q.modifiedBy)
          BY <1>2, <2>7, <2>13, <2>14 DEF PageKeys, Known
        <4> QED
          BY <2>3, <4>1, <4>2, <4>3 DEF PageKeys, Known
      <3>3. ContentKeys'
        BY <1>2, <1>3, <1>4, <2>1, <2>3, <2>4, <2>7 DEF ContentKeys, Known
      <3>4. Apart'
        BY <1>2, <1>3, <1>4, <2>1, <2>3, <2>4, <2>7 DEF Apart
      <3> QED
        BY <3>1, <3>2, <3>3, <3>4
    <2>8. ASSUME Serial PROVE Sound(r2)'
      <3>1. SeenSound(r2)'
        BY <1>2, <1>3, <1>4, <2>1, <2>3, <2>4, <2>8, <2>11, <2>13, <2>14
        DEF SeenSound, PageSteps
      <3>2. HandSound(r2)'
        BY <1>2, <1>3, <1>4, <2>1, <2>3, <2>4, <2>8 DEF HandSound, RenameSteps
      <3>3. CheckSound(r2)'
        BY <1>2, <1>3, <1>4, <2>1, <2>3, <2>4, <2>8
        DEF CheckSound, GetUserByEmail, GetUserByUsername
      <3>4. RenameSound(r2)'
        BY <1>2, <1>3, <1>4, <2>1, <2>3, <2>4, <2>8, <2>11, <2>13, <2>14
        DEF RenameSound, RenameSteps, GetUserByUsername
      <3>5. WriterSound(r2)'
        BY <1>2, <1>3, <1>4, <2>1, <2>3, <2>4, <2>8 DEF WriterSound, PageSteps, Known
      <3>6. PasswordSound(r2)'
        BY <1>2, <1>3, <1>4, <2>1, <2>3, <2>4, <2>8 DEF PasswordSound
      <3> QED
        BY <3>1, <3>2, <3>3, <3>4, <3>5, <3>6 DEF Sound
    <2>9. ASSUME Serial, ~cut PROVE Named(r2)'
      <3>1. ContentsNamed(r2)'
        BY <1>2, <1>3, <1>4, <2>1, <2>3, <2>4, <2>9
        DEF ContentsNamed, Named, Old, RenameSteps, IsNameOf
      <3>2. CreatedNamed(r2)'
        <4>1. \A v \in pages' : \E w \in pages : v.createdBy = w.createdBy
          BY <2>11, <2>13, <2>14, <2>9
        <4>2. \A v \in pages : IsNameOf(v.createdBy)
          BY <1>2, <1>4, <2>9 DEF Named, CreatedNamed
        <4>3. \A v \in pages' : IsNameOf(v.createdBy)
          BY <2>4, <4>1, <4>2
        <4> QED
          BY <1>4, <2>3, <2>4, <4>3 DEF CreatedNamed, IsNameOf, Old
      <3>3. ModifiedNamed(r2)'
        <4>1. \A v \in pages' : v = q \/ (v \in pages /\ v # p)
          BY <2>11, <2>13
        <4>2. \A v \in pages : IsNameOf(v.modifiedBy) \/ (v \in r.pages /\ Old(r, v.modifiedBy))
          BY <1>2, <1>4, <2>9 DEF Named, ModifiedNamed
        <4>3. \A v \in pages' : IsNameOf(v.modifiedBy) \/ (v \in r2.pages /\ Old(r2, v.modifiedBy))
          BY <2>4, <2>9, <2>15, <4>1, <4>2 DEF Old
        <4> QED
          BY <1>4, <2>3, <2>4, <4>3 DEF ModifiedNamed, IsNameOf, Old
      <3>4. WriterNamed(r2)'
        BY <1>2, <1>3, <1>4, <2>1, <2>3, <2>4, <2>9 DEF WriterNamed
      <3> QED
        BY <3>1, <3>2, <3>3, <3>4 DEF Named
    <2>10. /\ cookies' \subseteq Nat \ {0} /\ forms' \subseteq Form /\ started' \in Nat
      BY <1>3, <2>3
    <2> QED
      BY <2>3, <2>5, <2>6, <2>7, <2>8, <2>9, <2>10, Renewed
  <1> QED
    BY <1>1, <1>5, <1>6 DEF UpdateUserModifiedBy

(* Whoever writes the page still has the name.                             *)
LEMMA UpdatePageSaveKept ==
    ASSUME UserInv, NEW t \in Threads, UpdatePageSave(t), cut' = cut
    PROVE  UserInv'
  <1>1. PICK r : r = rq[t]
    OBVIOUS
  <1>2. /\ Held(r) /\ r \in Request /\ Types
        /\ Serial => /\ UserKeys /\ PageKeys /\ ContentKeys /\ Apart
                     /\ SeenSound(r) /\ HandSound(r) /\ CheckSound(r) /\ RenameSound(r)
                     /\ WriterSound(r) /\ PasswordSound(r)
                     /\ ~cut => Named(r)
    BY <1>1, Basics DEF Sound
  <1>3. /\ users \subseteq User /\ pages \subseteq AuthoredPage
        /\ contents \subseteq AuthoredContent /\ nextGuid \in Nat \ {0} /\ cookies \subseteq Nat \ {0} /\ forms \subseteq Form
        /\ started \in Nat /\ rq \in [Threads -> Request]
    BY <1>2 DEF Types, TablesTypeOK
  <1>4. r.pc = "page:save"
    BY <1>1 DEF At, UpdatePageSave
  <1>5. UserInv'
    <2>1. PICK q \in r.pages : SaveOrUpdatePage(q) /\ Goto(t, "page:version")
      BY <1>1 DEF UpdatePageSave, SaveOrUpdatePage, Goto
    <2>2. PICK r2 : r2 = [r EXCEPT !.pc = "page:version"]
      OBVIOUS
    <2>3. /\ rq' = [rq EXCEPT ![t] = r2]
          /\ pages' = {IF v.id = q.id THEN q ELSE v : v \in pages}
          /\ UNCHANGED <<users, contents, nextGuid, cookies, forms, started>>
      BY <1>1, <2>1, <2>2 DEF UpdatePageSave, tables, SaveOrUpdatePage, Goto
    <2>11. /\ \A x \in pages' : x = q \/ (x \in pages /\ x.id # q.id)
           /\ \A v \in pages : v.id # q.id => v \in pages'
           /\ (\E v \in pages : v.id = q.id) => q \in pages'
           /\ \A x \in pages' : \E v \in pages : v.id = x.id
           /\ (\A u, v \in pages : u.id = v.id => u = v) =>
                 \A u, v \in pages' : u.id = v.id => u = v
      BY <2>3
    <2>12. q \in AuthoredPage
      BY <1>2, <2>1 DEF Request
    <2>13. Serial => q.modifiedBy = r.author /\ Known(r.author) /\ Known(q.createdBy) /\ r.seenPages = {}
      BY <1>2, <1>4, <2>1 DEF WriterSound, SeenSound, PageSteps
    <2>14. Serial /\ ~cut => IsNameOf(r.author) /\ IsNameOf(q.createdBy)
      BY <1>2, <1>4, <2>1 DEF Named, WriterNamed
    <2>4. /\ r2 \in Request /\ r2.op = r.op /\ r2.pc = "page:version" /\ r2.model = r.model
          /\ r2.user = r.user /\ r2.seenUsers = r.seenUsers /\ r2.seenPages = r.seenPages
          /\ r2.pages = r.pages /\ r2.contents = r.contents /\ r2.author = r.author
      BY <1>2, <1>3, <1>4, <2>1, <2>2 DEF Request, Labels
    <2>5. Held(r2)
      BY <1>2, <1>4, <2>1, <2>4 DEF Held, NewSteps, UpdateSteps, RenameSteps
    <2>6. TablesTypeOK'
      BY <1>3, <2>3, <2>11, <2>12 DEF TablesTypeOK
    <2>7. ASSUME Serial PROVE UserKeys' /\ PageKeys' /\ ContentKeys' /\ Apart'
      <3>1. UserKeys'
        BY <1>2, <1>3, <1>4, <2>1, <2>3, <2>4, <2>7 DEF UserKeys
      <3>2. PageKeys'
        BY <1>2, <1>3, <1>4, <2>1, <2>3, <2>4, <2>7, <2>11, <2>13 DEF PageKeys, Known
      <3>3. ContentKeys'
        BY <1>2, <1>3, <1>4, <2>1, <2>3, <2>4, <2>7 DEF ContentKeys, Known
      <3>4. Apart'
        BY <1>2, <1>3, <1>4, <2>1, <2>3, <2>4, <2>7 DEF Apart
      <3> QED
        BY <3>1, <3>2, <3>3, <3>4
    <2>8. ASSUME Serial PROVE Sound(r2)'
      <3>1. SeenSound(r2)'
        BY <1>2, <1>3, <1>4, <2>1, <2>3, <2>4, <2>8, <2>13 DEF SeenSound, PageSteps
      <3>2. HandSound(r2)'
        BY <1>2, <1>3, <1>4, <2>1, <2>3, <2>4, <2>8 DEF HandSound, RenameSteps
      <3>3. CheckSound(r2)'
        BY <1>2, <1>3, <1>4, <2>1, <2>3, <2>4, <2>8
        DEF CheckSound, GetUserByEmail, GetUserByUsername
      <3>4. RenameSound(r2)'
        BY <1>2, <1>3, <1>4, <2>1, <2>3, <2>4, <2>8
        DEF RenameSound, RenameSteps, GetUserByUsername
      <3>5. WriterSound(r2)'
        BY <1>2, <1>3, <1>4, <2>1, <2>3, <2>4, <2>8 DEF WriterSound, PageSteps, Known
      <3>6. PasswordSound(r2)'
        BY <1>2, <1>3, <1>4, <2>1, <2>3, <2>4, <2>8 DEF PasswordSound
      <3> QED
        BY <3>1, <3>2, <3>3, <3>4, <3>5, <3>6 DEF Sound
    <2>9. ASSUME Serial, ~cut PROVE Named(r2)'
      <3>1. ContentsNamed(r2)'
        BY <1>2, <1>3, <1>4, <2>1, <2>3, <2>4, <2>9
        DEF ContentsNamed, Named, Old, RenameSteps, IsNameOf
      <3>2. CreatedNamed(r2)'
        BY <1>2, <1>3, <1>4, <2>1, <2>3, <2>4, <2>9, <2>11, <2>13, <2>14
        DEF CreatedNamed, Named, Old, RenameSteps, IsNameOf
      <3>3. ModifiedNamed(r2)'
        BY <1>2, <1>3, <1>4, <2>1, <2>3, <2>4, <2>9, <2>11, <2>13, <2>14
        DEF ModifiedNamed, Named, Old, RenameSteps, IsNameOf
      <3>4. WriterNamed(r2)'
        BY <1>2, <1>3, <1>4, <2>1, <2>3, <2>4, <2>9, <2>14 DEF WriterNamed, Named, IsNameOf
      <3> QED
        BY <3>1, <3>2, <3>3, <3>4 DEF Named
    <2>10. /\ cookies' \subseteq Nat \ {0} /\ forms' \subseteq Form /\ started' \in Nat
      BY <1>3, <2>3
    <2> QED
      BY <2>3, <2>5, <2>6, <2>7, <2>8, <2>9, <2>10, Renewed
  <1> QED
    BY <1>5

(* The version and the page have the same author.                          *)
LEMMA UpdatePageVersionKept ==
    ASSUME UserInv, NEW t \in Threads, UpdatePageVersion(t), cut' = cut
    PROVE  UserInv'
  <1>1. PICK r : r = rq[t]
    OBVIOUS
  <1>2. /\ Held(r) /\ r \in Request /\ Types
        /\ Serial => /\ UserKeys /\ PageKeys /\ ContentKeys /\ Apart
                     /\ SeenSound(r) /\ HandSound(r) /\ CheckSound(r) /\ RenameSound(r)
                     /\ WriterSound(r) /\ PasswordSound(r)
                     /\ ~cut => Named(r)
    BY <1>1, Basics DEF Sound
  <1>3. /\ users \subseteq User /\ pages \subseteq AuthoredPage
        /\ contents \subseteq AuthoredContent /\ nextGuid \in Nat \ {0} /\ cookies \subseteq Nat \ {0} /\ forms \subseteq Form
        /\ started \in Nat /\ rq \in [Threads -> Request]
    BY <1>2 DEF Types, TablesTypeOK
  <1>4. r.pc = "page:version"
    BY <1>1 DEF At, UpdatePageVersion
  <1>5. UserInv'
    <2>1. PICK q \in r.pages : AddNewPageContentVersion(q, r.author) /\ Return(t)
      BY <1>1 DEF UpdatePageVersion, AddNewPageContentVersion, Return
    <2>c. PICK c : c = [id |-> nextGuid, pageId |-> q.id, editedBy |-> r.author]
      OBVIOUS
    <2>p. PICK p : p = [q EXCEPT !.modifiedBy = r.author]
      OBVIOUS
    <2>w. PICK w : /\ w = p /\ w \in AuthoredPage /\ w.id = q.id
                   /\ w.createdBy = q.createdBy /\ w.modifiedBy = r.author
      BY <1>2, <2>1, <2>p DEF Request, AuthoredPage
    <2>2. PICK r2 : r2 = Idle
      OBVIOUS
    <2>3. /\ rq' = [rq EXCEPT ![t] = r2]
          /\ pages' = {IF v.id = w.id THEN w ELSE v : v \in pages}
          /\ contents' = contents \cup {c}
          /\ nextGuid' = nextGuid + 1
          /\ UNCHANGED <<users, cookies, forms, started>>
      <3>1. AddNewPageContentVersion(q, r.author) /\ Return(t)
        BY <2>1
      <3>2. pages' = {IF v.id = w.id THEN w ELSE v : v \in pages}
        BY <2>p, <2>w, <3>1 DEF AddNewPageContentVersion
      <3>3. contents' = contents \cup {c} /\ nextGuid' = nextGuid + 1 /\ UNCHANGED users
        BY <2>c, <3>1 DEF AddNewPageContentVersion
      <3> QED
        BY <2>2, <3>1, <3>2, <3>3 DEF UpdatePageVersion, Return
    <2>12. /\ \A x \in pages' : x = w \/ (x \in pages /\ x.id # w.id)
           /\ \A v \in pages : v.id # w.id => v \in pages'
           /\ (\E v \in pages : v.id = w.id) => w \in pages'
           /\ \A x \in pages' : \E v \in pages : v.id = x.id
           /\ (\A u, v \in pages : u.id = v.id => u = v) =>
                 \A u, v \in pages' : u.id = v.id => u = v
      BY <2>3
    <2>11. c \in AuthoredContent /\ c.id = nextGuid /\ c.editedBy = r.author
      BY <1>2, <1>3, <2>1, <2>c DEF Request, AuthoredPage, AuthoredContent
    <2>13. Serial => Known(r.author) /\ Known(w.createdBy)
      BY <1>2, <1>4, <2>1, <2>w DEF WriterSound, PageSteps
    <2>14. Serial /\ ~cut => IsNameOf(r.author) /\ IsNameOf(w.createdBy)
      BY <1>2, <1>4, <2>1, <2>w DEF Named, WriterNamed
    <2>15. /\ \A u \in users : u.id \in Nat
           /\ \A x \in pages : x.id \in Nat /\ x.createdBy.who \in Nat /\ x.modifiedBy.who \in Nat
           /\ \A d \in contents : d.id \in Nat /\ d.editedBy.who \in Nat
           /\ r.author.who \in Nat /\ w.createdBy.who \in Nat
      BY <1>2, <1>3, <2>w DEF User, AuthoredPage, AuthoredContent, Author, Request
    <2>16. nextGuid' \in Nat \ {0} /\ \A n \in Nat : n < nextGuid => n < nextGuid' /\ n # nextGuid
      BY <1>3, <2>3
    <2>17. Serial /\ ~cut => /\ \A d \in contents : IsNameOf(d.editedBy)
                             /\ \A x \in pages : IsNameOf(x.createdBy) /\ IsNameOf(x.modifiedBy)
      BY <1>2, <1>4, NamesSettled DEF RenameSteps
    <2>4. Held(r2)
      BY <2>2, IdleHeld
    <2>6. TablesTypeOK'
      BY <1>3, <2>3, <2>11, <2>12, <2>16, <2>w DEF TablesTypeOK
    <2>7. ASSUME Serial PROVE UserKeys' /\ PageKeys' /\ ContentKeys' /\ Apart'
      <3>1. UserKeys'
        BY <1>2, <1>3, <1>4, <2>1, <2>3, <2>2, <2>7, <2>15, <2>16 DEF UserKeys
      <3>2. PageKeys'
        <4>1. \A x, y \in pages' : x.id = y.id => x = y
          BY <1>2, <2>7, <2>12 DEF PageKeys
        <4>2. \A x \in pages' : /\ x.id < nextGuid' /\ x.createdBy.who < nextGuid'
                                /\ x.modifiedBy.who < nextGuid'
          <5>1. \A x \in pages : /\ x.id < nextGuid' /\ x.createdBy.who < nextGuid'
                                 /\ x.modifiedBy.who < nextGuid'
            BY <1>2, <2>7, <2>15, <2>16 DEF PageKeys, Known
          <5>2. w.createdBy.who < nextGuid' /\ w.modifiedBy.who < nextGuid'
            BY <2>7, <2>13, <2>15, <2>16, <2>w DEF Known
          <5> QED
            BY <2>12, <2>w, <5>1, <5>2
        <4> QED
          BY <4>1, <4>2 DEF PageKeys, Known
      <3>3. ContentKeys'
        BY <1>2, <1>3, <1>4, <2>1, <2>3, <2>2, <2>7, <2>11, <2>13, <2>15, <2>16
        DEF ContentKeys, Known
      <3>4. Apart'
        BY <1>2, <1>3, <1>4, <2>1, <2>3, <2>2, <2>7 DEF Apart
      <3> QED
        BY <3>1, <3>2, <3>3, <3>4
    <2>8. ASSUME Serial PROVE Sound(r2)'
      BY <2>2, IdleStaysSound
    <2>9. ASSUME Serial, ~cut PROVE Named(r2)'
      <3>1. ContentsNamed(r2)'
        BY <1>2, <1>3, <1>4, <2>1, <2>3, <2>2, <2>9, <2>11, <2>14, <2>17
        DEF ContentsNamed, Named, Old, RenameSteps, IsNameOf
      <3>2. CreatedNamed(r2)'
        BY <1>2, <1>3, <1>4, <2>1, <2>3, <2>2, <2>9, <2>12, <2>14, <2>17, <2>w
        DEF CreatedNamed, Named, Old, RenameSteps, IsNameOf
      <3>3. ModifiedNamed(r2)'
        BY <1>2, <1>3, <1>4, <2>1, <2>3, <2>2, <2>9, <2>12, <2>14, <2>17, <2>w
        DEF ModifiedNamed, Named, Old, RenameSteps, IsNameOf
      <3>4. WriterNamed(r2)'
        BY <2>2, IdleStaysSound
      <3> QED
        BY <3>1, <3>2, <3>3, <3>4 DEF Named
    <2>10. /\ cookies' \subseteq Nat \ {0} /\ forms' \subseteq Form /\ started' \in Nat
      BY <1>3, <2>3
    <2> QED
      BY <2>3, <2>4, <2>6, <2>7, <2>8, <2>9, <2>10, Renewed
  <1> QED
    BY <1>5

(* A new page has two keys nothing has.                                    *)
LEMMA AddPageKept ==
    ASSUME UserInv, NEW t \in Threads, AddPage(t), cut' = cut
    PROVE  UserInv'
  <1>1. PICK r : r = rq[t]
    OBVIOUS
  <1>2. /\ Held(r) /\ r \in Request /\ Types
        /\ Serial => /\ UserKeys /\ PageKeys /\ ContentKeys /\ Apart
                     /\ SeenSound(r) /\ HandSound(r) /\ CheckSound(r) /\ RenameSound(r)
                     /\ WriterSound(r) /\ PasswordSound(r)
                     /\ ~cut => Named(r)
    BY <1>1, Basics DEF Sound
  <1>3. /\ users \subseteq User /\ pages \subseteq AuthoredPage
        /\ contents \subseteq AuthoredContent /\ nextGuid \in Nat \ {0} /\ cookies \subseteq Nat \ {0} /\ forms \subseteq Form
        /\ started \in Nat /\ rq \in [Threads -> Request]
    BY <1>2 DEF Types, TablesTypeOK
  <1>4. r.pc = "page:add"
    BY <1>1 DEF At, AddPage
  <1>5. UserInv'
    <2>1. AddNewPage(r.author) /\ Return(t)
      BY <1>1 DEF AddPage, AddNewPage, Return
    <2>p. PICK p : p = [id |-> nextGuid, createdBy |-> r.author, modifiedBy |-> r.author]
      OBVIOUS
    <2>c. PICK c : c = [id |-> nextGuid + 1, pageId |-> nextGuid, editedBy |-> r.author]
      OBVIOUS
    <2>2. PICK r2 : r2 = Idle
      OBVIOUS
    <2>3. /\ rq' = [rq EXCEPT ![t] = r2]
          /\ pages' = pages \cup {p}
          /\ contents' = contents \cup {c}
          /\ nextGuid' = nextGuid + 2
          /\ UNCHANGED <<users, cookies, forms, started>>
      BY <1>1, <2>1, <2>2, <2>p, <2>c DEF AddPage, tables, AddNewPage, Return
    <2>11. /\ c \in AuthoredContent /\ c.id = nextGuid + 1 /\ c.editedBy = r.author
           /\ p \in AuthoredPage /\ p.id = nextGuid
           /\ p.createdBy = r.author /\ p.modifiedBy = r.author
      BY <1>2, <1>3, <2>p, <2>c DEF Request, AuthoredPage, AuthoredContent
    <2>13. Serial => Known(r.author)
      BY <1>2, <1>4 DEF WriterSound, PageSteps
    <2>14. Serial /\ ~cut => IsNameOf(r.author)
      BY <1>2, <1>4 DEF Named, WriterNamed
    <2>15. /\ \A u \in users : u.id \in Nat
           /\ \A q \in pages : q.id \in Nat /\ q.createdBy.who \in Nat /\ q.modifiedBy.who \in Nat
           /\ \A d \in contents : d.id \in Nat /\ d.editedBy.who \in Nat
           /\ r.author.who \in Nat
      BY <1>2, <1>3 DEF User, AuthoredPage, AuthoredContent, Author, Request
    <2>16. /\ nextGuid' \in Nat \ {0} /\ nextGuid < nextGuid' /\ nextGuid + 1 < nextGuid'
           /\ \A n \in Nat : n < nextGuid => n < nextGuid' /\ n # nextGuid /\ n # nextGuid + 1
      BY <1>3, <2>3
    <2>17. Serial /\ ~cut => /\ \A d \in contents : IsNameOf(d.editedBy)
                             /\ \A q \in pages : IsNameOf(q.createdBy) /\ IsNameOf(q.modifiedBy)
      BY <1>2, <1>4, NamesSettled DEF RenameSteps
    <2>4. Held(r2)
      BY <2>2, IdleHeld
    <2>6. TablesTypeOK'
      BY <1>3, <2>3, <2>11, <2>16 DEF TablesTypeOK
    <2>7. ASSUME Serial PROVE UserKeys' /\ PageKeys' /\ ContentKeys' /\ Apart'
      <3>1. UserKeys'
        BY <1>2, <1>3, <1>4, <2>1, <2>3, <2>2, <2>7, <2>15, <2>16 DEF UserKeys
      <3>2. PageKeys'
        BY <1>2, <1>3, <1>4, <2>1, <2>3, <2>2, <2>7, <2>11, <2>13, <2>15, <2>16
        DEF PageKeys, Known
      <3>3. ContentKeys'
        BY <1>2, <1>3, <1>4, <2>1, <2>3, <2>2, <2>7, <2>11, <2>13, <2>15, <2>16
        DEF ContentKeys, Known
      <3>4. Apart'
        BY <1>2, <1>3, <1>4, <2>1, <2>3, <2>2, <2>7 DEF Apart
      <3> QED
        BY <3>1, <3>2, <3>3, <3>4
    <2>8. ASSUME Serial PROVE Sound(r2)'
      BY <2>2, IdleStaysSound
    <2>9. ASSUME Serial, ~cut PROVE Named(r2)'
      <3>1. ContentsNamed(r2)'
        BY <1>2, <1>3, <1>4, <2>1, <2>3, <2>2, <2>9, <2>11, <2>14, <2>17
        DEF ContentsNamed, Named, Old, RenameSteps, IsNameOf
      <3>2. CreatedNamed(r2)'
        BY <1>2, <1>3, <1>4, <2>1, <2>3, <2>2, <2>9, <2>11, <2>14, <2>17
        DEF CreatedNamed, Named, Old, RenameSteps, IsNameOf
      <3>3. ModifiedNamed(r2)'
        BY <1>2, <1>3, <1>4, <2>1, <2>3, <2>2, <2>9, <2>11, <2>14, <2>17
        DEF ModifiedNamed, Named, Old, RenameSteps, IsNameOf
      <3>4. WriterNamed(r2)'
        BY <2>2, IdleStaysSound
      <3> QED
        BY <3>1, <3>2, <3>3, <3>4 DEF Named
    <2>10. /\ cookies' \subseteq Nat \ {0} /\ forms' \subseteq Form /\ started' \in Nat
      BY <1>3, <2>3
    <2> QED
      BY <2>3, <2>4, <2>6, <2>7, <2>8, <2>9, <2>10, Renewed
  <1> QED
    BY <1>5

-----------------------------------------------------------------------------
(* Every step.                                                             *)
LEMMA StepKept ==
    ASSUME UserInv, NEW t \in Threads, Arrive(t) \/ GoOn(t), cut' = cut
    PROVE  UserInv'
  <1>1. CASE Arrive(t)
    BY <1>1, ArriveKept
  <1>2. CASE SaveUser(t) \/ DeleteUser(t) \/ ChangePassword(t)
    BY <1>2, SaveUserKept, DeleteUserKept, ChangePasswordKept
  <1>3. CASE \/ VerifyNewUsernameIsNotInUse(t) \/ VerifyNewEmailIsNotInUse(t)
             \/ AddUserFind(t) \/ InsertNewUser(t)
    BY <1>3, VerifyNewUsernameKept, VerifyNewEmailKept, AddUserFindKept, InsertNewUserKept
  <1>4. CASE \/ UpdateUserCheckEmail(t) \/ UpdateUserCheckUsername(t)
             \/ UpdateUserLoad(t) \/ UpdateUserDetails(t)
    BY <1>4, CheckEmailKept, CheckUsernameKept, LoadKept, DetailsKept
  <1>5. CASE \/ UpdateUserFindEmail(t) \/ UpdateUserSaveEmail(t)
             \/ UpdateUserFindUsername(t) \/ UpdateUserSaveUsername(t)
    BY <1>5, FindEmailKept, SaveEmailKept, FindUsernameKept, SaveUsernameKept
  <1>6. CASE \/ UpdateUserContents(t) \/ UpdateUserEditedBy(t)
             \/ UpdateUserPages(t) \/ UpdateUserCreatedBy(t)
             \/ UpdateUserModified(t) \/ UpdateUserModifiedBy(t)
    BY <1>6, ContentsKept, EditedByKept, PagesKept, CreatedByKept, ModifiedKept, ModifiedByKept
  <1>7. CASE \/ CurrentUsername(t) \/ AddPage(t)
             \/ UpdatePageLoad(t) \/ UpdatePageSave(t) \/ UpdatePageVersion(t)
    BY <1>7, CurrentUsernameKept, AddPageKept, UpdatePageLoadKept, UpdatePageSaveKept,
       UpdatePageVersionKept
  <1> QED
    BY <1>1, <1>2, <1>3, <1>4, <1>5, <1>6, <1>7 DEF GoOn, UpdateUserOn

(* Forms are opened, and nothing else is touched.                          *)
LEMMA TablesKept ==
    ASSUME UserInv, UNCHANGED <<users, pages, contents, nextGuid>>
    PROVE  /\ TablesTypeOK'
           /\ Serial => UserKeys' /\ PageKeys' /\ ContentKeys' /\ Apart'
  <1>1. TablesTypeOK'
    BY DEF UserInv, Types, TablesTypeOK
  <1>2. Serial => UserKeys /\ PageKeys /\ ContentKeys /\ Apart
    BY DEF UserInv, SerialInv
  <1> QED
    BY <1>1, <1>2 DEF UserKeys, PageKeys, ContentKeys, Apart, Known

(* A form that is opened, or nothing at all, changes no table.             *)
LEMMA FormsKept ==
    ASSUME UserInv, UNCHANGED <<users, pages, contents, nextGuid, cookies, rq, started, cut>>,
           forms' \subseteq Form
    PROVE  UserInv'
  <1>1. Types'
    BY TablesKept DEF UserInv, Types, Held
  <1>2. ASSUME Serial, NEW r \in Present, Sound(r) PROVE Sound(r)'
    <2>1. SeenSound(r)' /\ HandSound(r)'
      BY <1>2 DEF Sound, SeenSound, HandSound
    <2>2. CheckSound(r)' /\ RenameSound(r)'
      BY <1>2 DEF Sound, CheckSound, RenameSound, GetUserByEmail, GetUserByUsername
    <2>3. WriterSound(r)' /\ PasswordSound(r)'
      BY <1>2 DEF Sound, WriterSound, PasswordSound, Known
    <2> QED
      BY <2>1, <2>2, <2>3 DEF Sound
  <1>3. ASSUME NEW r \in Present, Named(r) PROVE Named(r)'
    BY <1>3 DEF Named, ContentsNamed, CreatedNamed, ModifiedNamed, WriterNamed, IsNameOf, Old
  <1>4. Present' = Present
    BY DEF Present
  <1>5. SerialInv'
    BY <1>2, <1>3, <1>4, TablesKept DEF UserInv, SerialInv, Serial
  <1> QED
    BY <1>1, <1>5 DEF UserInv

LEMMA OpenFormKept == ASSUME UserInv, OpenForm PROVE UserInv'
  <1>1. users \subseteq User /\ forms \subseteq Form
    BY DEF UserInv, Types, TablesTypeOK
  <1>2. PICK u \in users :
           forms' = forms \cup {[id |-> u.id, email |-> u.email, username |-> u.username]}
    BY DEF OpenForm
  <1>3. [id |-> u.id, email |-> u.email, username |-> u.username] \in Form
    BY <1>1 DEF User, Form
  <1> QED
    BY <1>1, <1>2, <1>3, FormsKept DEF OpenForm, tables

(* No request is left after a recycle, and what one has left undone is     *)
(* excused.                                                                *)
LEMMA RecycleKept == ASSUME UserInv, Recycle PROVE UserInv'
  <1>1. /\ UNCHANGED <<users, pages, contents, nextGuid, cookies, forms, started>>
        /\ rq' = [t \in Threads |-> Idle] /\ cut' = TRUE
    BY DEF Recycle, tables
  <1>2. Types'
    <2>1. rq' \in [Threads -> Request] /\ \A t \in Threads : Held(rq'[t])
      BY <1>1, IdleHeld DEF Held
    <2>2. TablesTypeOK'
      BY <1>1, TablesKept
    <2> QED
      BY <1>1, <2>1, <2>2 DEF UserInv, Types, Held
  <1>3. Present' = {Idle}
    BY <1>1 DEF Present
  <1>4. SerialInv'
    BY <1>1, <1>3, TablesKept, IdleStaysSound DEF SerialInv, Serial
  <1> QED
    BY <1>2, <1>4 DEF UserInv

-----------------------------------------------------------------------------
(* The wiki as it is seeded.                                               *)
LEMMA Seeds ==
    /\ Len(SeedUsers) \in Nat /\ DOMAIN SeedUsers = 1..Len(SeedUsers)
    /\ Len(SeedPages) \in Nat /\ DOMAIN SeedPages = 1..Len(SeedPages)
    /\ \A i \in DOMAIN SeedUsers : /\ i \in Nat \ {0} /\ i <= Len(SeedUsers)
                                   /\ SeedUsers[i] \in User /\ SeedUsers[i].id = i
    /\ \A i \in DOMAIN SeedPages :
          /\ i \in Nat \ {0} /\ i <= Len(SeedPages)
          /\ SeedGuid(i) \in Nat \ {0} /\ SeedGuid(i) > Len(SeedUsers)
          /\ SeedGuid(i) <= SeedGuid(Len(SeedPages))
          /\ SeedPages[i] \in DOMAIN SeedUsers
          /\ SeedAuthor(i) \in Author
    /\ \A i, j \in DOMAIN SeedPages : SeedGuid(i) = SeedGuid(j) => i = j
    /\ SeedGuid(Len(SeedPages)) \in Nat /\ SeedGuid(Len(SeedPages)) >= Len(SeedUsers)
  <1>1. /\ Len(SeedUsers) \in Nat /\ DOMAIN SeedUsers = 1..Len(SeedUsers)
        /\ Len(SeedPages) \in Nat /\ DOMAIN SeedPages = 1..Len(SeedPages)
    BY UserAssumption
  <1>2. /\ \A i \in DOMAIN SeedUsers : SeedUsers[i] \in User /\ SeedUsers[i].id = i
        /\ \A i \in DOMAIN SeedPages : SeedPages[i] \in DOMAIN SeedUsers
    BY UserAssumption
  <1>3. \A i \in DOMAIN SeedPages : SeedAuthor(i) \in Author
    BY <1>1, <1>2 DEF SeedAuthor, Author, User
  <1>4. /\ \A i \in DOMAIN SeedUsers : i \in Nat \ {0} /\ i <= Len(SeedUsers)
        /\ \A i \in DOMAIN SeedPages : i \in Nat \ {0} /\ i <= Len(SeedPages)
    BY <1>1
  <1>5. /\ \A i \in DOMAIN SeedPages :
             /\ SeedGuid(i) \in Nat \ {0} /\ SeedGuid(i) > Len(SeedUsers)
             /\ SeedGuid(i) <= SeedGuid(Len(SeedPages))
        /\ \A i, j \in DOMAIN SeedPages : SeedGuid(i) = SeedGuid(j) => i = j
        /\ SeedGuid(Len(SeedPages)) \in Nat /\ SeedGuid(Len(SeedPages)) >= Len(SeedUsers)
    BY <1>1, <1>4 DEF SeedGuid
  <1> QED
    BY <1>1, <1>2, <1>3, <1>4, <1>5

(* They have their keys, and their authors' names.                         *)
LEMMA SeedsAreSound ==
    ASSUME TablesInit
    PROVE  /\ TablesTypeOK
           /\ UserKeys /\ PageKeys /\ ContentKeys /\ Apart
           /\ \A c \in contents : IsNameOf(c.editedBy)
           /\ \A p \in pages : IsNameOf(p.createdBy) /\ IsNameOf(p.modifiedBy)
  <1> DEFINE last == SeedGuid(Len(SeedPages))
  <1>1. \A u \in users : \E i \in DOMAIN SeedUsers : u = SeedUsers[i]
    BY DEF TablesInit
  <1>2. \A p \in pages : \E i \in DOMAIN SeedPages :
           p = [id |-> SeedGuid(i), createdBy |-> SeedAuthor(i), modifiedBy |-> SeedAuthor(i)]
    BY DEF TablesInit
  <1>3. \A c \in contents : \E i \in DOMAIN SeedPages :
           c = [id |-> SeedGuid(i) + 1, pageId |-> SeedGuid(i), editedBy |-> SeedAuthor(i)]
    BY DEF TablesInit
  <1>4. nextGuid = last + 2 /\ last \in Nat
    BY Seeds DEF TablesInit
  <1>5. TablesTypeOK
    <2>1. users \subseteq User
      BY <1>1, Seeds
    <2>2. pages \subseteq AuthoredPage
      BY <1>2, Seeds DEF AuthoredPage
    <2>3. contents \subseteq AuthoredContent
      <3>1. \A i \in DOMAIN SeedPages : SeedGuid(i) + 1 \in Nat \ {0}
        BY Seeds
      <3> QED
        BY <1>3, <3>1, Seeds DEF AuthoredContent
    <2>4. nextGuid \in Nat \ {0}
      BY <1>4
    <2> QED
      BY <2>1, <2>2, <2>3, <2>4 DEF TablesTypeOK
  <1>6. \A i \in DOMAIN SeedPages :
           /\ SeedAuthor(i).who \in DOMAIN SeedUsers /\ SeedAuthor(i).who < nextGuid
           /\ SeedAuthor(i).name = SeedUsers[SeedAuthor(i).who].username
           /\ IsNameOf(SeedAuthor(i))
    <2>1. \A i \in DOMAIN SeedPages :
             /\ SeedAuthor(i).who \in DOMAIN SeedUsers
             /\ SeedAuthor(i).name = SeedUsers[SeedAuthor(i).who].username
      BY Seeds DEF SeedAuthor
    <2>2. \A i \in DOMAIN SeedUsers : i < nextGuid
      <3>1. last >= Len(SeedUsers) /\ Len(SeedUsers) \in Nat
        BY Seeds
      <3>2. \A i \in DOMAIN SeedUsers : i \in Nat /\ i <= Len(SeedUsers)
        BY Seeds
      <3> QED
        BY <1>4, <3>1, <3>2
    <2>3. ASSUME NEW i \in DOMAIN SeedPages PROVE IsNameOf(SeedAuthor(i))
      <3>1. ASSUME NEW u \in users, u.id = SeedAuthor(i).who
            PROVE  u = SeedUsers[SeedAuthor(i).who]
        BY <1>1, <3>1, Seeds
      <3> QED
        BY <2>1, <3>1 DEF IsNameOf
    <2> QED
      BY <2>1, <2>2, <2>3
  <1>7. UserKeys
    <2>1. \A u, v \in users : u.id = v.id => u = v
      BY <1>1, Seeds
    <2>2. last >= Len(SeedUsers) /\ Len(SeedUsers) \in Nat
      BY Seeds
    <2>3. \A u \in users : u.id \in Nat /\ u.id <= Len(SeedUsers)
      BY <1>1, Seeds
    <2> QED
      BY <1>4, <2>1, <2>2, <2>3 DEF UserKeys
  <1>8. \A i \in DOMAIN SeedPages : /\ SeedGuid(i) < nextGuid /\ SeedGuid(i) + 1 < nextGuid
                                    /\ SeedGuid(i) \in Nat
    <2>1. \A i \in DOMAIN SeedPages : SeedGuid(i) \in Nat /\ SeedGuid(i) <= last
      BY Seeds
    <2> HIDE DEF last
    <2> QED
      BY <1>4, <2>1
  <1>9. PageKeys
    <2>1. \A p, q \in pages : p.id = q.id => p = q
      BY <1>2, Seeds
    <2>2. \A p \in pages : p.id < nextGuid /\ Known(p.createdBy) /\ Known(p.modifiedBy)
      BY <1>2, <1>6, <1>8 DEF Known
    <2> QED
      BY <2>1, <2>2 DEF PageKeys
  <1>10. ContentKeys
    <2>1. \A i, j \in DOMAIN SeedPages : SeedGuid(i) + 1 = SeedGuid(j) + 1 => i = j
      <3>1. \A m, n \in Nat : m + 1 = n + 1 => m = n
        OBVIOUS
      <3> QED
        BY <1>8, <3>1, Seeds
    <2>2. \A c, d \in contents : c.id = d.id => c = d
      BY <1>3, <2>1
    <2>3. \A c \in contents : c.id < nextGuid /\ Known(c.editedBy)
      BY <1>3, <1>6, <1>8 DEF Known
    <2> QED
      BY <2>2, <2>3 DEF ContentKeys
  <1>11. Apart
    BY <1>1, UserAssumption DEF Apart
  <1>12. /\ \A c \in contents : IsNameOf(c.editedBy)
         /\ \A p \in pages : IsNameOf(p.createdBy) /\ IsNameOf(p.modifiedBy)
    BY <1>2, <1>3, <1>6
  <1> QED
    BY <1>5, <1>7, <1>9, <1>10, <1>11, <1>12

(* The invariant, to start with                                            *)
LEMMA UserInvInit == ASSUME Init PROVE UserInv
  <1>1. Types
    <2>1. TablesTypeOK
      BY SeedsAreSound DEF Init
    <2>2. cookies \subseteq Nat \ {0}
      BY Seeds, RequestAssumption DEF Init
    <2>3. rq \in [Threads -> Request] /\ \A t \in Threads : Held(rq[t])
      BY IdleHeld DEF Init, Held
    <2> QED
      BY <2>1, <2>2, <2>3 DEF Init, Types
  <1>2. Present = {Idle}
    BY DEF Present, Init
  <1>3. Named(Idle)
    BY SeedsAreSound, IdleSound DEF Init, Named, ContentsNamed, CreatedNamed, ModifiedNamed
  <1>4. SerialInv
    BY <1>2, <1>3, SeedsAreSound, IdleSound DEF Init, SerialInv
  <1> QED
    BY <1>1, <1>4 DEF UserInv

LEMMA UserInvNext == ASSUME UserInv, [Next]_vars PROVE UserInv'
  <1>1. CASE (\E t \in Threads : Arrive(t) \/ GoOn(t)) /\ UNCHANGED cut
    BY <1>1, StepKept
  <1>2. CASE OpenForm
    BY <1>2, OpenFormKept
  <1>3. CASE Recycle
    BY <1>3, RecycleKept
  <1>4. CASE UNCHANGED vars
    <2>1. forms \subseteq Form
      BY DEF UserInv, Types
    <2> QED
      BY <1>4, <2>1, FormsKept DEF vars, tables
  <1> QED
    BY <1>1, <1>2, <1>3, <1>4 DEF Next, Finished

(* The invariant, of any accounts and pages to start with and any number   *)
(* of threads, requests and forms.                                         *)
THEOREM AccountsInvariant == Spec => []UserInv
  <1>1. Init => UserInv
    BY UserInvInit
  <1>2. UserInv /\ [Next]_vars => UserInv'
    BY UserInvNext
  <1> QED
    BY <1>1, <1>2, PTL DEF Spec

-----------------------------------------------------------------------------
(* Whatever requests run and wherever they are cut short, the tables, the  *)
(* cookies, the open forms and the requests have their types.              *)
THEOREM UserTypes == Spec => []TypeOK
  <1>1. UserInv => TypeOK
    BY DEF UserInv, Types, TypeOK
  <1> QED
    BY <1>1, AccountsInvariant, PTL

(* One request at a time, no two accounts share a name or an email:        *)
(* UserViewModel's queries, and UpdateUser's, are enough, however late a   *)
(* form is posted.                                                         *)
THEOREM AccountsStayDistinct == Spec => []AccountsAreDistinct
  <1>1. UserInv => AccountsAreDistinct
    BY DEF UserInv, SerialInv, Apart, AccountsAreDistinct
  <1> QED
    BY <1>1, AccountsInvariant, PTL

(* One request at a time, when none runs and none was cut short, every     *)
(* version and both columns of every page bear the name their author has   *)
(* now: UpdateUser's two loops reach all rows, and no row of another.      *)
THEOREM AuthorshipFollows == Spec => []AuthorshipFollowsRenames
  <1>1. ASSUME UserInv, Serial, Quiet, ~cut
        PROVE  /\ \A c \in contents : IsNameOf(c.editedBy)
               /\ \A p \in pages : IsNameOf(p.createdBy) /\ IsNameOf(p.modifiedBy)
    <2>1. PICK r \in Present : r.pc = "idle"
      BY <1>1, IdleHeld DEF Present, Quiet, At
    <2>2. Named(r)
      BY <1>1, <2>1 DEF UserInv, SerialInv
    <2> QED
      BY <2>1, <2>2, NamesSettled DEF RenameSteps
  <1>2. UserInv => AuthorshipFollowsRenames
    BY <1>1 DEF AuthorshipFollowsRenames
  <1> QED
    BY <1>2, AccountsInvariant, PTL

(* The password is set of the account that has the email that was posted   *)
(* with it: EditUser looks it up by the new email, and nobody else has it. *)
LEMMA PasswordIsSet ==
    ASSUME UserInv, Serial, NEW t \in Threads, rq[t].op = "edituser",
           SaveUser(t) \/ ChangePassword(t)
    PROVE  SetsPostedPassword(t)
  <1>1. PICK r : r = rq[t]
    OBVIOUS
  <1>2. /\ r \in Request /\ rq \in [Threads -> Request]
        /\ UserKeys /\ Apart /\ SeenSound(r) /\ HandSound(r) /\ PasswordSound(r)
        /\ r.op = "edituser"
    BY <1>1, Basics DEF Types, Sound
  <1>3. SUFFICES ASSUME rq'[t].pc = "idle", r.model.password # NoName,
                        NEW u \in users', u.id = r.model.id, u.email = r.model.newEmail
                 PROVE  u.password = r.model.password
    BY <1>1 DEF SetsPostedPassword
  <1>4. CASE SaveUser(t)
    <2>1. r.pc = "save"
      BY <1>1, <1>4 DEF SaveUser, At
    <2>2. PICK w \in r.user : users' = {IF v.id = w.id THEN w ELSE v : v \in users}
      BY <1>1, <1>4 DEF SaveUser, UpdateUserRow
    <2>3. w.password = r.model.password /\ w.email = r.model.newEmail
      BY <1>2, <1>3, <2>1, <2>2 DEF PasswordSound
    <2>4. PICK v \in users : v.id = w.id /\ v.email = w.email
      BY <1>2, <2>1, <2>2 DEF HandSound
    <2>5. u = w \/ (u \in users /\ u.id # w.id)
      BY <1>3, <2>2
    <2> QED
      BY <1>2, <1>3, <2>3, <2>4, <2>5 DEF Apart
  <1>5. CASE ChangePassword(t)
    <2> DEFINE found == Tracked(r.seenUsers, GetUserByEmail(r.model.existingEmail))
    <2>1. /\ r.pc = "pwd:load" /\ users' = users
          /\ \/ found = {}
             \/ \E v \in found : Become(t, [r EXCEPT !.pc = "save",
                                              !.user = {[v EXCEPT !.password = r.model.password]}])
      BY <1>1, <1>3, <1>5 DEF ChangePassword, At, tables
    <2>2. found = GetUserByEmail(r.model.existingEmail)
      <3>1. r.seenUsers \in SUBSET users /\ GetUserByEmail(r.model.existingEmail) \in SUBSET users
        BY <1>2 DEF SeenSound, GetUserByEmail
      <3>2. \A x, y \in users : x.id = y.id => x = y
        BY <1>2 DEF UserKeys
      <3> QED
        BY <3>1, <3>2, TrackedIsFound
    <2>3. r.model.existingEmail = r.model.newEmail
      BY <1>2, <2>1 DEF PasswordSound
    <2>4. u \in found
      BY <1>3, <2>1, <2>2, <2>3 DEF GetUserByEmail
    <2> HIDE DEF found
    <2>5. PICK v \in found : Become(t, [r EXCEPT !.pc = "save",
                                          !.user = {[v EXCEPT !.password = r.model.password]}])
      BY <2>1, <2>4
    <2>6. PICK s : s = {[v EXCEPT !.password = r.model.password]}
      OBVIOUS
    <2>7. rq' = [rq EXCEPT ![t] = [r EXCEPT !.pc = "save", !.user = s]]
      BY <2>5, <2>6 DEF Become
    <2>8. rq'[t].pc = "save"
      BY <1>2, <2>7 DEF Request
    <2> QED
      BY <1>3, <2>8
  <1> QED
    BY <1>4, <1>5

THEOREM EditUserSetsItsPassword == Spec => EditUserSetsPassword
  <1>1. ASSUME UserInv, [Next]_vars
        PROVE  [Serial => \A t \in Threads :
                  rq[t].op = "edituser" /\ (SaveUser(t) \/ ChangePassword(t)) =>
                    SetsPostedPassword(t)]_vars
    BY <1>1, PasswordIsSet
  <1> QED
    BY <1>1, AccountsInvariant, PTL DEF Spec, EditUserSetsPassword

=============================================================================
