---------------------------- MODULE UserRepository ----------------------------
(***************************************************************************)
(* The table of users, and who the pages and their versions say wrote      *)
(* them: what the calls of IUserRepository do, and those of                *)
(* IPageRepository that a change of a user's name uses.                    *)
(*                                                                         *)
(* Abstracted: first and last names, times, everything about a page but    *)
(* its authors.  A password stands for its salted hash.  GUIDs, the keys   *)
(* of rows and of emails, are counters; 0 is no key.                       *)
(***************************************************************************)
EXTENDS Integers, Sequences

CONSTANTS
    Usernames,  \* user names
    Emails,     \* email addresses
    Passwords,  \* passwords
    MaxPages,   \* how many pages may be written (a bound)
    SeedUsers,  \* the accounts the wiki starts with, by their keys 1, 2, ...
    SeedPages   \* the keys of those that wrote the pages it starts with

NoName == ""

User == [id : Nat \ {0}, email : Emails, username : Usernames,
         password : Passwords, isAdmin : BOOLEAN, isEditor : BOOLEAN,
         isActivated : BOOLEAN, activationKey : Nat, resetKey : Nat]

ASSUME UserAssumption ==
    /\ NoName \notin Usernames \cup Emails \cup Passwords
    /\ MaxPages \in Nat
    /\ SeedUsers \in Seq(User)
    /\ \A i \in DOMAIN SeedUsers : SeedUsers[i].id = i
    /\ \A i, j \in DOMAIN SeedUsers :
         i # j => /\ SeedUsers[i].email # SeedUsers[j].email
                  /\ SeedUsers[i].username # SeedUsers[j].username
    /\ SeedPages \in Seq(DOMAIN SeedUsers)

(* The tables have the name; "who", the key of the account that wrote, is  *)
(* in no column and serves the properties.                                 *)
Author == [name : Usernames \cup {NoName}, who : Nat \ {0}]

AuthoredPage == [id : Nat \ {0}, createdBy : Author, modifiedBy : Author]

AuthoredContent == [id : Nat \ {0}, pageId : Nat \ {0}, editedBy : Author]

VARIABLES
    users,     \* the rows of roadkill_users
    pages,     \* the rows of roadkill_pages
    contents,  \* the rows of roadkill_pagecontent
    nextGuid   \* the next GUID

tables == <<users, pages, contents, nextGuid>>

TablesTypeOK ==
    /\ users \subseteq User
    /\ pages \subseteq AuthoredPage
    /\ contents \subseteq AuthoredContent
    /\ nextGuid \in Nat \ {0}

(* A page, with one version, of each of SeedPages. *)
SeedAuthor(i) == [name |-> SeedUsers[SeedPages[i]].username, who |-> SeedPages[i]]
SeedGuid(i) == Len(SeedUsers) + 2 * i

TablesInit ==
    /\ users = {SeedUsers[i] : i \in DOMAIN SeedUsers}
    /\ pages = {[id |-> SeedGuid(i), createdBy |-> SeedAuthor(i),
                 modifiedBy |-> SeedAuthor(i)] : i \in DOMAIN SeedPages}
    /\ contents = {[id |-> SeedGuid(i) + 1, pageId |-> SeedGuid(i),
                    editedBy |-> SeedAuthor(i)] : i \in DOMAIN SeedPages}
    /\ nextGuid = SeedGuid(Len(SeedPages)) + 2

-----------------------------------------------------------------------------
(* A unit of work keeps the rows it has read: a query finds them in the    *)
(* database, but answers with the ones it has.                             *)
Tracked(own, found) ==
    {r \in own : \E f \in found : f.id = r.id}
      \cup {f \in found : \A r \in own : r.id # f.id}

GetUserById(id) == {u \in users : u.id = id}

GetUserByEmail(email) == {u \in users : u.email = email}

GetUserByUsername(name) == {u \in users : u.username = name}

GetUserByUsernameOrEmail(name, email) ==
    GetUserByUsername(name) \cup GetUserByEmail(email)

GetUserByActivationKey(key) ==
    {u \in users : u.activationKey = key /\ ~u.isActivated}

GetUserByPasswordResetKey(key) == {u \in users : u.resetKey = key}

FindPageContentsEditedBy(name) == {c \in contents : c.editedBy.name = name}

FindPagesCreatedBy(name) == {p \in pages : p.createdBy.name = name}

FindPagesModifiedBy(name) == {p \in pages : p.modifiedBy.name = name}

-----------------------------------------------------------------------------
(* SaveOrUpdateUser of a user the unit of work has not read.  Its          *)
(* activation key, if it has one, is a GUID as well.                       *)
InsertUser(user, signup) ==
    /\ users' = users \cup
         {[user EXCEPT !.id = nextGuid,
                       !.activationKey = IF signup THEN nextGuid + 1 ELSE 0]}
    /\ nextGuid' = nextGuid + 2
    /\ UNCHANGED <<pages, contents>>

(* SaveOrUpdateUser of one that it has: every column is written, and a row *)
(* deleted meanwhile matches nothing.                                      *)
UpdateUserRow(user) ==
    /\ users' = {IF u.id = user.id THEN user ELSE u : u \in users}
    /\ UNCHANGED <<pages, contents, nextGuid>>

DeleteUserRow(user) ==
    /\ users' = {u \in users : u.id # user.id}
    /\ UNCHANGED <<pages, contents, nextGuid>>

AddNewPage(author) ==
    /\ pages' = pages \cup
         {[id |-> nextGuid, createdBy |-> author, modifiedBy |-> author]}
    /\ contents' = contents \cup
         {[id |-> nextGuid + 1, pageId |-> nextGuid, editedBy |-> author]}
    /\ nextGuid' = nextGuid + 2
    /\ UNCHANGED users

(* The version, and the page's column for who modified it last. *)
AddNewPageContentVersion(page, author) ==
    /\ contents' = contents \cup
         {[id |-> nextGuid, pageId |-> page.id, editedBy |-> author]}
    /\ pages' = {IF p.id = page.id THEN [page EXCEPT !.modifiedBy = author] ELSE p :
                    p \in pages}
    /\ nextGuid' = nextGuid + 1
    /\ UNCHANGED users

SaveOrUpdatePage(page) ==
    /\ pages' = {IF p.id = page.id THEN page ELSE p : p \in pages}
    /\ UNCHANGED <<users, contents, nextGuid>>

UpdatePageContent(content) ==
    /\ contents' = {IF c.id = content.id THEN content ELSE c : c \in contents}
    /\ UNCHANGED <<users, pages, nextGuid>>

=============================================================================
