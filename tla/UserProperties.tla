---------------------------- MODULE UserProperties ----------------------------
(***************************************************************************)
(* What the accounts are expected to be like, stated over UserService.     *)
(***************************************************************************)
EXTENDS UserService

Serial == \A s, t \in Threads : s = t

(* No two accounts share a name or an email: nothing in the schema says    *)
(* so, it rests on the queries of UserViewModel, AddUser and UpdateUser    *)
(* before a save.  One request at a time they suffice, however old the     *)
(* forms are that are posted, and whatever request is cut short.           *)
AccountsAreDistinct ==
    Serial => \A u, v \in users :
      u.id # v.id => u.username # v.username /\ u.email # v.email

IsNameOf(author) ==
    \A u \in users : u.id = author.who => u.username = author.name

(* Whatever an account has written bears the name the account has now: a   *)
(* rename reaches every version and both columns of every page, and never  *)
(* what somebody else wrote, not even when a form posted late renames      *)
(* another account than the one it shows.                                  *)
AuthorshipFollowsRenames ==
    Serial /\ Quiet /\ ~cut =>
      /\ \A c \in contents : IsNameOf(c.editedBy)
      /\ \A p \in pages : IsNameOf(p.createdBy) /\ IsNameOf(p.modifiedBy)

(* When a request that came with a password ends, the account, if it has   *)
(* the email that came with it, has that password.                         *)
SetsPostedPassword(t) ==
    LET model == rq[t].model
    IN rq'[t].pc = "idle" /\ model.password # NoName =>
         \A u \in users' :
           (u.id = model.id /\ u.email = model.newEmail) => u.password = model.password

(* EditUser, which may change the email and the password at once, sets the *)
(* password of the account it has given the email to.                      *)
EditUserSetsPassword ==
    [][Serial => \A t \in Threads :
         rq[t].op = "edituser" /\ (SaveUser(t) \/ ChangePassword(t)) =>
           SetsPostedPassword(t)]_vars

=============================================================================
