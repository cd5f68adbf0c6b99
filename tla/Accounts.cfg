\* One request at a time, forms that are posted late.
\* The process may stop in the middle of one.
SPECIFICATION Spec
CONSTANTS
    Threads = {t1}
    MaxRequests = 3
    MaxForms = 1
    NewPasswords = {"q"}
    LoggedIn = {1, 2}
    Ops = {"adduser", "signup", "activate", "login", "logout", "resetpassword",
           "completereset", "changepassword", "edituser", "profile", "delete",
           "toggleadmin", "toggleeditor", "addpage", "updatepage", "recycle"}
    Usernames = {"a", "b", "c"}
    Emails = {"e", "f", "g"}
    Passwords = {"p", "q"}
    MaxPages = 2
    SeedUsers <- TwoAccounts
    SeedPages <- PageOfFirst
INVARIANTS TypeOK AccountsAreDistinct AuthorshipFollowsRenames
PROPERTIES EditUserSetsPassword
