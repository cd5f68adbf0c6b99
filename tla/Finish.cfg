\* Two requests at once, of any kind: each comes to an end.
SPECIFICATION FairSpec
CONSTANTS
    Threads = {t1, t2}
    MaxRequests = 2
    Ops = {"add", "update", "revert", "renametag", "delete", "get", "home", "list", "compare", "clear",
           "createindex", "clearcache", "recycle"}
    Lists = {"pagesbytag", "createdby", "allpages"}
    MaxPages = 2
    Titles = {"A", "B"}
    Tags = {"homepage"}
    HomepageTag = "homepage"
    Users = {"editor"}
    Bodies = {"x"}
    Seed <- HomeSeed
    ForeignKey = TRUE
    CoarseClock = FALSE
    UseObjectCache = TRUE
    UncacheableBodies = {"x"}
    SearchMayFail = TRUE
    IgnoreSearchIndexErrors = TRUE
    NewTags <- NoTags
    NewLinks <- NoLinks
    Admins = {FALSE}
    Editors = {e1}
    DatabaseMayFail = TRUE
INVARIANTS TypeOK
PROPERTIES RequestsFinish ContentlessPagesAreExplained
