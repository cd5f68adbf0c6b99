\* One request at a time: every call but RevertTo, on a page of two tags.
SPECIFICATION Spec
CONSTANTS
    Threads = {t1}
    MaxRequests = 4
    Ops = {"add", "update", "renametag", "delete", "get", "home", "list", "compare", "createindex"}
    Lists = {"pagesbytag", "alltags"}
    MaxPages = 2
    Titles = {"A", "B"}
    Tags = {"t", "homepage"}
    HomepageTag = "homepage"
    Users = {"editor"}
    Bodies = {"x", "y"}
    Seed <- TaggedSeed
    ForeignKey = FALSE
    CoarseClock = FALSE
    UseObjectCache = TRUE
    UncacheableBodies = {}
    SearchMayFail = FALSE
    IgnoreSearchIndexErrors = FALSE
    NewTags <- TagOnly
    NewLinks <- NoLinks
    Admins = {FALSE}
    Editors = {e1, e2}
    DatabaseMayFail = FALSE
INVARIANTS PageCacheIsCurrent ListCacheIsCurrent IndexNamesEachPageOnce DeletedPagesAreGone
