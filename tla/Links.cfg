\* One request at a time on two pages that link to one another: renaming,
\* reverting, renaming a tag, reading.
SPECIFICATION Spec
CONSTANTS
    Threads = {t1}
    MaxRequests = 3
    Ops = {"update", "revert", "renametag", "get", "list", "compare"}
    Lists = {"pagesbytag"}
    MaxPages = 2
    Titles = {"A", "B", "C"}
    Tags = {"t", "homepage"}
    HomepageTag = "homepage"
    Users = {"editor"}
    Bodies = {"x"}
    Seed <- LinkedSeed
    ForeignKey = TRUE
    CoarseClock = FALSE
    UseObjectCache = TRUE
    UncacheableBodies = {}
    SearchMayFail = FALSE
    IgnoreSearchIndexErrors = FALSE
    NewTags <- NoTags
    NewLinks <- NoLinks
    Admins = {FALSE}
    Editors = {e1, e2}
    DatabaseMayFail = FALSE
INVARIANTS LinksResolve HistoryIsOrdered
