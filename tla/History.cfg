\* Two editors save, revert and compare the versions of one page.
SPECIFICATION Spec
SYMMETRY ThreadSymmetry
CONSTANTS
    Threads = {t1, t2}
    MaxRequests = 3
    Ops = {"update", "revert", "get", "compare"}
    Lists = {}
    MaxPages = 1
    Titles = {"A"}
    Tags = {"homepage"}
    HomepageTag = "homepage"
    Users = {"editor"}
    Bodies = {"x", "y"}
    Seed <- HomeSeed
    ForeignKey = TRUE
    CoarseClock = TRUE
    UseObjectCache = TRUE
    UncacheableBodies = {}
    SearchMayFail = FALSE
    IgnoreSearchIndexErrors = FALSE
    NewTags <- HomeOnly
    NewLinks <- NoLinks
    Admins = {FALSE}
    Editors = {e1, e2}
    DatabaseMayFail = TRUE
INVARIANTS HistoryHasNoGaps ServedTextsWereSaved
