\* One conversion, with a plugin that does not want the page to be cached.
SPECIFICATION Spec
CONSTANTS
    Threads = {t1}
    Plugins <- TwoPlugins
    Before = {"p"}
    After = {}
    NotCacheable = {"p"}
    Failing = {}
    Tokens = {"good"}
    BadTokens = {}
    MaxConversions = 1
    MaxEdits = 0
    MaxFaults = 0
INVARIANTS FalseValueIsKept
