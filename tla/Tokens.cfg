\* Two conversions, one after the other, of a page that is not cached, and one
\* edit of the file of tokens.
SPECIFICATION Spec
CONSTANTS
    Threads = {t1}
    Plugins <- TwoPlugins
    Before = {}
    After = {"p"}
    NotCacheable = {"p"}
    Failing = {}
    Tokens = {"new"}
    BadTokens = {}
    MaxConversions = 2
    MaxEdits = 1
    MaxFaults = 0
PROPERTIES NewTokensNeedRestart
