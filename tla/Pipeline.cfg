\* Two conversions at once, while plugins are switched and the tokens edited.
SPECIFICATION Spec
SYMMETRY ThreadSymmetry
CONSTANTS
    Threads = {t1, t2}
    Plugins <- TwoPlugins
    Before = {"p", "q"}
    After = {"p", "q"}
    NotCacheable = {"p"}
    Failing = {"p"}
    Tokens = {"good", "bad"}
    BadTokens = {"bad"}
    MaxConversions = 3
    MaxEdits = 1
    MaxFaults = 1
INVARIANTS TypeOK PluginsRunWhole TokensAreReplaced ObjectionsAreKept
