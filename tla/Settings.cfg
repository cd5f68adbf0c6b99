\* Two requests at once save settings, edit a plugin, edit and view a page.
SPECIFICATION Spec
SYMMETRY ThreadSymmetry
CONSTANTS
    Threads = {t1, t2}
    MaxRequests = 3
    MaxFaults = 1
    Ops = {"savesettings", "editplugin", "clearcache", "savepage", "view"}
    Menus = {"m1", "m2"}
    Kinds = {"visitor", "editor"}
    TicksPerSecond = 2
    LastTick = 6
INVARIANTS TypeOK MenusAreCurrent PluginSettingsAreCurrent
PROPERTIES CopyIsCurrent
