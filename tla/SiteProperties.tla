---------------------------- MODULE SiteProperties ----------------------------
(***************************************************************************)
(* What is expected of the settings and of the caches made from them.      *)
(*                                                                         *)
(* Requests that overlap may leave any of them wrong, for as long as the   *)
(* process lives: see SiteSettings.  What is stated here is that they do   *)
(* not go wrong without an overlap, and that the next request to save or   *)
(* clear them, alone, puts them right, whatever was left there.            *)
(***************************************************************************)
EXTENDS SiteSettings

Quiet == \A t \in Threads : At(t, "idle")

(* The cached menus, of every kind of user, are those of the settings that *)
(* were saved last.                                                        *)
MenusAreCurrent ==
    (Quiet /\ "menus" \in sound) => \A k \in Kinds : menus[k] \in {None, settings.menu}

(* The settings of a plugin that all requests share are the saved ones.    *)
PluginSettingsAreCurrent ==
    (Quiet /\ "plugin" \in sound) => cachedPlugin = 0 \/ objects[cachedPlugin] = plugin

Answers304(t) == At(t, "view:answer") /\ NotModified(t) /\ At(t, "idle")'

CopyIs(text, value, menu) == copy.text = text /\ copy.plugin = value /\ copy.menu = menu

(* A copy is ambiguous when it was sent in the very second that dates it:  *)
(* what is saved later in that second has the same date for the browser.   *)
Ambiguous == Second(copy.sent) <= copy.lastModified

(* A browser that is told its copy of the page has not been modified shows *)
(* the page, converted with the saved settings of the plugin, under the    *)
(* menu of the saved settings.                                             *)
CopyIsCurrent ==
    [][\A t \in Threads :
         (Answers304(t) /\ rq[t].alone /\ sound = Parts /\ ~Ambiguous) =>
            CopyIs(page.text, plugin, settings.menu)]_vars

=============================================================================
