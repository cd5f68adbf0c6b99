-------------------------- MODULE PipelineProperties --------------------------
(***************************************************************************)
(* What is expected of a conversion that has come to its end, before the   *)
(* page is put in the cache.                                               *)
(***************************************************************************)
EXTENDS TextPipeline

Converted(t) == At(t, "add")

(* A plugin that throws, or is switched on or off in the middle, takes     *)
(* nothing from the others: each of them has run before the markup is      *)
(* parsed, after it, and around the page, or, if it is off, in none of     *)
(* these places.  The three loops ask for the enabled plugins anew, of     *)
(* settings that others change meanwhile.                                  *)
PluginsRunWhole ==
    \A t \in Threads : Converted(t) =>
       \A p \in PluginSet \ (rq[t].threw \cup rq[t].switched) :
          /\ p \in rq[t].html.before <=> p \in enabled
          /\ p \in rq[t].html.after <=> p \in enabled
          /\ p \in rq[t].html.containers <=> p \in enabled

(* A conversion replaces no tokens but those in the file, however others   *)
(* that overlap it put their lists in the place of its own, if nobody      *)
(* edits the file meanwhile; and one that no other overlaps replaces them  *)
(* all: neither the list that is left from a conversion before it nor a    *)
(* token whose regex is bad makes a difference.  Of two at once, the first *)
(* may be left with a list that the second has just read and not prepared, *)
(* and replaces none.                                                      *)
TokensAreReplaced ==
    \A t \in Threads : Converted(t) =>
       /\ rq[t].fileKept => rq[t].html.tokens \subseteq file.tokens \ BadTokens
       /\ rq[t].undisturbed => rq[t].html.tokens = file.tokens \ BadTokens

(* A page that a plugin has changed after parsing is kept from the caches  *)
(* if the plugin says so, whatever the plugins that change it later say.   *)
ObjectionsAreKept ==
    \A t \in Threads : Converted(t) =>
       (rq[t].html.after \cap After \cap NotCacheable # {} => ~rq[t].isCacheable)

-----------------------------------------------------------------------------
(* What a comment and a document say, and the code does not do. *)

(* TextPluginRunner.BeforeParse: "Cacheable is true by default, so make    *)
(* sure if one plugin marks it as false the false value is kept."          *)
FalseValueIsKept ==
    \A t \in Threads : Converted(t) =>
       (rq[t].html.before \cap Before \cap NotCacheable # {} => ~rq[t].isCacheable)

(* The documentation of custom tokens: "You will need to restart the       *)
(* application by making a web.config change for any new tokens to show."  *)
(* Nothing restarts here, so the application, once it has its tokens, gets *)
(* no new ones.                                                            *)
NewTokensNeedRestart ==
    [][isTokensFileCached => tokens'.tokens \subseteq tokens.tokens]_tokens

=============================================================================
