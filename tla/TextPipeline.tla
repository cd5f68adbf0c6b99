----------------------------- MODULE TextPipeline -----------------------------
(***************************************************************************)
(* The conversion of a page's markup to HTML: MarkupConverter.ToHtml, with *)
(* TextPluginRunner and CustomTokenParser, by several requests at once.    *)
(*                                                                         *)
(* What they share are two things that look private.  The custom tokens    *)
(* are a static field, which each conversion reads from the file anew and  *)
(* then prepares; and "the enabled plugins" of a conversion is a query,    *)
(* asked again in each of its loops, of settings that an administrator's   *)
(* request changes in place.                                               *)
(*                                                                         *)
(* Of a text it is told which plugins and tokens have been at work on it;  *)
(* every plugin's token is in it.  The markup parser, the white list of    *)
(* tags and what the plugins write are left out, as is Jumbotron's         *)
(* conversion within the conversion.                                       *)
(***************************************************************************)
EXTENDS Naturals, Sequences, SequencesExt

CONSTANTS
    Threads,         \* requests that run at the same time
    Plugins,         \* the text plugins, in the order of the container
    Before, After,   \* those that change the text in BeforeParse, in AfterParse
    NotCacheable,    \* those whose IsCacheable is false
    Failing,         \* those that may throw
    Tokens,          \* custom tokens, of the file customvariables.xml
    BadTokens,       \* those whose regex does not parse
    MaxConversions,  \* how many conversions there are (a bound)
    MaxEdits,        \* how often a plugin is switched, or the file edited (a bound)
    MaxFaults        \* how many reads of a plugin's settings fail (a bound)

PluginSet == ToSet(Plugins)

ASSUME PipelineAssumption ==
    /\ Plugins \in Seq(PluginSet) /\ IsInjective(Plugins)
    /\ Before \cup After \cup NotCacheable \cup Failing \subseteq PluginSet
    /\ BadTokens \subseteq Tokens
    /\ {MaxConversions, MaxEdits, MaxFaults} \subseteq Nat

VARIABLES
    file,     \* the tokens in the file, and whether it can be read
    tokens,   \* CustomTokenParser._tokens, and whether they have their regexes
    isTokensFileCached,
    enabled,  \* the plugins whose settings, which all share, say so
    cached,   \* PageViewModelCache: the page, if it is there
    rq,       \* what each request is at
    conversions, edits, faults  \* counters for the bounds

vars == <<file, tokens, isTokensFileCached, enabled, cached, rq, conversions, edits, faults>>

TokenList == [tokens : SUBSET Tokens, regexes : BOOLEAN]

(* Which plugins have run to the end of BeforeParse, AfterParse and the    *)
(* two GetPre-/PostContainerHtml, and which tokens are replaced.           *)
PageHtml == [before : SUBSET PluginSet, after : SUBSET PluginSet,
             containers : SUBSET PluginSet, tokens : SUBSET Tokens]
NoHtml == [before |-> {}, after |-> {}, containers |-> {}, tokens |-> {}]

Steps == {"idle", "tokens:read", "tokens:regexes", "before", "tokens:replace", "after",
          "containers", "add", "edit:clear"}

(* In no code: which plugins have thrown, and which have been switched, in *)
(* the time of the conversion; whether the file could be read and nobody   *)
(* has edited it; whether, besides, the tokens were its own affair.        *)
Request == [pc : Steps, next : 1..(Len(Plugins) + 1), html : PageHtml,
            isCacheable : BOOLEAN, threw : SUBSET PluginSet,
            switched : SUBSET PluginSet, fileKept : BOOLEAN, undisturbed : BOOLEAN]
Idle == [pc |-> "idle", next |-> 1, html |-> NoHtml, isCacheable |-> TRUE,
         threw |-> {}, switched |-> {}, fileKept |-> TRUE, undisturbed |-> TRUE]

TypeOK ==
    /\ file \in [tokens : SUBSET Tokens, readable : BOOLEAN]
    /\ tokens \in TokenList /\ isTokensFileCached \in BOOLEAN
    /\ enabled \subseteq PluginSet
    /\ cached \in {<<>>} \cup {<<h>> : h \in PageHtml}
    /\ rq \in [Threads -> Request]
    /\ conversions \in 0..MaxConversions /\ edits \in 0..MaxEdits /\ faults \in 0..MaxFaults

Init ==
    /\ file \in [tokens : SUBSET Tokens, readable : {TRUE}]
    /\ tokens = [tokens |-> {}, regexes |-> FALSE] /\ isTokensFileCached = FALSE
    /\ enabled \in SUBSET PluginSet
    /\ cached = <<>>
    /\ rq = [t \in Threads |-> Idle]
    /\ conversions = 0 /\ edits = 0 /\ faults = 0

-----------------------------------------------------------------------------
At(t, pc) == rq[t].pc = pc

Converting(t) == rq[t].pc \notin {"idle", "edit:clear"}

Go(t, r, pc) == rq' = [rq EXCEPT ![t] = [r EXCEPT !.pc = pc]]

bounds == <<conversions, edits, faults>>
shared == <<file, tokens, isTokensFileCached, enabled, cached>>

(* A page that is in the cache is not converted.  Two conversions at once  *)
(* disturb each other's tokens.                                            *)
BeginConversion(t) ==
    /\ At(t, "idle") /\ cached = <<>>
    /\ conversions < MaxConversions /\ conversions' = conversions + 1
    /\ LET alone == \A u \in Threads : ~Converting(u)
       IN rq' = [u \in Threads |->
                   IF u = t THEN [Idle EXCEPT !.pc = "tokens:read",
                                              !.fileKept = file.readable,
                                              !.undisturbed = alone /\ file.readable]
                   ELSE [rq[u] EXCEPT !.undisturbed = FALSE]]
    /\ UNCHANGED <<shared, edits, faults>>

-----------------------------------------------------------------------------
(* CustomTokenParser: the constructor, and ReplaceTokensAfterParse.        *)

(* A slip: no list comes of a file that cannot be read. *)
DeserializeOrNull == IF file.readable THEN file.tokens ELSE {"null"}

(* A file that cannot be read is taken for an empty one. *)
Deserialize == IF file.readable THEN file.tokens ELSE {}

ReadTokens(t) ==
    /\ At(t, "tokens:read")
    /\ tokens' = [tokens |-> Deserialize, regexes |-> FALSE]
    /\ Go(t, rq[t], "tokens:regexes")
    /\ UNCHANGED <<file, isTokensFileCached, enabled, cached, bounds>>

(* A slip: tokens read once more are left as they are. *)
ParseTokenRegexesOnce(t) ==
    /\ At(t, "tokens:regexes")
    /\ tokens' = [tokens EXCEPT !.regexes = @ \/ ~isTokensFileCached]
    /\ isTokensFileCached' = TRUE
    /\ Go(t, rq[t], "before")
    /\ UNCHANGED <<file, enabled, cached, bounds>>

(* What is prepared is what the field holds by now.  Both branches of the  *)
(* constructor do the same; the flag makes no difference.                  *)
ParseTokenRegexes(t) ==
    /\ At(t, "tokens:regexes")
    /\ tokens' = [tokens EXCEPT !.regexes = TRUE]
    /\ isTokensFileCached' = TRUE
    /\ Go(t, rq[t], "before")
    /\ UNCHANGED <<file, enabled, cached, bounds>>

(* A token that has no regex throws, and is passed over. *)
ReplaceTokensAfterParse(t) ==
    /\ At(t, "tokens:replace")
    /\ LET replaced == IF tokens.regexes THEN tokens.tokens \ BadTokens ELSE {}
       IN Go(t, [rq[t] EXCEPT !.html.tokens = replaced], "after")
    /\ UNCHANGED <<shared, bounds>>

-----------------------------------------------------------------------------
(* TextPluginRunner.  The loops take the plugins one by one, and ask of    *)
(* each, when its turn comes, whether it is enabled.                       *)

Plugin(t) == Plugins[rq[t].next]

AtPlugin(t, pc) == At(t, pc) /\ rq[t].next <= Len(Plugins)

Advance(t, r, pc) == Go(t, [r EXCEPT !.next = @ + 1], pc)

EndLoop(t, pc, next) ==
    /\ At(t, pc) /\ rq[t].next > Len(Plugins)
    /\ Go(t, [rq[t] EXCEPT !.next = 1], next)

(* IsCacheable, after a plugin has changed the text.  A slip: the last one *)
(* to change it decides.                                                   *)
VerdictOfLast(p, changes, isCacheable) ==
    IF p \in changes THEN p \notin NotCacheable ELSE isCacheable

Verdict(p, changes, isCacheable) ==
    IF p \in changes /\ isCacheable THEN p \notin NotCacheable ELSE isCacheable

(* The exception is caught inside the loop, which goes on. *)
Threw(t, r) == [r EXCEPT !.threw = @ \cup {Plugin(t)}]

(* A slip: it is caught outside the loop. *)
CatchOutside(t, r, pc) ==
    /\ Plugin(t) \in Failing
    /\ Go(t, [Threw(t, r) EXCEPT !.next = Len(Plugins) + 1], pc)

Catch(t, r, pc) == Plugin(t) \in Failing /\ Advance(t, Threw(t, r), pc)

(* One turn of the loop, which makes "run" of the request "r". *)
PluginLoop(t, pc, r, run, next) ==
    \/ AtPlugin(t, pc) /\ Plugin(t) \notin enabled /\ Advance(t, r, pc)
    \/ AtPlugin(t, pc) /\ Plugin(t) \in enabled /\ (Advance(t, run, pc) \/ Catch(t, r, pc))
    \/ EndLoop(t, pc, next)

(* GetHeadContent and GetFooterContent may throw when the text and the     *)
(* verdict have changed already.                                           *)
BeforeParse(t) ==
    LET run == [rq[t] EXCEPT !.html.before = @ \cup {Plugin(t)},
                             !.isCacheable = Verdict(Plugin(t), Before, @)]
    IN /\ \/ PluginLoop(t, "before", rq[t], run, "tokens:replace")
          \/ AtPlugin(t, "before") /\ Plugin(t) \in enabled /\ Catch(t, run, "before")
       /\ UNCHANGED <<shared, bounds>>

(* The first loop is where the settings of a plugin are loaded, by the     *)
(* query and outside any "try": the page is not converted.                 *)
SettingsThrow(t) ==
    /\ AtPlugin(t, "before")
    /\ faults < MaxFaults /\ faults' = faults + 1
    /\ Go(t, Idle, "idle")
    /\ UNCHANGED <<shared, conversions, edits>>

(* AfterParse starts from a verdict of its own, which takes the place of   *)
(* that of BeforeParse.                                                    *)
AfterParse(t) ==
    LET r == [rq[t] EXCEPT !.isCacheable = @ \/ rq[t].next = 1]
        run == [r EXCEPT !.html.after = @ \cup {Plugin(t)},
                         !.isCacheable = Verdict(Plugin(t), After, @)]
    IN /\ PluginLoop(t, "after", r, run, "containers")
       /\ UNCHANGED <<shared, bounds>>

(* GetPreContainerHtml and GetPostContainerHtml: two loops, taken for one. *)
ContainerHtml(t) ==
    LET run == [rq[t] EXCEPT !.html.containers = @ \cup {Plugin(t)}]
    IN /\ PluginLoop(t, "containers", rq[t], run, "add")
       /\ UNCHANGED <<shared, bounds>>

(* PageViewModelCache.Add *)
AddToCache(t) ==
    /\ At(t, "add")
    /\ cached' = IF rq[t].isCacheable /\ cached = <<>> THEN <<rq[t].html>> ELSE cached
    /\ Go(t, Idle, "idle")
    /\ UNCHANGED <<file, tokens, isTokensFileCached, enabled, bounds>>

-----------------------------------------------------------------------------
(* Administrators. *)

Edits == edits < MaxEdits /\ edits' = edits + 1

(* PluginSettingsController.Edit: the shared settings change first, and    *)
(* the cache is cleared last (SiteSettings has the whole of it).           *)
SwitchPlugin(t) ==
    /\ At(t, "idle") /\ Edits
    /\ \E p \in PluginSet :
         /\ enabled' = IF p \in enabled THEN enabled \ {p} ELSE enabled \cup {p}
         /\ rq' = [u \in Threads |->
                     IF u = t THEN [Idle EXCEPT !.pc = "edit:clear"]
                     ELSE [rq[u] EXCEPT !.switched = @ \cup {p}]]
    /\ UNCHANGED <<file, tokens, isTokensFileCached, cached, conversions, faults>>

ClearCache(t) ==
    /\ At(t, "edit:clear")
    /\ cached' = <<>>
    /\ Go(t, Idle, "idle")
    /\ UNCHANGED <<file, tokens, isTokensFileCached, enabled, bounds>>

(* Somebody edits the file; while it is being written it cannot be read.   *)
EditFile ==
    /\ IF file.readable THEN Edits /\ file' = [file EXCEPT !.readable = FALSE]
       ELSE /\ \E kept \in SUBSET Tokens : file' = [tokens |-> kept, readable |-> TRUE]
            /\ UNCHANGED edits
    /\ rq' = [t \in Threads |-> [rq[t] EXCEPT !.fileKept = FALSE, !.undisturbed = FALSE]]
    /\ UNCHANGED <<tokens, isTokensFileCached, enabled, cached, conversions, faults>>

Finished ==
    /\ file.readable /\ \A t \in Threads : At(t, "idle")
    /\ conversions = MaxConversions \/ cached # <<>>
    /\ UNCHANGED vars

Next ==
    \/ \E t \in Threads :
         \/ BeginConversion(t) \/ ReadTokens(t) \/ ParseTokenRegexes(t)
         \/ BeforeParse(t) \/ SettingsThrow(t) \/ ReplaceTokensAfterParse(t)
         \/ AfterParse(t) \/ ContainerHtml(t) \/ AddToCache(t)
         \/ SwitchPlugin(t) \/ ClearCache(t)
    \/ EditFile
    \/ Finished

Spec == Init /\ [][Next]_vars

=============================================================================
