------------------------- MODULE TextPipeline_proofs -------------------------
(***************************************************************************)
(* Conversions that run side by side, for any number of requests, plugins  *)
(* and tokens: proofs of TypeOK and of the properties of                   *)
(* PipelineProperties.                                                     *)
(*                                                                         *)
(* None of the three properties is inductive, for each speaks of the end   *)
(* of a conversion: LoopsInv says which plugins have run in each of the    *)
(* loops so far, ListInv and TokensInv what a conversion knows of the      *)
(* static list of tokens at each step while nobody edits the file, and     *)
(* while nothing disturbs it at all, and VerdictInv what the verdict is    *)
(* before and within AfterParse.                                           *)
(***************************************************************************)
EXTENDS PipelineProperties, TLAPS

(* The plugin in a place of the list, and that it is in no other.          *)
LEMMA PluginPlaces ==
    /\ Len(Plugins) \in Nat
    /\ DOMAIN Plugins = 1..Len(Plugins)
    /\ \A i \in 1..Len(Plugins) : Plugins[i] \in PluginSet
    /\ \A p \in PluginSet : \E i \in 1..Len(Plugins) : Plugins[i] = p
    /\ \A i, j \in 1..Len(Plugins) : Plugins[i] = Plugins[j] => i = j
  <1>1. Plugins \in Seq(PluginSet)
    BY PipelineAssumption
  <1>2. PluginSet = {Plugins[i] : i \in DOMAIN Plugins}
    BY DEF PluginSet, ToSet
  <1>3. DOMAIN Plugins = 1..Len(Plugins) /\ Len(Plugins) \in Nat
    BY <1>1
  <1>4. \A i, j \in DOMAIN Plugins : Plugins[i] = Plugins[j] => i = j
    BY PipelineAssumption DEF IsInjective
  <1> QED
    BY <1>2, <1>3, <1>4

-----------------------------------------------------------------------------
(* Types. *)

LEMMA LoopTypes ==
    ASSUME TypeOK, NEW t \in Threads, NEW pc \in Steps, NEW next \in Steps,
           NEW r \in Request, NEW run \in Request,
           r.next = rq[t].next, run.next = rq[t].next,
           PluginLoop(t, pc, r, run, next)
    PROVE  rq' \in [Threads -> Request]
  <1> USE PluginPlaces
  <1>1. rq[t] \in Request
    BY DEF TypeOK
  <1>2. ASSUME NEW q \in Request, NEW s \in Steps, q.next = rq[t].next,
               AtPlugin(t, pc), Advance(t, q, s)
        PROVE  rq' \in [Threads -> Request]
    <2>1. q.next + 1 \in 1..(Len(Plugins) + 1)
      BY <1>2 DEF AtPlugin, Request
    <2> QED
      BY <1>2, <2>1 DEF Advance, Go, Request, TypeOK
  <1>3. ASSUME AtPlugin(t, pc), Catch(t, r, pc)
        PROVE  rq' \in [Threads -> Request]
    <2>1. Plugin(t) \in PluginSet
      BY <1>1, <1>3 DEF Plugin, AtPlugin, Request
    <2>2. Threw(t, r) \in Request /\ Threw(t, r).next = rq[t].next
      BY <2>1 DEF Threw, Request
    <2> QED
      BY <1>2, <1>3, <2>2 DEF Catch
  <1>4. ASSUME EndLoop(t, pc, next)
        PROVE  rq' \in [Threads -> Request]
    <2>1. 1 \in 1..(Len(Plugins) + 1)
      OBVIOUS
    <2> QED
      BY <1>1, <1>4, <2>1 DEF EndLoop, Go, Request, TypeOK
  <1> QED
    BY <1>2, <1>3, <1>4 DEF PluginLoop

(* The bounds are natural numbers. *)
LEMMA Bounds == MaxConversions \in Nat /\ MaxEdits \in Nat /\ MaxFaults \in Nat
  BY PipelineAssumption

LEMMA Counters ==
    ASSUME TypeOK
    PROVE  /\ MaxConversions \in Nat /\ MaxEdits \in Nat /\ MaxFaults \in Nat
           /\ conversions \in 0..MaxConversions /\ edits \in 0..MaxEdits
           /\ faults \in 0..MaxFaults
  BY Bounds DEF TypeOK

LEMMA RequestTypes ==
    ASSUME TypeOK, NEW t \in Threads, NEW r \in Request, NEW pc \in Steps, Go(t, r, pc)
    PROVE  rq' \in [Threads -> Request]
  <1>1. [r EXCEPT !.pc = pc] \in Request
    BY DEF Request
  <1> QED
    BY <1>1 DEF Go, TypeOK

LEMMA ThreadTypes ==
    ASSUME TypeOK, NEW t \in Threads,
           \/ BeginConversion(t) \/ ReadTokens(t) \/ ParseTokenRegexes(t)
           \/ BeforeParse(t) \/ SettingsThrow(t) \/ ReplaceTokensAfterParse(t)
           \/ AfterParse(t) \/ ContainerHtml(t) \/ AddToCache(t)
           \/ SwitchPlugin(t) \/ ClearCache(t)
    PROVE  TypeOK'
  <1>1. rq[t] \in Request /\ Idle \in Request
    BY PluginPlaces DEF TypeOK, Request, Steps, Idle, PageHtml, NoHtml
  <1>2. CASE BeginConversion(t)
    <2> DEFINE alone == (\A u \in Threads : ~Converting(u)) /\ file.readable
               started == [Idle EXCEPT !.pc = "tokens:read", !.fileKept = file.readable,
                                       !.undisturbed = alone]
    <2>1. alone \in BOOLEAN /\ file.readable \in BOOLEAN
      BY DEF TypeOK
    <2>2. started \in Request
      <3> HIDE DEF alone
      <3> QED
        BY <1>1, <2>1 DEF Request, Steps
    <2>3. \A u \in Threads : [rq[u] EXCEPT !.undisturbed = FALSE] \in Request
      BY DEF TypeOK, Request
    <2>4. rq' = [u \in Threads |-> IF u = t THEN started
                                   ELSE [rq[u] EXCEPT !.undisturbed = FALSE]]
      BY <1>2 DEF BeginConversion
    <2>5. rq' \in [Threads -> Request]
      <3> HIDE DEF started
      <3> QED
        BY <2>2, <2>3, <2>4
    <2>6. conversions' \in 0..MaxConversions
      <3>1. conversions < MaxConversions /\ conversions' = conversions + 1
        BY <1>2 DEF BeginConversion
      <3> QED
        BY <3>1, Counters
    <2> QED
      BY <1>2, <2>5, <2>6 DEF BeginConversion, TypeOK, shared
  <1>3. CASE ReadTokens(t)
    <2>1. rq' \in [Threads -> Request]
      BY <1>1, <1>3, RequestTypes DEF ReadTokens, Steps
    <2> QED
      BY <1>3, <2>1 DEF ReadTokens, Deserialize, TypeOK, TokenList, bounds
  <1>4. CASE ParseTokenRegexes(t)
    <2>1. rq' \in [Threads -> Request]
      BY <1>1, <1>4, RequestTypes DEF ParseTokenRegexes, Steps
    <2> QED
      BY <1>4, <2>1 DEF ParseTokenRegexes, TypeOK, TokenList, bounds
  <1>5. CASE BeforeParse(t)
    <2> DEFINE run == [rq[t] EXCEPT !.html.before = @ \cup {Plugin(t)},
                                    !.isCacheable = Verdict(Plugin(t), Before, @)]
    <2>1. CASE AtPlugin(t, "before")
      <3>1. Plugin(t) \in PluginSet
        BY <1>1, <2>1, PluginPlaces DEF Plugin, AtPlugin, Request
      <3>2. Verdict(Plugin(t), Before, rq[t].isCacheable) \in BOOLEAN
        BY <1>1 DEF Verdict, Request
      <3>3. run \in Request /\ run.next = rq[t].next
        BY <1>1, <3>1, <3>2 DEF Request, PageHtml
      <3>4. CASE PluginLoop(t, "before", rq[t], run, "tokens:replace")
        BY <1>1, <1>5, <3>3, <3>4, LoopTypes DEF BeforeParse, TypeOK, shared, bounds, Steps
      <3>5. CASE AtPlugin(t, "before") /\ Plugin(t) \in enabled /\ Catch(t, run, "before")
        <4>1. PluginLoop(t, "before", run, run, "tokens:replace")
          BY <3>5 DEF PluginLoop
        <4> QED
          BY <1>5, <3>3, <4>1, LoopTypes DEF BeforeParse, TypeOK, shared, bounds, Steps
      <3> QED
        BY <1>5, <3>4, <3>5 DEF BeforeParse
    <2>2. CASE ~AtPlugin(t, "before")
      <3>1. PluginLoop(t, "before", rq[t], rq[t], "tokens:replace")
        BY <1>5, <2>2 DEF BeforeParse, PluginLoop
      <3> QED
        BY <1>1, <1>5, <3>1, LoopTypes DEF BeforeParse, TypeOK, shared, bounds, Steps
    <2> QED
      BY <2>1, <2>2
  <1>6. CASE SettingsThrow(t)
    <2>1. rq' \in [Threads -> Request]
      BY <1>1, <1>6, RequestTypes DEF SettingsThrow, Steps
    <2>2. faults' \in 0..MaxFaults
      BY <1>6, Counters DEF SettingsThrow
    <2> QED
      BY <1>6, <2>1, <2>2 DEF SettingsThrow, TypeOK, shared
  <1>7. CASE ReplaceTokensAfterParse(t)
    <2> DEFINE replaced == IF tokens.regexes THEN tokens.tokens \ BadTokens ELSE {}
    <2>1. replaced \subseteq Tokens
      BY DEF TypeOK, TokenList
    <2>2. [rq[t] EXCEPT !.html.tokens = replaced] \in Request
      BY <1>1, <2>1 DEF Request, PageHtml
    <2>3. rq' \in [Threads -> Request]
      BY <1>7, <2>2, RequestTypes DEF ReplaceTokensAfterParse, Steps
    <2> QED
      BY <1>7, <2>3 DEF ReplaceTokensAfterParse, TypeOK, shared, bounds
  <1>8. CASE AfterParse(t)
    <2> DEFINE r == [rq[t] EXCEPT !.isCacheable = @ \/ rq[t].next = 1]
               run == [r EXCEPT !.html.after = @ \cup {Plugin(t)},
                                !.isCacheable = Verdict(Plugin(t), After, @)]
    <2>1. r \in Request /\ r.next = rq[t].next
      BY <1>1 DEF Request
    <2>2. CASE AtPlugin(t, "after")
      <3>1. Plugin(t) \in PluginSet
        BY <1>1, <2>2, PluginPlaces DEF Plugin, AtPlugin, Request
      <3>2. Verdict(Plugin(t), After, r.isCacheable) \in BOOLEAN
        BY <2>1 DEF Verdict, Request
      <3>3. run \in Request /\ run.next = rq[t].next
        BY <2>1, <3>1, <3>2 DEF Request, PageHtml
      <3> QED
        BY <1>8, <2>1, <3>3, LoopTypes DEF AfterParse, TypeOK, shared, bounds, Steps
    <2>3. CASE ~AtPlugin(t, "after")
      <3>1. PluginLoop(t, "after", r, r, "containers")
        BY <1>8, <2>3 DEF AfterParse, PluginLoop
      <3> QED
        BY <1>8, <2>1, <3>1, LoopTypes DEF AfterParse, TypeOK, shared, bounds, Steps
    <2> QED
      BY <2>2, <2>3
  <1>9. CASE ContainerHtml(t)
    <2> DEFINE run == [rq[t] EXCEPT !.html.containers = @ \cup {Plugin(t)}]
    <2>1. CASE AtPlugin(t, "containers")
      <3>1. Plugin(t) \in PluginSet
        BY <1>1, <2>1, PluginPlaces DEF Plugin, AtPlugin, Request
      <3>2. run \in Request /\ run.next = rq[t].next
        BY <1>1, <3>1 DEF Request, PageHtml
      <3> QED
        BY <1>1, <1>9, <3>2, LoopTypes DEF ContainerHtml, TypeOK, shared, bounds, Steps
    <2>2. CASE ~AtPlugin(t, "containers")
      <3>1. PluginLoop(t, "containers", rq[t], rq[t], "add")
        BY <1>9, <2>2 DEF ContainerHtml, PluginLoop
      <3> QED
        BY <1>1, <1>9, <3>1, LoopTypes DEF ContainerHtml, TypeOK, shared, bounds, Steps
    <2> QED
      BY <2>1, <2>2
  <1>10. CASE AddToCache(t)
    <2>1. rq' \in [Threads -> Request]
      BY <1>1, <1>10, RequestTypes DEF AddToCache, Steps
    <2>2. rq[t].html \in PageHtml
      BY <1>1 DEF Request
    <2>3. <<rq[t].html>> \in {<<h>> : h \in PageHtml}
      BY <2>2
    <2> QED
      BY <1>10, <2>1, <2>3 DEF AddToCache, TypeOK, bounds
  <1>11. CASE SwitchPlugin(t)
    <2>1. PICK p \in PluginSet :
            /\ enabled' = IF p \in enabled THEN enabled \ {p} ELSE enabled \cup {p}
            /\ rq' = [u \in Threads |->
                        IF u = t THEN [Idle EXCEPT !.pc = "edit:clear"]
                        ELSE [rq[u] EXCEPT !.switched = @ \cup {p}]]
      BY <1>11 DEF SwitchPlugin
    <2>2. \A u \in Threads : [rq[u] EXCEPT !.switched = @ \cup {p}] \in Request
      BY DEF TypeOK, Request
    <2>3. [Idle EXCEPT !.pc = "edit:clear"] \in Request
      BY <1>1 DEF Request, Steps
    <2>4. rq' \in [Threads -> Request] /\ enabled' \subseteq PluginSet
      BY <2>1, <2>2, <2>3 DEF TypeOK
    <2>5. edits' \in 0..MaxEdits
      BY <1>11, Counters DEF SwitchPlugin, Edits
    <2> QED
      BY <1>11, <2>4, <2>5 DEF SwitchPlugin, TypeOK
  <1>12. CASE ClearCache(t)
    <2>1. rq' \in [Threads -> Request]
      BY <1>1, <1>12, RequestTypes DEF ClearCache, Steps
    <2> QED
      BY <1>12, <2>1 DEF ClearCache, TypeOK, bounds
  <1> QED
    BY <1>2, <1>3, <1>4, <1>5, <1>6, <1>7, <1>8, <1>9, <1>10, <1>11, <1>12

(* The page, its tokens and every request stay what they are said to be,   *)
(* for any number of requests, plugins and tokens.                         *)
THEOREM PipelineTypes == Spec => []TypeOK
  <1>1. Init => TypeOK
    <2> SUFFICES ASSUME Init PROVE TypeOK
      OBVIOUS
    <2>1. Idle \in Request
      BY PluginPlaces DEF Request, Idle, Steps, PageHtml, NoHtml
    <2>2. /\ file \in [tokens : SUBSET Tokens, readable : BOOLEAN]
          /\ tokens \in TokenList /\ isTokensFileCached \in BOOLEAN
      BY DEF Init, TokenList
    <2>3. enabled \subseteq PluginSet /\ cached = <<>> /\ rq \in [Threads -> Request]
      BY <2>1 DEF Init
    <2>4. conversions \in 0..MaxConversions /\ edits \in 0..MaxEdits /\ faults \in 0..MaxFaults
      BY Bounds DEF Init
    <2> QED
      BY <2>2, <2>3, <2>4 DEF TypeOK
  <1>2. TypeOK /\ [Next]_vars => TypeOK'
    <2> SUFFICES ASSUME TypeOK, [Next]_vars PROVE TypeOK'
      OBVIOUS
    <2>1. CASE EditFile
      <3>1. \A t \in Threads :
               [rq[t] EXCEPT !.fileKept = FALSE, !.undisturbed = FALSE] \in Request
        BY DEF TypeOK, Request
      <3>2. rq' \in [Threads -> Request]
        BY <2>1, <3>1 DEF EditFile
      <3>3. edits' \in 0..MaxEdits
        <4>1. (edits < MaxEdits /\ edits' = edits + 1) \/ edits' = edits
          BY <2>1 DEF EditFile, Edits
        <4> QED
          BY <4>1, Counters
      <3>4. file' \in [tokens : SUBSET Tokens, readable : BOOLEAN]
        <4>1. file \in [tokens : SUBSET Tokens, readable : BOOLEAN]
          BY DEF TypeOK
        <4>2. CASE file' = [file EXCEPT !.readable = FALSE]
          BY <4>1, <4>2
        <4>3. ASSUME NEW kept \in SUBSET Tokens,
                     file' = [tokens |-> kept, readable |-> TRUE]
              PROVE  file' \in [tokens : SUBSET Tokens, readable : BOOLEAN]
          BY <4>3
        <4> QED
          BY <2>1, <4>2, <4>3 DEF EditFile
      <3> QED
        BY <2>1, <3>2, <3>3, <3>4 DEF EditFile, TypeOK
    <2>2. CASE Finished
      BY <2>2 DEF Finished, vars, TypeOK
    <2>3. CASE UNCHANGED vars
      BY <2>3 DEF vars, TypeOK
    <2> QED
      BY <2>1, <2>2, <2>3, ThreadTypes DEF Next
  <1> QED
    BY <1>1, <1>2, PTL DEF Spec

-----------------------------------------------------------------------------
(* The loops. *)

(* What a turn of a loop makes of the request at work: nothing but its     *)
(* place, of a plugin that is off; what the plugin does; or, if it throws, *)
(* only a note of that.                                                    *)
TurnOf(t, pc, r, run, next, r2) ==
    LET n == rq[t].next
    IN \/ /\ n \in 1..Len(Plugins) /\ Plugins[n] \notin enabled
          /\ r2 = [[r EXCEPT !.next = n + 1] EXCEPT !.pc = pc]
       \/ /\ n \in 1..Len(Plugins) /\ Plugins[n] \in enabled
          /\ r2 = [[run EXCEPT !.next = n + 1] EXCEPT !.pc = pc]
       \/ /\ n \in 1..Len(Plugins)
          /\ r2 = [[[r EXCEPT !.threw = @ \cup {Plugins[n]}] EXCEPT !.next = n + 1] EXCEPT !.pc = pc]
       \/ /\ n = Len(Plugins) + 1
          /\ r2 = [[rq[t] EXCEPT !.next = 1] EXCEPT !.pc = next]

LEMMA LoopStep ==
    ASSUME TypeOK, NEW t \in Threads, NEW pc \in Steps, NEW next \in Steps,
           NEW r \in Request, NEW run \in Request,
           r.next = rq[t].next, run.next = rq[t].next,
           PluginLoop(t, pc, r, run, next)
    PROVE  \E r2 : /\ rq' = [rq EXCEPT ![t] = r2] /\ rq[t].pc = pc
                   /\ TurnOf(t, pc, r, run, next, r2)
  <1> DEFINE n == rq[t].next
  <1>1. rq[t] \in Request /\ n \in 1..(Len(Plugins) + 1) /\ Len(Plugins) \in Nat
    BY PluginPlaces DEF TypeOK, Request
  <1>2. CASE AtPlugin(t, pc) /\ Plugin(t) \notin enabled /\ Advance(t, r, pc)
    <2> DEFINE r2 == [[r EXCEPT !.next = n + 1] EXCEPT !.pc = pc]
    <2>1. rq' = [rq EXCEPT ![t] = r2] /\ rq[t].pc = pc
      BY <1>2 DEF AtPlugin, At, Advance, Go
    <2>2. TurnOf(t, pc, r, run, next, r2)
      BY <1>1, <1>2 DEF AtPlugin, Plugin, TurnOf
    <2> QED
      BY <2>1, <2>2
  <1>3. CASE AtPlugin(t, pc) /\ Plugin(t) \in enabled /\ Advance(t, run, pc)
    <2> DEFINE r2 == [[run EXCEPT !.next = n + 1] EXCEPT !.pc = pc]
    <2>1. rq' = [rq EXCEPT ![t] = r2] /\ rq[t].pc = pc
      BY <1>3 DEF AtPlugin, At, Advance, Go
    <2>2. TurnOf(t, pc, r, run, next, r2)
      BY <1>1, <1>3 DEF AtPlugin, Plugin, TurnOf
    <2> QED
      BY <2>1, <2>2
  <1>4. CASE AtPlugin(t, pc) /\ Catch(t, r, pc)
    <2> DEFINE r2 == [[[r EXCEPT !.threw = @ \cup {Plugins[n]}] EXCEPT !.next = n + 1] EXCEPT !.pc = pc]
    <2>1. Threw(t, r).next = n
      BY DEF Threw, Request
    <2>2. rq' = [rq EXCEPT ![t] = r2] /\ rq[t].pc = pc
      BY <1>4, <2>1 DEF AtPlugin, At, Catch, Advance, Go, Threw, Plugin
    <2>3. TurnOf(t, pc, r, run, next, r2)
      BY <1>1, <1>4 DEF AtPlugin, TurnOf
    <2> QED
      BY <2>2, <2>3
  <1>5. CASE EndLoop(t, pc, next)
    <2> DEFINE r2 == [[rq[t] EXCEPT !.next = 1] EXCEPT !.pc = next]
    <2>1. rq' = [rq EXCEPT ![t] = r2] /\ rq[t].pc = pc
      BY <1>5 DEF EndLoop, At, Go
    <2>2. TurnOf(t, pc, r, run, next, r2)
      BY <1>1, <1>5 DEF EndLoop, TurnOf
    <2> QED
      BY <2>1, <2>2
  <1> QED
    BY <1>2, <1>3, <1>4, <1>5 DEF PluginLoop

(* BeforeParse adds one way: to throw with the text changed already.       *)
BeforeRun(t) == [rq[t] EXCEPT !.html.before = @ \cup {Plugin(t)},
                              !.isCacheable = Verdict(Plugin(t), Before, @)]

AfterStart(t) == [rq[t] EXCEPT !.isCacheable = @ \/ rq[t].next = 1]

AfterRun(t) == [AfterStart(t) EXCEPT !.html.after = @ \cup {Plugin(t)},
                                     !.isCacheable = Verdict(Plugin(t), After, @)]

ContainersRun(t) == [rq[t] EXCEPT !.html.containers = @ \cup {Plugin(t)}]

LEMMA RunTypes ==
    ASSUME TypeOK, NEW t \in Threads, rq[t].next \in 1..Len(Plugins)
    PROVE  /\ BeforeRun(t) \in Request /\ BeforeRun(t).next = rq[t].next
           /\ AfterRun(t) \in Request /\ AfterRun(t).next = rq[t].next
           /\ ContainersRun(t) \in Request /\ ContainersRun(t).next = rq[t].next
  <1>1. rq[t] \in Request /\ Plugin(t) \in PluginSet
    BY PluginPlaces DEF TypeOK, Plugin
  <1>2. Verdict(Plugin(t), Before, rq[t].isCacheable) \in BOOLEAN
    BY <1>1 DEF Verdict, Request
  <1>3. AfterStart(t) \in Request /\ AfterStart(t).next = rq[t].next
    BY <1>1 DEF AfterStart, Request
  <1>4. Verdict(Plugin(t), After, AfterStart(t).isCacheable) \in BOOLEAN
    BY <1>3 DEF Verdict, Request
  <1>5. BeforeRun(t) \in Request /\ BeforeRun(t).next = rq[t].next
    BY <1>1, <1>2 DEF BeforeRun, Request, PageHtml
  <1>6. AfterRun(t) \in Request /\ AfterRun(t).next = rq[t].next
    BY <1>1, <1>3, <1>4 DEF AfterRun, Request, PageHtml
  <1>7. ContainersRun(t) \in Request /\ ContainersRun(t).next = rq[t].next
    BY <1>1 DEF ContainersRun, Request, PageHtml
  <1> QED
    BY <1>5, <1>6, <1>7

(* A turn of BeforeParse, which may also throw when the text has changed   *)
(* already; of AfterParse; and of the loops for the containers.            *)
ThrewLate(t, r2) ==
    LET n == rq[t].next
    IN /\ n \in 1..Len(Plugins)
       /\ r2 = [[[BeforeRun(t) EXCEPT !.threw = @ \cup {Plugins[n]}]
                   EXCEPT !.next = n + 1] EXCEPT !.pc = "before"]

LEMMA EndOfLoop ==
    ASSUME TypeOK, NEW t \in Threads, NEW pc \in Steps, NEW next \in Steps,
           NEW r, NEW run, PluginLoop(t, pc, r, run, next), ~AtPlugin(t, pc)
    PROVE  \E r2 : /\ rq' = [rq EXCEPT ![t] = r2] /\ rq[t].pc = pc
                   /\ TurnOf(t, pc, r, run, next, r2)
  <1> DEFINE r2 == [[rq[t] EXCEPT !.next = 1] EXCEPT !.pc = next]
  <1>1. EndLoop(t, pc, next)
    BY DEF PluginLoop
  <1>2. rq[t] \in Request /\ rq[t].next \in 1..(Len(Plugins) + 1) /\ Len(Plugins) \in Nat
    BY PluginPlaces DEF TypeOK, Request
  <1>3. rq' = [rq EXCEPT ![t] = r2] /\ rq[t].pc = pc
    BY <1>1 DEF EndLoop, At, Go
  <1>4. rq[t].next = Len(Plugins) + 1
    BY <1>1, <1>2 DEF EndLoop
  <1>5. TurnOf(t, pc, r, run, next, r2)
    BY <1>4 DEF TurnOf
  <1> QED
    BY <1>3, <1>5

LEMMA BeforeStep ==
    ASSUME TypeOK, NEW t \in Threads, BeforeParse(t)
    PROVE  \E r2 : /\ rq' = [rq EXCEPT ![t] = r2] /\ rq[t].pc = "before"
                   /\ \/ TurnOf(t, "before", rq[t], BeforeRun(t), "tokens:replace", r2)
                      \/ ThrewLate(t, r2)
  <1>1. rq[t] \in Request /\ Len(Plugins) \in Nat /\ "before" \in Steps /\ "tokens:replace" \in Steps
    BY PluginPlaces DEF TypeOK, Steps
  <1>2. CASE ~AtPlugin(t, "before")
    <2>1. PluginLoop(t, "before", rq[t], BeforeRun(t), "tokens:replace")
      BY <1>2 DEF BeforeParse, BeforeRun
    <2> QED
      BY <1>1, <1>2, <2>1, EndOfLoop
  <1>3. CASE AtPlugin(t, "before")
    <2>1. rq[t].next \in 1..Len(Plugins)
      BY <1>1, <1>3 DEF AtPlugin, Request
    <2>2. BeforeRun(t) \in Request /\ BeforeRun(t).next = rq[t].next
      BY <2>1, RunTypes
    <2>3. CASE PluginLoop(t, "before", rq[t], BeforeRun(t), "tokens:replace")
      BY <1>1, <2>2, <2>3, LoopStep
    <2>4. CASE Catch(t, BeforeRun(t), "before")
      <3> DEFINE n == rq[t].next
                 r2 == [[[BeforeRun(t) EXCEPT !.threw = @ \cup {Plugins[n]}]
                   EXCEPT !.next = n + 1] EXCEPT !.pc = "before"]
      <3>1. Threw(t, BeforeRun(t)).next = n
        BY <2>2 DEF Threw, Request
      <3>2. rq' = [rq EXCEPT ![t] = r2] /\ rq[t].pc = "before"
        BY <1>3, <2>4, <3>1 DEF AtPlugin, At, Catch, Advance, Go, Threw, Plugin
      <3>3. ThrewLate(t, r2)
        BY <2>1 DEF ThrewLate
      <3> QED
        BY <3>2, <3>3
    <2> QED
      BY <1>3, <2>3, <2>4 DEF BeforeParse, BeforeRun
  <1> QED
    BY <1>2, <1>3

LEMMA AfterStep ==
    ASSUME TypeOK, NEW t \in Threads, AfterParse(t)
    PROVE  \E r2 : /\ rq' = [rq EXCEPT ![t] = r2] /\ rq[t].pc = "after"
                   /\ TurnOf(t, "after", AfterStart(t), AfterRun(t), "containers", r2)
  <1>1. rq[t] \in Request /\ Len(Plugins) \in Nat /\ "after" \in Steps /\ "containers" \in Steps
    BY PluginPlaces DEF TypeOK, Steps
  <1>2. PluginLoop(t, "after", AfterStart(t), AfterRun(t), "containers")
    BY DEF AfterParse, AfterStart, AfterRun
  <1>3. CASE ~AtPlugin(t, "after")
    BY <1>1, <1>2, <1>3, EndOfLoop
  <1>4. CASE AtPlugin(t, "after")
    <2>1. rq[t].next \in 1..Len(Plugins)
      BY <1>1, <1>4 DEF AtPlugin, Request
    <2>2. AfterRun(t) \in Request /\ AfterRun(t).next = rq[t].next
      BY <2>1, RunTypes
    <2>3. AfterStart(t) \in Request /\ AfterStart(t).next = rq[t].next
      BY <1>1 DEF AfterStart, Request
    <2> QED
      BY <1>1, <1>2, <2>2, <2>3, LoopStep
  <1> QED
    BY <1>3, <1>4

LEMMA ContainersStep ==
    ASSUME TypeOK, NEW t \in Threads, ContainerHtml(t)
    PROVE  \E r2 : /\ rq' = [rq EXCEPT ![t] = r2] /\ rq[t].pc = "containers"
                   /\ TurnOf(t, "containers", rq[t], ContainersRun(t), "add", r2)
  <1>1. rq[t] \in Request /\ Len(Plugins) \in Nat /\ "containers" \in Steps /\ "add" \in Steps
    BY PluginPlaces DEF TypeOK, Steps
  <1>2. PluginLoop(t, "containers", rq[t], ContainersRun(t), "add")
    BY DEF ContainerHtml, ContainersRun
  <1>3. CASE ~AtPlugin(t, "containers")
    BY <1>1, <1>2, <1>3, EndOfLoop
  <1>4. CASE AtPlugin(t, "containers")
    <2>1. rq[t].next \in 1..Len(Plugins)
      BY <1>1, <1>4 DEF AtPlugin, Request
    <2>2. ContainersRun(t) \in Request /\ ContainersRun(t).next = rq[t].next
      BY <2>1, RunTypes
    <2> QED
      BY <1>1, <1>2, <2>2, LoopStep
  <1> QED
    BY <1>3, <1>4

-----------------------------------------------------------------------------
(* Which plugins have run. *)

ReadingTokens == {"tokens:read", "tokens:regexes"}

(* The place up to which each loop of the request r has come.              *)
BeforeTurn(r) ==
    CASE r.pc \in ReadingTokens -> 1
      [] r.pc = "before" -> r.next
      [] OTHER -> Len(Plugins) + 1

AfterTurn(r) ==
    CASE r.pc \in ReadingTokens \cup {"before", "tokens:replace"} -> 1
      [] r.pc = "after" -> r.next
      [] OTHER -> Len(Plugins) + 1

ContainersTurn(r) ==
    CASE r.pc = "containers" -> r.next
      [] r.pc = "add" -> Len(Plugins) + 1
      [] OTHER -> 1

Spared(r) == PluginSet \ (r.threw \cup r.switched)

(* Of the plugins before the place n that neither have thrown nor been     *)
(* switched, those in "ran" are the enabled ones; of the others, none is.  *)
RanUpTo(ran, r, n) ==
    \A i \in 1..Len(Plugins) :
       Plugins[i] \in Spared(r) => (Plugins[i] \in ran <=> i < n /\ Plugins[i] \in enabled)

LoopsOf(r) ==
    r.pc \notin {"idle", "edit:clear"} =>
       /\ r.pc \in ReadingTokens \cup {"tokens:replace"} => r.next = 1
       /\ RanUpTo(r.html.before, r, BeforeTurn(r))
       /\ RanUpTo(r.html.after, r, AfterTurn(r))
       /\ RanUpTo(r.html.containers, r, ContainersTurn(r))

LoopsInv == \A t \in Threads : LoopsOf(rq[t])

(* One turn of a loop at the place n: of a plugin that is off, of one that *)
(* runs, of one that throws.                                               *)
LEMMA Turn ==
    ASSUME NEW ran, NEW ran2, NEW r, NEW r2, NEW n \in 1..Len(Plugins),
           RanUpTo(ran, r, n), Spared(r2) \subseteq Spared(r),
           \/ Plugins[n] \notin enabled /\ ran2 = ran
           \/ Plugins[n] \in enabled /\ ran2 = ran \cup {Plugins[n]}
           \/ Plugins[n] \notin Spared(r2) /\ ran2 \in {ran, ran \cup {Plugins[n]}}
    PROVE  RanUpTo(ran2, r2, n + 1)
  <1> SUFFICES ASSUME NEW i \in 1..Len(Plugins), Plugins[i] \in Spared(r2)
               PROVE  Plugins[i] \in ran2 <=> i < n + 1 /\ Plugins[i] \in enabled
    BY DEF RanUpTo
  <1>1. Plugins[i] \in ran <=> i < n /\ Plugins[i] \in enabled
    BY DEF RanUpTo
  <1>2. Len(Plugins) \in Nat /\ (Plugins[i] = Plugins[n] <=> i = n)
    BY PluginPlaces
  <1>3. CASE i = n
    BY <1>1, <1>3
  <1>4. CASE i # n
    <2>1. i < n + 1 <=> i < n
      BY <1>2, <1>4
    <2>2. Plugins[i] \in ran2 <=> Plugins[i] \in ran
      BY <1>2, <1>4
    <2> QED
      BY <1>1, <2>1, <2>2
  <1> QED
    BY <1>3, <1>4

LEMMA NoTurn ==
    ASSUME NEW ran, NEW r, NEW r2, NEW n, RanUpTo(ran, r, n), Spared(r2) \subseteq Spared(r)
    PROVE  RanUpTo(ran, r2, n)
  BY DEF RanUpTo

LEMMA NothingRan == ASSUME NEW r PROVE RanUpTo({}, r, 1)
  BY PluginPlaces DEF RanUpTo

(* What has been said of the request at work is enough, where plugins and  *)
(* other requests stay as they are.                                        *)
LEMMA LoopsOfOne ==
    ASSUME TypeOK, LoopsInv, NEW t \in Threads, NEW r2, rq' = [rq EXCEPT ![t] = r2],
           UNCHANGED enabled, LoopsOf(r2)
    PROVE  LoopsInv'
  <1> SUFFICES ASSUME NEW u \in Threads PROVE LoopsOf(rq[u])'
    BY DEF LoopsInv
  <1>1. rq'[u] = IF u = t THEN r2 ELSE rq[u]
    BY DEF TypeOK
  <1>2. LoopsOf(rq[u])
    BY DEF LoopsInv
  <1>3. LoopsOf(rq'[u])
    BY <1>1, <1>2
  <1> QED
    BY <1>3 DEF LoopsOf, RanUpTo

(* A turn that is made at a place of one of the loops, in its parts.       *)
LEMMA TurnParts ==
    ASSUME TypeOK, NEW t \in Threads, NEW pc \in Steps, NEW next \in Steps,
           NEW r \in Request, NEW run \in Request, NEW r2,
           TurnOf(t, pc, r, run, next, r2), rq[t].next \in 1..Len(Plugins)
    PROVE  LET n == rq[t].next
           IN /\ r2.pc = pc /\ r2.next = n + 1
              /\ r2.switched = r.switched \/ r2.switched = run.switched
              /\ \/ /\ Plugins[n] \notin enabled
                    /\ r2.html = r.html /\ r2.threw = r.threw
                    /\ r2.isCacheable = r.isCacheable
                 \/ /\ Plugins[n] \in enabled
                    /\ r2.html = run.html /\ r2.threw = run.threw
                    /\ r2.isCacheable = run.isCacheable
                 \/ /\ r2.html = r.html /\ r2.threw = r.threw \cup {Plugins[n]}
                    /\ r2.isCacheable = r.isCacheable
  <1>1. Len(Plugins) \in Nat /\ rq[t].next # Len(Plugins) + 1
    BY PluginPlaces
  <1> QED
    BY <1>1 DEF TurnOf, Request

LEMMA BeforeLoop ==
    ASSUME TypeOK, LoopsInv, NEW t \in Threads, BeforeParse(t)
    PROVE  LoopsInv'
  <1>1. PICK r2 : /\ rq' = [rq EXCEPT ![t] = r2] /\ rq[t].pc = "before"
                  /\ \/ TurnOf(t, "before", rq[t], BeforeRun(t), "tokens:replace", r2)
                     \/ ThrewLate(t, r2)
    BY BeforeStep
  <1> DEFINE n == rq[t].next
             places == /\ RanUpTo(rq[t].html.before, rq[t], BeforeTurn(rq[t]))
                       /\ RanUpTo(rq[t].html.after, rq[t], AfterTurn(rq[t]))
                       /\ RanUpTo(rq[t].html.containers, rq[t], ContainersTurn(rq[t]))
  <1>2. places /\ LoopsOf(rq[t])
    BY <1>1 DEF LoopsInv, LoopsOf
  <1>3. rq[t] \in Request /\ n \in 1..(Len(Plugins) + 1) /\ Len(Plugins) \in Nat
    BY PluginPlaces DEF TypeOK, Request
  <1>4. UNCHANGED enabled
    BY DEF BeforeParse, shared
  <1>5. CASE n \in 1..Len(Plugins)
    <2>1. BeforeRun(t) \in Request
      BY <1>5, RunTypes
    <2>2. /\ r2.pc = "before" /\ r2.next = n + 1 /\ r2.switched = rq[t].switched
          /\ \/ /\ Plugins[n] \notin enabled
                /\ r2.html = rq[t].html /\ r2.threw = rq[t].threw
             \/ /\ Plugins[n] \in enabled
                /\ r2.html = BeforeRun(t).html /\ r2.threw = rq[t].threw
             \/ /\ r2.html \in {rq[t].html, BeforeRun(t).html}
                /\ r2.threw = rq[t].threw \cup {Plugins[n]}
      <3>1. BeforeRun(t).switched = rq[t].switched /\ BeforeRun(t).threw = rq[t].threw
        BY <1>3 DEF BeforeRun, Request
      <3>2. CASE ThrewLate(t, r2)
        BY <1>3, <2>1, <3>1, <3>2 DEF ThrewLate, Request
      <3>3. CASE TurnOf(t, "before", rq[t], BeforeRun(t), "tokens:replace", r2)
        <4>1. "before" \in Steps /\ "tokens:replace" \in Steps
          BY DEF Steps
        <4> QED
          BY <1>3, <1>5, <2>1, <3>1, <3>3, <4>1, TurnParts
      <3> QED
        BY <1>1, <3>2, <3>3
    <2>3. /\ BeforeRun(t).html.before = rq[t].html.before \cup {Plugins[n]}
          /\ BeforeRun(t).html.after = rq[t].html.after
          /\ BeforeRun(t).html.containers = rq[t].html.containers
      BY <1>3 DEF BeforeRun, Plugin, Request, PageHtml
    <2>4. Spared(r2) \subseteq Spared(rq[t])
      BY <2>2 DEF Spared
    <2>5. RanUpTo(rq[t].html.before, rq[t], n)
      BY <1>1, <1>2 DEF BeforeTurn, ReadingTokens
    <2>6. RanUpTo(r2.html.before, r2, n + 1)
      <3>1. \/ Plugins[n] \notin enabled /\ r2.html.before = rq[t].html.before
            \/ Plugins[n] \in enabled /\ r2.html.before = rq[t].html.before \cup {Plugins[n]}
            \/ /\ Plugins[n] \notin Spared(r2)
               /\ r2.html.before \in {rq[t].html.before, rq[t].html.before \cup {Plugins[n]}}
        BY <2>2, <2>3 DEF Spared
      <3> QED
        BY <1>5, <2>4, <2>5, <3>1, Turn
    <2>7. r2.html.after = rq[t].html.after /\ RanUpTo(rq[t].html.after, r2, AfterTurn(rq[t]))
      BY <1>2, <2>2, <2>3, <2>4, NoTurn
    <2>8. r2.html.containers = rq[t].html.containers /\ RanUpTo(rq[t].html.containers, r2, ContainersTurn(rq[t]))
      BY <1>2, <2>2, <2>3, <2>4, NoTurn
    <2>9. LoopsOf(r2)
      BY <1>1, <2>2, <2>6, <2>7, <2>8
         DEF LoopsOf, BeforeTurn, AfterTurn, ContainersTurn, ReadingTokens
    <2> QED
      BY <1>1, <1>4, <2>9, LoopsOfOne
  <1>6. CASE n = Len(Plugins) + 1
    <2>1. r2 = [[rq[t] EXCEPT !.next = 1] EXCEPT !.pc = "tokens:replace"]
      BY <1>1, <1>3, <1>6 DEF TurnOf, ThrewLate
    <2>2. /\ r2.pc = "tokens:replace" /\ r2.next = 1 /\ r2.html = rq[t].html
          /\ r2.threw = rq[t].threw /\ r2.switched = rq[t].switched
      BY <1>3, <2>1 DEF Request
    <2>3. Spared(r2) \subseteq Spared(rq[t])
      BY <2>2 DEF Spared
    <2>4. /\ RanUpTo(r2.html.before, r2, BeforeTurn(rq[t]))
          /\ RanUpTo(r2.html.after, r2, AfterTurn(rq[t]))
          /\ RanUpTo(r2.html.containers, r2, ContainersTurn(rq[t]))
      BY <1>2, <2>2, <2>3, NoTurn
    <2>5. LoopsOf(r2)
      BY <1>1, <1>6, <2>2, <2>4
         DEF LoopsOf, BeforeTurn, AfterTurn, ContainersTurn, ReadingTokens
    <2> QED
      BY <1>1, <1>4, <2>5, LoopsOfOne
  <1> QED
    BY <1>3, <1>5, <1>6

LEMMA AfterLoop ==
    ASSUME TypeOK, LoopsInv, NEW t \in Threads, AfterParse(t)
    PROVE  LoopsInv'
  <1>1. PICK r2 : /\ rq' = [rq EXCEPT ![t] = r2] /\ rq[t].pc = "after"
                  /\ TurnOf(t, "after", AfterStart(t), AfterRun(t), "containers", r2)
    BY AfterStep
  <1> DEFINE n == rq[t].next
             places == /\ RanUpTo(rq[t].html.before, rq[t], BeforeTurn(rq[t]))
                       /\ RanUpTo(rq[t].html.after, rq[t], AfterTurn(rq[t]))
                       /\ RanUpTo(rq[t].html.containers, rq[t], ContainersTurn(rq[t]))
  <1>2. places /\ LoopsOf(rq[t])
    BY <1>1 DEF LoopsInv, LoopsOf
  <1>3. rq[t] \in Request /\ n \in 1..(Len(Plugins) + 1) /\ Len(Plugins) \in Nat
    BY PluginPlaces DEF TypeOK, Request
  <1>4. UNCHANGED enabled
    BY DEF AfterParse, shared
  <1>5. CASE n \in 1..Len(Plugins)
    <2>1. AfterRun(t) \in Request
      BY <1>5, RunTypes
    <2>2. /\ r2.pc = "after" /\ r2.next = n + 1 /\ r2.switched = rq[t].switched
          /\ \/ /\ Plugins[n] \notin enabled
                /\ r2.html = rq[t].html /\ r2.threw = rq[t].threw
             \/ /\ Plugins[n] \in enabled
                /\ r2.html = AfterRun(t).html /\ r2.threw = rq[t].threw
             \/ /\ r2.html \in {rq[t].html, AfterRun(t).html}
                /\ r2.threw = rq[t].threw \cup {Plugins[n]}
      <3>1. AfterRun(t).switched = rq[t].switched /\ AfterRun(t).threw = rq[t].threw
        BY <1>3 DEF AfterRun, AfterStart, Request
      <3>2. /\ AfterStart(t) \in Request /\ AfterStart(t).html = rq[t].html
            /\ AfterStart(t).switched = rq[t].switched /\ AfterStart(t).threw = rq[t].threw
        BY <1>3 DEF AfterStart, Request
      <3>3. "after" \in Steps /\ "containers" \in Steps
        BY DEF Steps
      <3> QED
        BY <1>1, <1>3, <1>5, <2>1, <3>1, <3>2, <3>3, TurnParts
    <2>3. /\ AfterRun(t).html.after = rq[t].html.after \cup {Plugins[n]}
          /\ AfterRun(t).html.before = rq[t].html.before
          /\ AfterRun(t).html.containers = rq[t].html.containers
      BY <1>3 DEF AfterRun, AfterStart, Plugin, Request, PageHtml
    <2>4. Spared(r2) \subseteq Spared(rq[t])
      BY <2>2 DEF Spared
    <2>5. RanUpTo(rq[t].html.after, rq[t], n)
      BY <1>1, <1>2 DEF AfterTurn, ReadingTokens
    <2>6. RanUpTo(r2.html.after, r2, n + 1)
      <3>1. \/ Plugins[n] \notin enabled /\ r2.html.after = rq[t].html.after
            \/ Plugins[n] \in enabled /\ r2.html.after = rq[t].html.after \cup {Plugins[n]}
            \/ /\ Plugins[n] \notin Spared(r2)
               /\ r2.html.after \in {rq[t].html.after, rq[t].html.after \cup {Plugins[n]}}
        BY <2>2, <2>3 DEF Spared
      <3> QED
        BY <1>5, <2>4, <2>5, <3>1, Turn
    <2>7. r2.html.before = rq[t].html.before /\ RanUpTo(rq[t].html.before, r2, BeforeTurn(rq[t]))
      BY <1>2, <2>2, <2>3, <2>4, NoTurn
    <2>8. r2.html.containers = rq[t].html.containers /\ RanUpTo(rq[t].html.containers, r2, ContainersTurn(rq[t]))
      BY <1>2, <2>2, <2>3, <2>4, NoTurn
    <2>9. LoopsOf(r2)
      BY <1>1, <2>2, <2>6, <2>7, <2>8
         DEF LoopsOf, BeforeTurn, AfterTurn, ContainersTurn, ReadingTokens
    <2> QED
      BY <1>1, <1>4, <2>9, LoopsOfOne
  <1>6. CASE n = Len(Plugins) + 1
    <2>1. r2 = [[rq[t] EXCEPT !.next = 1] EXCEPT !.pc = "containers"]
      BY <1>1, <1>3, <1>6 DEF TurnOf
    <2>2. /\ r2.pc = "containers" /\ r2.next = 1 /\ r2.html = rq[t].html
          /\ r2.threw = rq[t].threw /\ r2.switched = rq[t].switched
      BY <1>3, <2>1 DEF Request
    <2>3. Spared(r2) \subseteq Spared(rq[t])
      BY <2>2 DEF Spared
    <2>4. /\ RanUpTo(r2.html.before, r2, BeforeTurn(rq[t]))
          /\ RanUpTo(r2.html.after, r2, AfterTurn(rq[t]))
          /\ RanUpTo(r2.html.containers, r2, ContainersTurn(rq[t]))
      BY <1>2, <2>2, <2>3, NoTurn
    <2>5. LoopsOf(r2)
      BY <1>1, <1>6, <2>2, <2>4
         DEF LoopsOf, BeforeTurn, AfterTurn, ContainersTurn, ReadingTokens
    <2> QED
      BY <1>1, <1>4, <2>5, LoopsOfOne
  <1> QED
    BY <1>3, <1>5, <1>6

LEMMA ContainersLoop ==
    ASSUME TypeOK, LoopsInv, NEW t \in Threads, ContainerHtml(t)
    PROVE  LoopsInv'
  <1>1. PICK r2 : /\ rq' = [rq EXCEPT ![t] = r2] /\ rq[t].pc = "containers"
                  /\ TurnOf(t, "containers", rq[t], ContainersRun(t), "add", r2)
    BY ContainersStep
  <1> DEFINE n == rq[t].next
             places == /\ RanUpTo(rq[t].html.before, rq[t], BeforeTurn(rq[t]))
                       /\ RanUpTo(rq[t].html.after, rq[t], AfterTurn(rq[t]))
                       /\ RanUpTo(rq[t].html.containers, rq[t], ContainersTurn(rq[t]))
  <1>2. places /\ LoopsOf(rq[t])
    BY <1>1 DEF LoopsInv, LoopsOf
  <1>3. rq[t] \in Request /\ n \in 1..(Len(Plugins) + 1) /\ Len(Plugins) \in Nat
    BY PluginPlaces DEF TypeOK, Request
  <1>4. UNCHANGED enabled
    BY DEF ContainerHtml, shared
  <1>5. CASE n \in 1..Len(Plugins)
    <2>1. ContainersRun(t) \in Request
      BY <1>5, RunTypes
    <2>2. /\ r2.pc = "containers" /\ r2.next = n + 1 /\ r2.switched = rq[t].switched
          /\ \/ /\ Plugins[n] \notin enabled
                /\ r2.html = rq[t].html /\ r2.threw = rq[t].threw
             \/ /\ Plugins[n] \in enabled
                /\ r2.html = ContainersRun(t).html /\ r2.threw = rq[t].threw
             \/ /\ r2.html \in {rq[t].html, ContainersRun(t).html}
                /\ r2.threw = rq[t].threw \cup {Plugins[n]}
      <3>1. ContainersRun(t).switched = rq[t].switched /\ ContainersRun(t).threw = rq[t].threw
        BY <1>3 DEF ContainersRun, Request
      <3>3. "containers" \in Steps /\ "add" \in Steps
        BY DEF Steps
      <3> QED
        BY <1>1, <1>3, <1>5, <2>1, <3>1, <3>3, TurnParts
    <2>3. /\ ContainersRun(t).html.containers = rq[t].html.containers \cup {Plugins[n]}
          /\ ContainersRun(t).html.before = rq[t].html.before
          /\ ContainersRun(t).html.after = rq[t].html.after
      BY <1>3 DEF ContainersRun, Plugin, Request, PageHtml
    <2>4. Spared(r2) \subseteq Spared(rq[t])
      BY <2>2 DEF Spared
    <2>5. RanUpTo(rq[t].html.containers, rq[t], n)
      BY <1>1, <1>2 DEF ContainersTurn, ReadingTokens
    <2>6. RanUpTo(r2.html.containers, r2, n + 1)
      <3>1. \/ Plugins[n] \notin enabled /\ r2.html.containers = rq[t].html.containers
            \/ Plugins[n] \in enabled /\ r2.html.containers = rq[t].html.containers \cup {Plugins[n]}
            \/ /\ Plugins[n] \notin Spared(r2)
               /\ r2.html.containers \in {rq[t].html.containers, rq[t].html.containers \cup {Plugins[n]}}
        BY <2>2, <2>3 DEF Spared
      <3> QED
        BY <1>5, <2>4, <2>5, <3>1, Turn
    <2>7. r2.html.before = rq[t].html.before /\ RanUpTo(rq[t].html.before, r2, BeforeTurn(rq[t]))
      BY <1>2, <2>2, <2>3, <2>4, NoTurn
    <2>8. r2.html.after = rq[t].html.after /\ RanUpTo(rq[t].html.after, r2, AfterTurn(rq[t]))
      BY <1>2, <2>2, <2>3, <2>4, NoTurn
    <2>9. LoopsOf(r2)
      BY <1>1, <2>2, <2>6, <2>7, <2>8
         DEF LoopsOf, BeforeTurn, AfterTurn, ContainersTurn, ReadingTokens
    <2> QED
      BY <1>1, <1>4, <2>9, LoopsOfOne
  <1>6. CASE n = Len(Plugins) + 1
    <2>1. r2 = [[rq[t] EXCEPT !.next = 1] EXCEPT !.pc = "add"]
      BY <1>1, <1>3, <1>6 DEF TurnOf
    <2>2. /\ r2.pc = "add" /\ r2.next = 1 /\ r2.html = rq[t].html
          /\ r2.threw = rq[t].threw /\ r2.switched = rq[t].switched
      BY <1>3, <2>1 DEF Request
    <2>3. Spared(r2) \subseteq Spared(rq[t])
      BY <2>2 DEF Spared
    <2>4. /\ RanUpTo(r2.html.before, r2, BeforeTurn(rq[t]))
          /\ RanUpTo(r2.html.after, r2, AfterTurn(rq[t]))
          /\ RanUpTo(r2.html.containers, r2, ContainersTurn(rq[t]))
      BY <1>2, <2>2, <2>3, NoTurn
    <2>5. LoopsOf(r2)
      BY <1>1, <1>6, <2>2, <2>4
         DEF LoopsOf, BeforeTurn, AfterTurn, ContainersTurn, ReadingTokens
    <2> QED
      BY <1>1, <1>4, <2>5, LoopsOfOne
  <1> QED
    BY <1>3, <1>5, <1>6

LEMMA LoopsOfIdle == LoopsOf(Idle)
  BY DEF LoopsOf, Idle

LEMMA LoopsKept ==
    ASSUME TypeOK, LoopsInv, [Next]_vars
    PROVE  LoopsInv'
  <1>1. ASSUME NEW t \in Threads, BeginConversion(t)
        PROVE  LoopsInv'
    <2> SUFFICES ASSUME NEW u \in Threads PROVE LoopsOf(rq[u])'
      BY DEF LoopsInv
    <2>1. UNCHANGED enabled
      BY <1>1 DEF BeginConversion, shared
    <2>2. CASE u = t
      <3>1. /\ rq'[u].pc = "tokens:read" /\ rq'[u].next = 1
            /\ rq'[u].html = NoHtml
        BY <1>1, <2>2 DEF BeginConversion, Idle
      <3> QED
        BY <3>1, NothingRan, PluginPlaces
           DEF LoopsOf, RanUpTo, NoHtml, BeforeTurn, AfterTurn, ContainersTurn, ReadingTokens
    <2>3. CASE u # t
      <3>1. rq'[u] = [rq[u] EXCEPT !.undisturbed = FALSE]
        BY <1>1, <2>3 DEF BeginConversion
      <3>2. /\ rq'[u].pc = rq[u].pc /\ rq'[u].next = rq[u].next /\ rq'[u].html = rq[u].html
            /\ rq'[u].threw = rq[u].threw /\ rq'[u].switched = rq[u].switched
        BY <3>1 DEF TypeOK, Request
      <3>3. LoopsOf(rq[u])
        BY DEF LoopsInv
      <3> QED
        BY <2>1, <3>2, <3>3
           DEF LoopsOf, RanUpTo, Spared, BeforeTurn, AfterTurn, ContainersTurn
    <2> QED
      BY <2>2, <2>3
  <1>2. ASSUME NEW t \in Threads, ReadTokens(t) \/ ParseTokenRegexes(t)
        PROVE  LoopsInv'
    <2>1. PICK pc \in {"tokens:regexes", "before"} :
             rq' = [rq EXCEPT ![t] = [rq[t] EXCEPT !.pc = pc]]
      BY <1>2 DEF ReadTokens, ParseTokenRegexes, Go
    <2>2. UNCHANGED enabled /\ rq[t].pc \in ReadingTokens
      BY <1>2 DEF ReadTokens, ParseTokenRegexes, At, ReadingTokens
    <2>3. PICK r2 : r2 = [rq[t] EXCEPT !.pc = pc]
      OBVIOUS
    <2>4. LoopsOf(rq[t])
      BY DEF LoopsInv
    <2>5. /\ r2.pc = pc /\ r2.next = rq[t].next /\ r2.html = rq[t].html
          /\ r2.threw = rq[t].threw /\ r2.switched = rq[t].switched
      BY <2>3 DEF TypeOK, Request
    <2>6. LoopsOf(r2)
      BY <2>2, <2>4, <2>5
         DEF LoopsOf, RanUpTo, Spared, BeforeTurn, AfterTurn, ContainersTurn, ReadingTokens
    <2> QED
      BY <2>1, <2>2, <2>3, <2>6, LoopsOfOne
  <1>3. ASSUME NEW t \in Threads, SettingsThrow(t) \/ AddToCache(t) \/ ClearCache(t)
        PROVE  LoopsInv'
    <2>1. UNCHANGED enabled /\ rq' = [rq EXCEPT ![t] = [Idle EXCEPT !.pc = "idle"]]
      BY <1>3 DEF SettingsThrow, AddToCache, ClearCache, Go, shared
    <2>2. LoopsOf([Idle EXCEPT !.pc = "idle"])
      BY DEF LoopsOf, Idle
    <2> QED
      BY <2>1, <2>2, LoopsOfOne DEF Idle
  <1>4. ASSUME NEW t \in Threads, ReplaceTokensAfterParse(t)
        PROVE  LoopsInv'
    <2>1. PICK S : rq' = [rq EXCEPT ![t] = [[rq[t] EXCEPT !.html.tokens = S] EXCEPT !.pc = "after"]]
      BY <1>4 DEF ReplaceTokensAfterParse, Go
    <2>2. UNCHANGED enabled /\ rq[t].pc = "tokens:replace"
      BY <1>4 DEF ReplaceTokensAfterParse, At, shared
    <2>3. PICK r2 : r2 = [[rq[t] EXCEPT !.html.tokens = S] EXCEPT !.pc = "after"]
      OBVIOUS
    <2>4. LoopsOf(rq[t]) /\ rq[t] \in Request
      BY DEF LoopsInv, TypeOK
    <2>5. /\ r2.pc = "after" /\ r2.next = rq[t].next /\ r2.html.before = rq[t].html.before
          /\ r2.html.after = rq[t].html.after /\ r2.html.containers = rq[t].html.containers
          /\ r2.threw = rq[t].threw /\ r2.switched = rq[t].switched
      BY <2>3, <2>4 DEF Request, PageHtml
    <2>6. LoopsOf(r2)
      BY <2>2, <2>4, <2>5
         DEF LoopsOf, RanUpTo, Spared, BeforeTurn, AfterTurn, ContainersTurn, ReadingTokens
    <2> QED
      BY <2>1, <2>2, <2>3, <2>6, LoopsOfOne
  <1>5. ASSUME NEW t \in Threads, SwitchPlugin(t)
        PROVE  LoopsInv'
    <2> SUFFICES ASSUME NEW u \in Threads PROVE LoopsOf(rq[u])'
      BY DEF LoopsInv
    <2>1. PICK p \in PluginSet :
            /\ enabled' = IF p \in enabled THEN enabled \ {p} ELSE enabled \cup {p}
            /\ rq' = [v \in Threads |->
                        IF v = t THEN [Idle EXCEPT !.pc = "edit:clear"]
                        ELSE [rq[v] EXCEPT !.switched = @ \cup {p}]]
      BY <1>5 DEF SwitchPlugin
    <2>2. CASE u = t
      <3>1. rq'[u].pc = "edit:clear"
        BY <2>1, <2>2 DEF Idle
      <3> QED
        BY <3>1 DEF LoopsOf
    <2>3. CASE u # t
      <3>1. /\ rq'[u].pc = rq[u].pc /\ rq'[u].next = rq[u].next /\ rq'[u].html = rq[u].html
            /\ rq'[u].threw = rq[u].threw /\ rq'[u].switched = rq[u].switched \cup {p}
        BY <2>1, <2>3 DEF TypeOK, Request
      <3>2. LoopsOf(rq[u])
        BY DEF LoopsInv
      <3>3. \A q \in Spared(rq'[u]) : q \in Spared(rq[u]) /\ (q \in enabled' <=> q \in enabled)
        BY <2>1, <3>1 DEF Spared
      <3>4. BeforeTurn(rq'[u]) = BeforeTurn(rq[u]) /\ AfterTurn(rq'[u]) = AfterTurn(rq[u])
             /\ ContainersTurn(rq'[u]) = ContainersTurn(rq[u])
        BY <3>1 DEF BeforeTurn, AfterTurn, ContainersTurn
      <3>5. \A ran, n : RanUpTo(ran, rq[u], n) => RanUpTo(ran, rq[u], n)'
        BY <3>3 DEF RanUpTo
      <3> QED
        BY <3>1, <3>2, <3>4, <3>5 DEF LoopsOf, BeforeTurn, AfterTurn, ContainersTurn
    <2> QED
      BY <2>2, <2>3
  <1>6. ASSUME EditFile
        PROVE  LoopsInv'
    <2> SUFFICES ASSUME NEW u \in Threads PROVE LoopsOf(rq[u])'
      BY DEF LoopsInv
    <2>1. /\ rq'[u] = [rq[u] EXCEPT !.fileKept = FALSE, !.undisturbed = FALSE]
          /\ UNCHANGED enabled
      BY <1>6 DEF EditFile
    <2>2. /\ rq'[u].pc = rq[u].pc /\ rq'[u].next = rq[u].next /\ rq'[u].html = rq[u].html
          /\ rq'[u].threw = rq[u].threw /\ rq'[u].switched = rq[u].switched
      BY <2>1 DEF TypeOK, Request
    <2>3. LoopsOf(rq[u])
      BY DEF LoopsInv
    <2> QED
      BY <2>1, <2>2, <2>3
         DEF LoopsOf, RanUpTo, Spared, BeforeTurn, AfterTurn, ContainersTurn
  <1>7. ASSUME UNCHANGED <<rq, enabled>>
        PROVE  LoopsInv'
    BY <1>7 DEF LoopsInv, LoopsOf, RanUpTo
  <1> QED
    BY <1>1, <1>2, <1>3, <1>4, <1>5, <1>6, <1>7, BeforeLoop, AfterLoop, ContainersLoop
       DEF Next, Finished, vars

(* Whatever plugins throw, or are switched on or off, in the middle of a   *)
(* conversion: each of the others has run whole or not at all when it ends *)
(* (the three loops of TextPluginRunner ask for the enabled plugins anew). *)
THEOREM PluginsAreWhole == Spec => []PluginsRunWhole
  <1>1. Init => LoopsInv
    BY LoopsOfIdle DEF Init, LoopsInv
  <1>2. TypeOK /\ LoopsInv /\ [Next]_vars => LoopsInv'
    BY LoopsKept
  <1>3. TypeOK /\ LoopsInv => PluginsRunWhole
    <2> SUFFICES ASSUME TypeOK, LoopsInv, NEW t \in Threads, Converted(t),
                        NEW p \in PluginSet \ (rq[t].threw \cup rq[t].switched)
                 PROVE  /\ p \in rq[t].html.before <=> p \in enabled
                        /\ p \in rq[t].html.after <=> p \in enabled
                        /\ p \in rq[t].html.containers <=> p \in enabled
      BY DEF PluginsRunWhole
    <2>1. PICK i \in 1..Len(Plugins) : Plugins[i] = p
      BY PluginPlaces
    <2>2. /\ RanUpTo(rq[t].html.before, rq[t], Len(Plugins) + 1)
          /\ RanUpTo(rq[t].html.after, rq[t], Len(Plugins) + 1)
          /\ RanUpTo(rq[t].html.containers, rq[t], Len(Plugins) + 1)
      BY DEF LoopsInv, LoopsOf, Converted, At, BeforeTurn, AfterTurn, ContainersTurn,
             ReadingTokens
    <2>3. p \in Spared(rq[t]) /\ i < Len(Plugins) + 1
      BY <2>1, PluginPlaces DEF Spared
    <2> QED
      BY <2>1, <2>2, <2>3 DEF RanUpTo
  <1> QED
    BY <1>1, <1>2, <1>3, PipelineTypes, PTL DEF Spec

-----------------------------------------------------------------------------
(* The verdict on caching. *)

VerdictOf(r) ==
    /\ r.pc \in ReadingTokens \cup {"before", "tokens:replace"} => r.html.after = {}
    /\ (r.pc = "after" /\ r.next = 1) => r.html.after = {}
    /\ (r.pc \in {"after", "containers", "add"}
        /\ r.html.after \cap After \cap NotCacheable # {}) => ~r.isCacheable

VerdictInv == \A t \in Threads : VerdictOf(rq[t])

LEMMA VerdictOfOne ==
    ASSUME TypeOK, VerdictInv, NEW t \in Threads, NEW r2, rq' = [rq EXCEPT ![t] = r2],
           VerdictOf(r2)
    PROVE  VerdictInv'
  <1> SUFFICES ASSUME NEW u \in Threads PROVE VerdictOf(rq'[u])
    BY DEF VerdictInv, VerdictOf
  <1>1. rq'[u] = IF u = t THEN r2 ELSE rq[u]
    BY DEF TypeOK
  <1> QED
    BY <1>1 DEF VerdictInv

LEMMA BeforeVerdict ==
    ASSUME TypeOK, VerdictInv, NEW t \in Threads, BeforeParse(t)
    PROVE  VerdictInv'
  <1>1. PICK r2 : /\ rq' = [rq EXCEPT ![t] = r2] /\ rq[t].pc = "before"
                  /\ \/ TurnOf(t, "before", rq[t], BeforeRun(t), "tokens:replace", r2)
                     \/ ThrewLate(t, r2)
    BY BeforeStep
  <1>2. rq[t] \in Request /\ rq[t].html.after = {}
    BY <1>1 DEF TypeOK, VerdictInv, VerdictOf
  <1>3. BeforeRun(t).html.after = {}
    BY <1>2 DEF BeforeRun, Request, PageHtml
  <1>4. r2.html.after = {} /\ r2.pc \in {"before", "tokens:replace"}
    BY <1>1, <1>2, <1>3 DEF TurnOf, ThrewLate, BeforeRun, Request
  <1>5. VerdictOf(r2)
    BY <1>4 DEF VerdictOf
  <1> QED
    BY <1>1, <1>5, VerdictOfOne

(* Where AfterParse takes the verdict of its own: the text that it starts  *)
(* from has been changed by no plugin yet.                                 *)
LEMMA AfterVerdict ==
    ASSUME TypeOK, VerdictInv, NEW t \in Threads, AfterParse(t)
    PROVE  VerdictInv'
  <1> DEFINE n == rq[t].next
             objects(r) == r.html.after \cap After \cap NotCacheable
  <1>1. PICK r2 : /\ rq' = [rq EXCEPT ![t] = r2] /\ rq[t].pc = "after"
                  /\ TurnOf(t, "after", AfterStart(t), AfterRun(t), "containers", r2)
    BY AfterStep
  <1>2. rq[t] \in Request /\ n \in 1..(Len(Plugins) + 1) /\ Len(Plugins) \in Nat
    BY PluginPlaces DEF TypeOK, Request
  <1>3. /\ n = 1 => rq[t].html.after = {}
        /\ objects(rq[t]) # {} => ~rq[t].isCacheable
    BY <1>1 DEF VerdictInv, VerdictOf
  <1>4. CASE n \in 1..Len(Plugins)
    <2>1. /\ AfterStart(t).html = rq[t].html
          /\ AfterStart(t).isCacheable = (rq[t].isCacheable \/ n = 1)
      BY <1>2 DEF AfterStart, Request
    <2>2. objects(rq[t]) # {} => ~AfterStart(t).isCacheable
      BY <1>3, <2>1
    <2>3. /\ AfterRun(t).html.after = rq[t].html.after \cup {Plugins[n]}
          /\ AfterRun(t).isCacheable = Verdict(Plugins[n], After, AfterStart(t).isCacheable)
      BY <1>2, <2>1 DEF AfterRun, AfterStart, Plugin, Request, PageHtml
    <2>4. AfterRun(t).isCacheable =
            IF Plugins[n] \in After /\ AfterStart(t).isCacheable
            THEN Plugins[n] \notin NotCacheable ELSE AfterStart(t).isCacheable
      BY <2>3 DEF Verdict
    <2>5. objects(AfterRun(t)) # {} => ~AfterRun(t).isCacheable
      <3>1. CASE objects(rq[t]) # {}
        BY <2>2, <2>4, <3>1
      <3>2. CASE Plugins[n] \in After /\ Plugins[n] \in NotCacheable
        BY <2>4, <3>2
      <3> QED
        BY <2>3, <3>1, <3>2
    <2>6. /\ r2.pc = "after" /\ r2.next = n + 1
          /\ \/ r2.html = rq[t].html /\ r2.isCacheable = AfterStart(t).isCacheable
             \/ r2.html = AfterRun(t).html /\ r2.isCacheable = AfterRun(t).isCacheable
      <3>1. "after" \in Steps /\ "containers" \in Steps
        BY DEF Steps
      <3>2. AfterStart(t) \in Request
        BY <1>2 DEF AfterStart, Request
      <3>3. AfterRun(t) \in Request
        BY <1>4, RunTypes
      <3> QED
        BY <1>1, <1>4, <2>1, <3>1, <3>2, <3>3, TurnParts
    <2>7. VerdictOf(r2)
      BY <1>2, <2>2, <2>5, <2>6 DEF VerdictOf, ReadingTokens
    <2> QED
      BY <1>1, <2>7, VerdictOfOne
  <1>5. CASE n = Len(Plugins) + 1
    <2>1. r2 = [[rq[t] EXCEPT !.next = 1] EXCEPT !.pc = "containers"]
      BY <1>1, <1>2, <1>5 DEF TurnOf
    <2>2. r2.pc = "containers" /\ r2.html = rq[t].html /\ r2.isCacheable = rq[t].isCacheable
      BY <1>2, <2>1 DEF Request
    <2>3. VerdictOf(r2)
      BY <1>3, <2>2 DEF VerdictOf, ReadingTokens
    <2> QED
      BY <1>1, <2>3, VerdictOfOne
  <1> QED
    BY <1>2, <1>4, <1>5

LEMMA ContainersVerdict ==
    ASSUME TypeOK, VerdictInv, NEW t \in Threads, ContainerHtml(t)
    PROVE  VerdictInv'
  <1>1. PICK r2 : /\ rq' = [rq EXCEPT ![t] = r2] /\ rq[t].pc = "containers"
                  /\ TurnOf(t, "containers", rq[t], ContainersRun(t), "add", r2)
    BY ContainersStep
  <1>2. rq[t] \in Request /\ VerdictOf(rq[t])
    BY DEF TypeOK, VerdictInv
  <1>3. /\ ContainersRun(t).html.after = rq[t].html.after
        /\ ContainersRun(t).isCacheable = rq[t].isCacheable
    BY <1>2 DEF ContainersRun, Request, PageHtml
  <1>4. /\ r2.html.after = rq[t].html.after /\ r2.isCacheable = rq[t].isCacheable
        /\ r2.pc \in {"containers", "add"}
    BY <1>1, <1>2, <1>3 DEF TurnOf, ContainersRun, Request
  <1>5. VerdictOf(r2)
    BY <1>1, <1>2, <1>4 DEF VerdictOf, ReadingTokens
  <1> QED
    BY <1>1, <1>5, VerdictOfOne

LEMMA VerdictKept ==
    ASSUME TypeOK, VerdictInv, [Next]_vars
    PROVE  VerdictInv'
  <1>1. \A u \in Threads : rq[u] \in Request /\ VerdictOf(rq[u])
    BY DEF TypeOK, VerdictInv
  <1>2. ASSUME NEW t \in Threads, BeginConversion(t)
        PROVE  VerdictInv'
    <2> SUFFICES ASSUME NEW u \in Threads PROVE VerdictOf(rq'[u])
      BY DEF VerdictInv, VerdictOf
    <2>1. CASE u = t
      <3>1. rq'[u].pc = "tokens:read" /\ rq'[u].html = NoHtml
        BY <1>2, <2>1 DEF BeginConversion, Idle
      <3> QED
        BY <3>1 DEF VerdictOf, NoHtml
    <2>2. CASE u # t
      <3>1. /\ rq'[u].pc = rq[u].pc /\ rq'[u].next = rq[u].next /\ rq'[u].html = rq[u].html
            /\ rq'[u].isCacheable = rq[u].isCacheable
        BY <1>1, <1>2, <2>2 DEF BeginConversion, Request
      <3> QED
        BY <1>1, <3>1 DEF VerdictOf
    <2> QED
      BY <2>1, <2>2
  <1>3. ASSUME NEW t \in Threads, ReadTokens(t) \/ ParseTokenRegexes(t)
        PROVE  VerdictInv'
    <2>1. PICK pc \in {"tokens:regexes", "before"} :
             rq' = [rq EXCEPT ![t] = [rq[t] EXCEPT !.pc = pc]]
      BY <1>3 DEF ReadTokens, ParseTokenRegexes, Go
    <2>2. rq[t].pc \in ReadingTokens
      BY <1>3 DEF ReadTokens, ParseTokenRegexes, At, ReadingTokens
    <2>3. VerdictOf([rq[t] EXCEPT !.pc = pc])
      BY <1>1, <2>2 DEF VerdictOf, ReadingTokens, Request
    <2> QED
      BY <2>1, <2>3, VerdictOfOne
  <1>4. ASSUME NEW t \in Threads, SettingsThrow(t) \/ AddToCache(t) \/ ClearCache(t)
        PROVE  VerdictInv'
    <2>1. rq' = [rq EXCEPT ![t] = [Idle EXCEPT !.pc = "idle"]]
      BY <1>4 DEF SettingsThrow, AddToCache, ClearCache, Go
    <2>2. VerdictOf([Idle EXCEPT !.pc = "idle"])
      BY DEF VerdictOf, Idle, ReadingTokens
    <2> QED
      BY <2>1, <2>2, VerdictOfOne
  <1>5. ASSUME NEW t \in Threads, ReplaceTokensAfterParse(t)
        PROVE  VerdictInv'
    <2>1. PICK S : rq' = [rq EXCEPT ![t] = [[rq[t] EXCEPT !.html.tokens = S] EXCEPT !.pc = "after"]]
      BY <1>5 DEF ReplaceTokensAfterParse, Go
    <2>2. PICK r2 : r2 = [[rq[t] EXCEPT !.html.tokens = S] EXCEPT !.pc = "after"]
      OBVIOUS
    <2>3. rq[t].pc = "tokens:replace"
      BY <1>5 DEF ReplaceTokensAfterParse, At
    <2>4. r2.pc = "after" /\ r2.html.after = {}
      BY <1>1, <2>2, <2>3 DEF VerdictOf, Request, PageHtml
    <2>5. VerdictOf(r2)
      BY <2>4 DEF VerdictOf, ReadingTokens
    <2> QED
      BY <2>1, <2>2, <2>5, VerdictOfOne
  <1>6. ASSUME NEW t \in Threads, SwitchPlugin(t)
        PROVE  VerdictInv'
    <2> SUFFICES ASSUME NEW u \in Threads PROVE VerdictOf(rq'[u])
      BY DEF VerdictInv, VerdictOf
    <2>1. PICK p \in PluginSet :
            rq' = [v \in Threads |-> IF v = t THEN [Idle EXCEPT !.pc = "edit:clear"]
                                     ELSE [rq[v] EXCEPT !.switched = @ \cup {p}]]
      BY <1>6 DEF SwitchPlugin
    <2>2. CASE u = t
      <3>1. rq'[u].pc = "edit:clear"
        BY <2>1, <2>2 DEF Idle
      <3> QED
        BY <3>1 DEF VerdictOf, ReadingTokens
    <2>3. CASE u # t
      <3>1. /\ rq'[u].pc = rq[u].pc /\ rq'[u].next = rq[u].next /\ rq'[u].html = rq[u].html
            /\ rq'[u].isCacheable = rq[u].isCacheable
        BY <1>1, <2>1, <2>3 DEF Request
      <3> QED
        BY <1>1, <3>1 DEF VerdictOf
    <2> QED
      BY <2>2, <2>3
  <1>7. ASSUME EditFile
        PROVE  VerdictInv'
    <2> SUFFICES ASSUME NEW u \in Threads PROVE VerdictOf(rq'[u])
      BY DEF VerdictInv, VerdictOf
    <2>1. /\ rq'[u].pc = rq[u].pc /\ rq'[u].next = rq[u].next /\ rq'[u].html = rq[u].html
          /\ rq'[u].isCacheable = rq[u].isCacheable
      BY <1>1, <1>7 DEF EditFile, Request
    <2> QED
      BY <1>1, <2>1 DEF VerdictOf
  <1>8. ASSUME UNCHANGED rq
        PROVE  VerdictInv'
    BY <1>8 DEF VerdictInv
  <1> QED
    BY <1>2, <1>3, <1>4, <1>5, <1>6, <1>7, <1>8,
       BeforeVerdict, AfterVerdict, ContainersVerdict DEF Next, Finished, vars

(* A plugin that changes the text in AfterParse, and says it is not        *)
(* cacheable, is heard, whatever the plugins that run after it say: the    *)
(* verdict AfterParse starts from is its own, and it starts from it once.  *)
THEOREM ObjectionsStand == Spec => []ObjectionsAreKept
  <1>1. Init => VerdictInv
    BY DEF Init, VerdictInv, VerdictOf, Idle, ReadingTokens
  <1>2. TypeOK /\ VerdictInv /\ [Next]_vars => VerdictInv'
    BY VerdictKept
  <1>3. VerdictInv => ObjectionsAreKept
    BY DEF VerdictInv, VerdictOf, ObjectionsAreKept, Converted, At
  <1> QED
    BY <1>1, <1>2, <1>3, PipelineTypes, PTL DEF Spec

-----------------------------------------------------------------------------
(* The tokens. *)

(* What a conversion that nobody has disturbed can count on.               *)
TokensOf(r) ==
    /\ file.readable
    /\ r.pc \in {"tokens:regexes", "before", "tokens:replace"} => tokens.tokens = file.tokens
    /\ r.pc \in {"before", "tokens:replace"} => tokens.regexes
    /\ r.pc \in {"after", "containers", "add"} => r.html.tokens = file.tokens \ BadTokens

TokensInv ==
    \A t \in Threads :
       Converting(t) /\ rq[t].undisturbed =>
          /\ TokensOf(rq[t])
          /\ \A u \in Threads : u # t => ~Converting(u)

(* A conversion that is at work takes a step; no other, while it is        *)
(* undisturbed, does.                                                      *)
LEMMA TokensOfOne ==
    ASSUME TypeOK, TokensInv, NEW t \in Threads, NEW r2, rq' = [rq EXCEPT ![t] = r2],
           Converting(t), UNCHANGED file, r2.undisturbed = rq[t].undisturbed,
           \/ r2.pc = "idle"
           \/ rq[t].undisturbed => TokensOf(r2)'
    PROVE  TokensInv'
  <1> SUFFICES ASSUME NEW u \in Threads, Converting(u)', rq'[u].undisturbed
               PROVE  /\ TokensOf(rq[u])'
                      /\ \A v \in Threads : v # u => ~Converting(v)'
    BY DEF TokensInv
  <1>1. \A v \in Threads : rq'[v] = IF v = t THEN r2 ELSE rq[v]
    BY DEF TypeOK
  <1>2. CASE u = t
    <2>1. rq[t].undisturbed /\ TokensOf(r2)'
      BY <1>1, <1>2 DEF Converting
    <2>2. \A v \in Threads : v # t => ~Converting(v)
      BY <2>1 DEF TokensInv
    <2> QED
      BY <1>1, <1>2, <2>1, <2>2 DEF Converting, TokensOf
  <1>3. CASE u # t
    <2>1. Converting(u) /\ rq[u].undisturbed
      BY <1>1, <1>3 DEF Converting
    <2>2. ~Converting(t)
      BY <1>3, <2>1 DEF TokensInv
    <2> QED
      BY <2>2
  <1> QED
    BY <1>2, <1>3

LEMMA TurnKeepsTokens ==
    ASSUME TypeOK, NEW t \in Threads, NEW r2,
           \/ /\ rq[t].pc = "before"
              /\ \/ TurnOf(t, "before", rq[t], BeforeRun(t), "tokens:replace", r2)
                 \/ ThrewLate(t, r2)
           \/ /\ rq[t].pc = "after"
              /\ TurnOf(t, "after", AfterStart(t), AfterRun(t), "containers", r2)
           \/ /\ rq[t].pc = "containers"
              /\ TurnOf(t, "containers", rq[t], ContainersRun(t), "add", r2)
    PROVE  /\ r2.undisturbed = rq[t].undisturbed /\ r2.html.tokens = rq[t].html.tokens
           /\ r2.fileKept = rq[t].fileKept
           /\ rq[t].pc = "before" => r2.pc \in {"before", "tokens:replace"}
           /\ rq[t].pc \in {"after", "containers"} => r2.pc \in {"after", "containers", "add"}
  <1>1. rq[t] \in Request
    BY DEF TypeOK
  <1> DEFINE n == rq[t].next
             same(r) == /\ r.undisturbed = rq[t].undisturbed /\ r.fileKept = rq[t].fileKept
                        /\ r.html.tokens = rq[t].html.tokens
  <1>2. Plugin(t) = Plugins[n] /\ n \in 1..(Len(Plugins) + 1) /\ Len(Plugins) \in Nat
    BY <1>1, PluginPlaces DEF Plugin, Request
  <1>3. ASSUME NEW r \in Request, NEW run \in Request, NEW pc \in Steps, NEW next \in Steps,
               same(r), same(run), n \in 1..Len(Plugins), TurnOf(t, pc, r, run, next, r2)
        PROVE  same(r2) /\ r2.pc = pc
    <2>1. CASE r2 = [[r EXCEPT !.next = n + 1] EXCEPT !.pc = pc]
      <3>1. r2.undisturbed = r.undisturbed /\ r2.html = r.html /\ r2.pc = pc /\ r2.fileKept = r.fileKept
        BY <2>1 DEF Request
      <3> QED
        BY <1>3, <3>1
    <2>2. CASE r2 = [[run EXCEPT !.next = n + 1] EXCEPT !.pc = pc]
      <3>1. r2.undisturbed = run.undisturbed /\ r2.html = run.html /\ r2.pc = pc /\ r2.fileKept = run.fileKept
        BY <2>2 DEF Request
      <3> QED
        BY <1>3, <3>1
    <2>3. CASE r2 = [[[r EXCEPT !.threw = @ \cup {Plugins[n]}] EXCEPT !.next = n + 1]
                        EXCEPT !.pc = pc]
      <3>1. r2.undisturbed = r.undisturbed /\ r2.html = r.html /\ r2.pc = pc /\ r2.fileKept = r.fileKept
        BY <2>3 DEF Request
      <3> QED
        BY <1>3, <3>1
    <2> QED
      BY <1>2, <1>3, <2>1, <2>2, <2>3 DEF TurnOf
  <1>4. ASSUME NEW r, NEW run, NEW pc \in Steps, NEW next \in Steps,
               n = Len(Plugins) + 1, TurnOf(t, pc, r, run, next, r2)
        PROVE  same(r2) /\ r2.pc = next
    <2>1. r2 = [[rq[t] EXCEPT !.next = 1] EXCEPT !.pc = next]
      BY <1>2, <1>4 DEF TurnOf
    <2>2. /\ r2.undisturbed = rq[t].undisturbed /\ r2.fileKept = rq[t].fileKept
          /\ r2.html = rq[t].html /\ r2.pc = next
      BY <1>1, <2>1 DEF Request
    <2> QED
      BY <2>2
  <1>5. CASE n = Len(Plugins) + 1
    <2>1. ~ThrewLate(t, r2)
      BY <1>2, <1>5 DEF ThrewLate
    <2>2. {"before", "tokens:replace", "after", "containers", "add"} \subseteq Steps
      BY DEF Steps
    <2> QED
      BY <1>4, <1>5, <2>1, <2>2
  <1>6. CASE n \in 1..Len(Plugins)
    <2>1. /\ BeforeRun(t) \in Request /\ AfterRun(t) \in Request
          /\ ContainersRun(t) \in Request /\ AfterStart(t) \in Request
      BY <1>1, <1>6, RunTypes DEF AfterStart, Request
    <2>2. same(BeforeRun(t))
      BY <1>1, <2>1 DEF BeforeRun, Request, PageHtml
    <2>3. same(AfterStart(t))
      BY <1>1, <2>1 DEF AfterStart, Request, PageHtml
    <2>4. same(AfterRun(t))
      BY <2>1, <2>3 DEF AfterRun, Request, PageHtml
    <2>5. same(ContainersRun(t))
      BY <1>1, <2>1 DEF ContainersRun, Request, PageHtml
    <2>6. ThrewLate(t, r2) => same(r2) /\ r2.pc = "before"
      BY <2>1, <2>2 DEF ThrewLate, Request
    <2>7. {"before", "tokens:replace", "after", "containers", "add"} \subseteq Steps
      BY DEF Steps
    <2> HIDE DEF same, n
    <2>8. rq[t].pc = "before" => same(r2) /\ r2.pc = "before"
      BY <1>1, <1>3, <1>6, <2>1, <2>2, <2>6, <2>7 DEF same
    <2>9. rq[t].pc = "after" => same(r2) /\ r2.pc = "after"
      BY <1>1, <1>3, <1>6, <2>1, <2>3, <2>4, <2>7
    <2>10. rq[t].pc = "containers" => same(r2) /\ r2.pc = "containers"
      BY <1>1, <1>3, <1>6, <2>1, <2>5, <2>7 DEF same
    <2> QED
      BY <2>8, <2>9, <2>10 DEF same
  <1> QED
    BY <1>2, <1>5, <1>6

LEMMA TokensKept ==
    ASSUME TypeOK, TokensInv, [Next]_vars
    PROVE  TokensInv'
  <1>1. \A u \in Threads : rq[u] \in Request
    BY DEF TypeOK
  <1>2. ASSUME NEW t \in Threads, BeginConversion(t)
        PROVE  TokensInv'
    <2>1. \A u \in Threads : u # t => ~rq'[u].undisturbed
      BY <1>1, <1>2 DEF BeginConversion, Request
    <2>2. /\ rq'[t].pc = "tokens:read"
          /\ rq'[t].undisturbed => file.readable /\ \A u \in Threads : ~Converting(u)
      BY <1>2 DEF BeginConversion, Idle
    <2>3. \A u \in Threads : u # t => rq'[u].pc = rq[u].pc
      BY <1>1, <1>2 DEF BeginConversion, Request
    <2>4. UNCHANGED file
      BY <1>2 DEF BeginConversion, shared
    <2> QED
      BY <2>1, <2>2, <2>3, <2>4 DEF TokensInv, TokensOf, Converting
  <1>3. ASSUME NEW t \in Threads, ReadTokens(t)
        PROVE  TokensInv'
    <2>1. PICK r2 : r2 = [rq[t] EXCEPT !.pc = "tokens:regexes"]
      OBVIOUS
    <2>2. /\ rq' = [rq EXCEPT ![t] = r2] /\ Converting(t) /\ UNCHANGED file
          /\ tokens'.tokens = Deserialize
      BY <1>3, <2>1 DEF ReadTokens, Go, At, Converting
    <2>3. r2.pc = "tokens:regexes" /\ r2.undisturbed = rq[t].undisturbed
      BY <1>1, <2>1 DEF Request
    <2>4. rq[t].undisturbed => TokensOf(r2)'
      BY <2>2, <2>3 DEF TokensInv, TokensOf, Deserialize
    <2> QED
      BY <2>2, <2>3, <2>4, TokensOfOne
  <1>4. ASSUME NEW t \in Threads, ParseTokenRegexes(t)
        PROVE  TokensInv'
    <2>1. PICK r2 : r2 = [rq[t] EXCEPT !.pc = "before"]
      OBVIOUS
    <2>2. /\ rq' = [rq EXCEPT ![t] = r2] /\ rq[t].pc = "tokens:regexes"
          /\ Converting(t) /\ UNCHANGED file
          /\ tokens' = [tokens EXCEPT !.regexes = TRUE]
      BY <1>4, <2>1 DEF ParseTokenRegexes, Go, At, Converting
    <2>3. r2.pc = "before" /\ r2.undisturbed = rq[t].undisturbed
      BY <1>1, <2>1 DEF Request
    <2>4. tokens'.tokens = tokens.tokens /\ tokens'.regexes
      BY <2>2 DEF TypeOK, TokenList
    <2>5. rq[t].undisturbed => TokensOf(r2)'
      BY <2>2, <2>3, <2>4 DEF TokensInv, TokensOf
    <2> QED
      BY <2>2, <2>3, <2>5, TokensOfOne
  <1>5. ASSUME NEW t \in Threads, BeforeParse(t) \/ AfterParse(t) \/ ContainerHtml(t)
        PROVE  TokensInv'
    <2>1. PICK r2 :
            /\ rq' = [rq EXCEPT ![t] = r2]
            /\ \/ /\ rq[t].pc = "before"
                  /\ \/ TurnOf(t, "before", rq[t], BeforeRun(t), "tokens:replace", r2)
                     \/ ThrewLate(t, r2)
               \/ /\ rq[t].pc = "after"
                  /\ TurnOf(t, "after", AfterStart(t), AfterRun(t), "containers", r2)
               \/ /\ rq[t].pc = "containers"
                  /\ TurnOf(t, "containers", rq[t], ContainersRun(t), "add", r2)
      <3>1. CASE BeforeParse(t)
        BY <3>1, BeforeStep
      <3>2. CASE AfterParse(t)
        BY <3>2, AfterStep
      <3>3. CASE ContainerHtml(t)
        BY <3>3, ContainersStep
      <3> QED
        BY <1>5, <3>1, <3>2, <3>3
    <2>2. /\ r2.undisturbed = rq[t].undisturbed /\ r2.html.tokens = rq[t].html.tokens
          /\ rq[t].pc = "before" => r2.pc \in {"before", "tokens:replace"}
          /\ rq[t].pc \in {"after", "containers"} => r2.pc \in {"after", "containers", "add"}
      BY <2>1, TurnKeepsTokens
    <2>3. UNCHANGED <<file, tokens>> /\ Converting(t)
          /\ rq[t].pc \in {"before", "after", "containers"}
      BY <1>5, <2>1 DEF BeforeParse, AfterParse, ContainerHtml, shared, Converting
    <2>4. rq[t].undisturbed => TokensOf(r2)'
      BY <2>2, <2>3 DEF TokensInv, TokensOf
    <2> QED
      BY <2>1, <2>2, <2>3, <2>4, TokensOfOne
  <1>6. ASSUME NEW t \in Threads, ReplaceTokensAfterParse(t)
        PROVE  TokensInv'
    <2> DEFINE replaced == IF tokens.regexes THEN tokens.tokens \ BadTokens ELSE {}
    <2>1. PICK r2 : r2 = [[rq[t] EXCEPT !.html.tokens = replaced] EXCEPT !.pc = "after"]
      OBVIOUS
    <2>2. /\ rq' = [rq EXCEPT ![t] = r2] /\ rq[t].pc = "tokens:replace"
          /\ Converting(t) /\ UNCHANGED file
      BY <1>6, <2>1 DEF ReplaceTokensAfterParse, Go, At, Converting, shared
    <2>3. /\ r2.pc = "after" /\ r2.undisturbed = rq[t].undisturbed
          /\ r2.html.tokens = replaced
      BY <1>1, <2>1 DEF Request, PageHtml
    <2>4. rq[t].undisturbed => TokensOf(r2)'
      BY <2>2, <2>3 DEF TokensInv, TokensOf
    <2> QED
      BY <2>2, <2>3, <2>4, TokensOfOne
  <1>7. ASSUME NEW t \in Threads, SettingsThrow(t) \/ AddToCache(t) \/ ClearCache(t)
        PROVE  TokensInv'
    <2>1. rq' = [rq EXCEPT ![t] = [Idle EXCEPT !.pc = "idle"]] /\ UNCHANGED <<file, tokens>>
      BY <1>7 DEF SettingsThrow, AddToCache, ClearCache, Go, shared
    <2>2. rq'[t].pc = "idle" /\ \A u \in Threads : u # t => rq'[u] = rq[u]
      BY <2>1 DEF TypeOK, Idle
    <2> QED
      BY <2>1, <2>2 DEF TokensInv, TokensOf, Converting
  <1>8. ASSUME NEW t \in Threads, SwitchPlugin(t)
        PROVE  TokensInv'
    <2>1. PICK p \in PluginSet :
            rq' = [v \in Threads |-> IF v = t THEN [Idle EXCEPT !.pc = "edit:clear"]
                                     ELSE [rq[v] EXCEPT !.switched = @ \cup {p}]]
      BY <1>8 DEF SwitchPlugin
    <2>2. rq'[t].pc = "edit:clear"
      BY <2>1 DEF Idle
    <2>3. \A u \in Threads : u # t => /\ rq'[u].pc = rq[u].pc /\ rq'[u].html = rq[u].html
                                      /\ rq'[u].undisturbed = rq[u].undisturbed
      BY <1>1, <2>1 DEF Request
    <2>4. UNCHANGED <<file, tokens>>
      BY <1>8 DEF SwitchPlugin
    <2> QED
      BY <2>2, <2>3, <2>4 DEF TokensInv, TokensOf, Converting
  <1>9. ASSUME EditFile
        PROVE  TokensInv'
    <2>1. \A u \in Threads : ~rq'[u].undisturbed
      BY <1>1, <1>9 DEF EditFile, Request
    <2> QED
      BY <2>1 DEF TokensInv
  <1>10. ASSUME UNCHANGED <<rq, file, tokens>>
         PROVE  TokensInv'
    BY <1>10 DEF TokensInv, TokensOf, Converting
  <1> QED
    BY <1>2, <1>3, <1>4, <1>5, <1>6, <1>7, <1>8, <1>9, <1>10 DEF Next, Finished, vars

(* What a conversion in whose time nobody has edited the file can count    *)
(* on: whoever overlaps it has put the same list in the static field.      *)
ListOf(r) ==
    /\ file.readable
    /\ r.pc \in {"tokens:regexes", "before", "tokens:replace"} => tokens.tokens = file.tokens
    /\ r.pc \in {"after", "containers", "add"} =>
          r.html.tokens \subseteq file.tokens \ BadTokens

ListInv == \A t \in Threads : Converting(t) /\ rq[t].fileKept => ListOf(rq[t])

(* The other conversions at work do not mind the step of one.              *)
LEMMA ListOfOne ==
    ASSUME TypeOK, ListInv, NEW t \in Threads, NEW r2, rq' = [rq EXCEPT ![t] = r2],
           Converting(t), UNCHANGED file, r2.fileKept = rq[t].fileKept,
           tokens'.tokens = tokens.tokens \/ tokens'.tokens = Deserialize,
           r2.pc = "idle" \/ (rq[t].fileKept => ListOf(r2)')
    PROVE  ListInv'
  <1> SUFFICES ASSUME NEW u \in Threads, Converting(u)', rq'[u].fileKept
               PROVE  ListOf(rq[u])'
    BY DEF ListInv
  <1>1. \A v \in Threads : rq'[v] = IF v = t THEN r2 ELSE rq[v]
    BY DEF TypeOK
  <1>2. CASE u = t
    BY <1>1, <1>2 DEF Converting, ListOf
  <1>3. CASE u # t
    <2>1. rq'[u] = rq[u] /\ ListOf(rq[u])
      BY <1>1, <1>3 DEF ListInv, Converting
    <2>2. Deserialize = file.tokens
      BY <2>1 DEF ListOf, Deserialize
    <2> QED
      BY <2>1, <2>2 DEF ListOf
  <1> QED
    BY <1>2, <1>3

LEMMA ListKept ==
    ASSUME TypeOK, ListInv, [Next]_vars
    PROVE  ListInv'
  <1>1. \A u \in Threads : rq[u] \in Request
    BY DEF TypeOK
  <1>2. ASSUME NEW t \in Threads, BeginConversion(t)
        PROVE  ListInv'
    <2>1. rq'[t].pc = "tokens:read" /\ (rq'[t].fileKept => file.readable)
      BY <1>2 DEF BeginConversion, Idle
    <2>2. \A u \in Threads : u # t => /\ rq'[u].pc = rq[u].pc /\ rq'[u].html = rq[u].html
                                      /\ rq'[u].fileKept = rq[u].fileKept
      BY <1>1, <1>2 DEF BeginConversion, Request
    <2>3. UNCHANGED <<file, tokens>>
      BY <1>2 DEF BeginConversion, shared
    <2> QED
      BY <2>1, <2>2, <2>3 DEF ListInv, ListOf, Converting
  <1>3. ASSUME NEW t \in Threads, ReadTokens(t)
        PROVE  ListInv'
    <2>1. PICK r2 : r2 = [rq[t] EXCEPT !.pc = "tokens:regexes"]
      OBVIOUS
    <2>2. /\ rq' = [rq EXCEPT ![t] = r2] /\ Converting(t) /\ UNCHANGED file
          /\ tokens'.tokens = Deserialize
      BY <1>3, <2>1 DEF ReadTokens, Go, At, Converting
    <2>3. r2.pc = "tokens:regexes" /\ r2.fileKept = rq[t].fileKept
      BY <1>1, <2>1 DEF Request
    <2>4. rq[t].fileKept => ListOf(r2)'
      BY <2>2, <2>3 DEF ListInv, ListOf, Deserialize
    <2> QED
      BY <2>2, <2>3, <2>4, ListOfOne
  <1>4. ASSUME NEW t \in Threads, ParseTokenRegexes(t)
        PROVE  ListInv'
    <2>1. PICK r2 : r2 = [rq[t] EXCEPT !.pc = "before"]
      OBVIOUS
    <2>2. /\ rq' = [rq EXCEPT ![t] = r2] /\ rq[t].pc = "tokens:regexes"
          /\ Converting(t) /\ UNCHANGED file
          /\ tokens' = [tokens EXCEPT !.regexes = TRUE]
      BY <1>4, <2>1 DEF ParseTokenRegexes, Go, At, Converting
    <2>3. r2.pc = "before" /\ r2.fileKept = rq[t].fileKept
      BY <1>1, <2>1 DEF Request
    <2>4. tokens'.tokens = tokens.tokens
      BY <2>2 DEF TypeOK, TokenList
    <2>5. rq[t].fileKept => ListOf(r2)'
      BY <2>2, <2>3, <2>4 DEF ListInv, ListOf
    <2> QED
      BY <2>2, <2>3, <2>4, <2>5, ListOfOne
  <1>5. ASSUME NEW t \in Threads, BeforeParse(t) \/ AfterParse(t) \/ ContainerHtml(t)
        PROVE  ListInv'
    <2>1. PICK r2 :
            /\ rq' = [rq EXCEPT ![t] = r2]
            /\ \/ /\ rq[t].pc = "before"
                  /\ \/ TurnOf(t, "before", rq[t], BeforeRun(t), "tokens:replace", r2)
                     \/ ThrewLate(t, r2)
               \/ /\ rq[t].pc = "after"
                  /\ TurnOf(t, "after", AfterStart(t), AfterRun(t), "containers", r2)
               \/ /\ rq[t].pc = "containers"
                  /\ TurnOf(t, "containers", rq[t], ContainersRun(t), "add", r2)
      BY <1>5, BeforeStep, AfterStep, ContainersStep
    <2>2. /\ r2.fileKept = rq[t].fileKept /\ r2.html.tokens = rq[t].html.tokens
          /\ rq[t].pc = "before" => r2.pc \in {"before", "tokens:replace"}
          /\ rq[t].pc \in {"after", "containers"} => r2.pc \in {"after", "containers", "add"}
      BY <2>1, TurnKeepsTokens
    <2>3. UNCHANGED <<file, tokens>> /\ Converting(t)
          /\ rq[t].pc \in {"before", "after", "containers"}
      BY <1>5, <2>1 DEF BeforeParse, AfterParse, ContainerHtml, shared, Converting
    <2>4. rq[t].fileKept => ListOf(r2)'
      BY <2>2, <2>3 DEF ListInv, ListOf
    <2> QED
      BY <2>1, <2>2, <2>3, <2>4, ListOfOne
  <1>6. ASSUME NEW t \in Threads, ReplaceTokensAfterParse(t)
        PROVE  ListInv'
    <2> DEFINE replaced == IF tokens.regexes THEN tokens.tokens \ BadTokens ELSE {}
    <2>1. PICK r2 : r2 = [[rq[t] EXCEPT !.html.tokens = replaced] EXCEPT !.pc = "after"]
      OBVIOUS
    <2>2. /\ rq' = [rq EXCEPT ![t] = r2] /\ rq[t].pc = "tokens:replace"
          /\ Converting(t) /\ UNCHANGED <<file, tokens>>
      BY <1>6, <2>1 DEF ReplaceTokensAfterParse, Go, At, Converting, shared
    <2>3. /\ r2.pc = "after" /\ r2.fileKept = rq[t].fileKept
          /\ r2.html.tokens = replaced
      BY <1>1, <2>1 DEF Request, PageHtml
    <2>4. rq[t].fileKept => ListOf(r2)'
      BY <2>2, <2>3 DEF ListInv, ListOf
    <2> QED
      BY <2>2, <2>3, <2>4, ListOfOne
  <1>7. ASSUME NEW t \in Threads, SettingsThrow(t) \/ AddToCache(t) \/ ClearCache(t)
        PROVE  ListInv'
    <2>1. rq' = [rq EXCEPT ![t] = [Idle EXCEPT !.pc = "idle"]] /\ UNCHANGED <<file, tokens>>
      BY <1>7 DEF SettingsThrow, AddToCache, ClearCache, Go, shared
    <2>2. rq'[t].pc = "idle" /\ \A u \in Threads : u # t => rq'[u] = rq[u]
      BY <2>1 DEF TypeOK, Idle
    <2> QED
      BY <2>1, <2>2 DEF ListInv, ListOf, Converting
  <1>8. ASSUME NEW t \in Threads, SwitchPlugin(t)
        PROVE  ListInv'
    <2>1. PICK p \in PluginSet :
            rq' = [v \in Threads |-> IF v = t THEN [Idle EXCEPT !.pc = "edit:clear"]
                                     ELSE [rq[v] EXCEPT !.switched = @ \cup {p}]]
      BY <1>8 DEF SwitchPlugin
    <2>2. rq'[t].pc = "edit:clear"
      BY <2>1 DEF Idle
    <2>3. \A u \in Threads : u # t => /\ rq'[u].pc = rq[u].pc /\ rq'[u].html = rq[u].html
                                      /\ rq'[u].fileKept = rq[u].fileKept
      BY <1>1, <2>1 DEF Request
    <2>4. UNCHANGED <<file, tokens>>
      BY <1>8 DEF SwitchPlugin
    <2> QED
      BY <2>2, <2>3, <2>4 DEF ListInv, ListOf, Converting
  <1>9. ASSUME EditFile
        PROVE  ListInv'
    <2>1. \A u \in Threads : ~rq'[u].fileKept
      BY <1>1, <1>9 DEF EditFile, Request
    <2> QED
      BY <2>1 DEF ListInv
  <1>10. ASSUME UNCHANGED <<rq, file, tokens>>
         PROVE  ListInv'
    BY <1>10 DEF ListInv, ListOf, Converting
  <1> QED
    BY <1>2, <1>3, <1>4, <1>5, <1>6, <1>7, <1>8, <1>9, <1>10 DEF Next, Finished, vars

(* A conversion that no other overlaps replaces the tokens of the file,    *)
(* whatever conversions before it, or bad regexes, have left in the static *)
(* list of CustomTokenParser; and one that others overlap replaces none    *)
(* but those, if nobody edits the file meanwhile.                          *)
THEOREM TokensAreAllReplaced == Spec => []TokensAreReplaced
  <1>1. Init => TokensInv /\ ListInv
    BY DEF Init, TokensInv, ListInv, Converting, Idle
  <1>2. TypeOK /\ TokensInv /\ ListInv /\ [Next]_vars => (TokensInv /\ ListInv)'
    BY TokensKept, ListKept
  <1>3. TokensInv /\ ListInv => TokensAreReplaced
    BY DEF TokensInv, TokensOf, ListInv, ListOf, TokensAreReplaced, Converted, At, Converting
  <1> QED
    BY <1>1, <1>2, <1>3, PipelineTypes, PTL DEF Spec

=============================================================================
