--------------------------- MODULE Installer_proofs ---------------------------
(***************************************************************************)
(* Proofs about the installer: the types, what a site that is installed    *)
(* has, however installations have overlapped, failed and died, and that   *)
(* the answer to one that has run alone is true.                           *)
(***************************************************************************)
EXTENDS InstallerProperties, FiniteSetTheorems, TLAPS

(* An installation, and nothing else, is at work in the stages of one.     *)
AtInstallation(c) == c.stage \in InstallStages \cup {"reset"}

CallOK(c) ==
    /\ c \in Call
    /\ c.stage = "language" => c.op = "step2"
    /\ AtWork(c) => (c.op \in Installations <=> AtInstallation(c))

State ==
    /\ installed \in BOOLEAN /\ stuck \in BOOLEAN
    /\ memory \in [Domains -> BOOLEAN] /\ inStep \in [Domains -> BOOLEAN]
    /\ domain \in Domains
    /\ backend \in Backends
    /\ tables \subseteq {"users", "siteconfiguration"}
    /\ admins \in [Windows -> Nat]
    /\ settings \subseteq Windows /\ Cardinality(settings) <= 1
    /\ win \in [Windows -> [page : Pages, continue : BOOLEAN]]
    /\ acts \in [Windows -> Nat] /\ faults \in 0..MaxFaults

(* As long as there are only finitely many calls, the next one has a       *)
(* number of its own.                                                      *)
TypeInv == State /\ IsFiniteSet(calls) /\ \A c \in calls : CallOK(c)

(* Who is still to bring the users, and the settings, of the site.         *)
OwesUsers(c) ==
    c.stage \in {"dropusers", "dropsettings", "createusers", "createsettings", "addadmin", "reset"}

OwesSettings(c) == OwesUsers(c) \/ c.stage = "savesettings"

(* The domains in which something may still be saved, other than that the  *)
(* site is not installed.                                                  *)
Live(d) == d = domain \/ \E c \in calls : c.dom = d /\ AtWork(c) /\ c.op # "testwebconfig"

HasUsers == HasTable("users") /\ admins # Nobody
HasSettings == HasTable("siteconfiguration") /\ settings # {}

(* Unless a failure was not taken back: a site that the file says is       *)
(* installed has users and settings, or somebody owes them; and a domain   *)
(* that by mistake takes it for installed is about to be told that it is   *)
(* not.                                                                    *)
UsersDue == installed /\ ~stuck => HasUsers \/ \E c \in calls : OwesUsers(c)

SettingsDue == installed /\ ~stuck => HasSettings \/ \E c \in calls : OwesSettings(c)

Mistaken(d) == memory[d] /\ inStep[d] /\ ~installed /\ ~stuck

TellsDomain(c, d) == c.dom = d /\ c.stage = "reset"

MistakesEnd ==
    \A d \in Domains : Live(d) /\ Mistaken(d) => \E c \in calls : TellsDomain(c, d)

(* What an installation that is alone has done so far.                     *)
Told(c) ==
    c.op \in Installations =>
       /\ c.stage \in (InstallStages \ {"save"}) \cup {"ok"} => installed
       /\ c.stage \in {"dropsettings", "createusers", "createsettings", "addadmin"} =>
             admins = Nobody
       /\ c.stage \in {"savesettings", "register", "ok"} => admins = [Nobody EXCEPT ![c.by] = 1]
       /\ c.stage \in {"register", "ok"} => settings = {c.by}
       /\ c.stage \in {"createsettings", "addadmin", "savesettings", "register", "ok"} =>
             HasTable("users")
       /\ c.stage \in {"addadmin", "savesettings", "register", "ok"} =>
             HasTable("siteconfiguration")
       /\ c.stage = "failed" /\ ~stuck => ~installed

AloneInv ==
    \A c \in calls : c.alone => Told(c) /\ \A d \in calls : d # c => ~AtWork(d) /\ ~d.alone

InstallInv == TypeInv /\ UsersDue /\ SettingsDue /\ MistakesEnd /\ AloneInv

-----------------------------------------------------------------------------
LEMMA Bounds == MaxFaults \in Nat /\ MaxDomains \in Nat \ {0} /\ 1 \in Domains
  BY InstallerAssumption DEF Domains

LEMMA ImageIsFinite ==
    ASSUME NEW S, IsFiniteSet(S), NEW T, NEW f \in [S -> T], \A y \in T : \E x \in S : f[x] = y
    PROVE  IsFiniteSet(T)
  <1>1. f \in Surjection(S, T)
    BY DEF Surjection
  <1> QED
    BY <1>1, FS_Surjection

LEMMA CallMoved ==
    ASSUME NEW c \in Call, NEW stage \in Stages, NEW c2, c2 = [c EXCEPT !.stage = stage]
    PROVE  /\ c2 \in Call /\ c2.stage = stage /\ c2.alone = c.alone
           /\ c2.n = c.n /\ c2.w = c.w /\ c2.by = c.by /\ c2.op = c.op /\ c2.dom = c.dom
  BY DEF Call

(* A call that is at work goes on to its next stage.                       *)
LEMMA Advanced ==
    ASSUME InstallInv, State', NEW c \in calls, NEW stage \in Stages,
           NEW c2, c2 = [c EXCEPT !.stage = stage], Advance(c, stage),
           AtWork(c), stage # "language", domain' = domain, backend' = backend,
           AtWork(c2) => (c.op \in Installations <=> AtInstallation(c2)),
           installed' /\ ~stuck' =>
              OwesUsers(c2) \/ HasUsers' \/ (\E e \in calls \ {c} : OwesUsers(e))
                 \/ (installed /\ ~stuck /\ ~OwesUsers(c) /\ (HasUsers => HasUsers')),
           installed' /\ ~stuck' =>
              OwesSettings(c2) \/ HasSettings' \/ (\E e \in calls \ {c} : OwesSettings(e))
                 \/ (installed /\ ~stuck /\ ~OwesSettings(c) /\ (HasSettings => HasSettings')),
           \A d \in Domains :
              Mistaken(d)' => TellsDomain(c2, d) \/ (Mistaken(d) /\ ~TellsDomain(c, d)),
           c.alone => Told(c2)'
    PROVE  InstallInv'
  <1>1. /\ calls' = (calls \ {c}) \cup {c2} /\ c2 \in calls'
        /\ \A d \in calls : d # c => d \in calls'
        /\ \A d \in calls' : d = c2 \/ (d \in calls /\ d # c)
    BY DEF Advance
  <1>2. /\ c \in Call /\ c2 \in Call /\ c2.stage = stage /\ c2.alone = c.alone
        /\ c2.by = c.by /\ c2.op = c.op /\ c2.dom = c.dom
    BY CallMoved DEF InstallInv, TypeInv, CallOK
  <1>3. TypeInv'
    <2>1. IsFiniteSet(calls')
      <3>1. IsFiniteSet(calls \ {c})
        BY FS_RemoveElement DEF InstallInv, TypeInv
      <3> QED
        BY <1>1, <3>1, FS_AddElement
    <2>2. \A d \in calls' : CallOK(d)
      BY <1>1, <1>2 DEF InstallInv, TypeInv, CallOK
    <2> QED
      BY <2>1, <2>2 DEF TypeInv, CallOK, AtWork, AtInstallation
  <1>4. UsersDue'
    BY <1>1 DEF InstallInv, UsersDue
  <1>5. SettingsDue'
    BY <1>1 DEF InstallInv, SettingsDue
  <1>6. MistakesEnd'
    <2> SUFFICES ASSUME NEW d \in Domains, Live(d)', Mistaken(d)'
                 PROVE  \E e \in calls' : TellsDomain(e, d)
      BY DEF MistakesEnd, TellsDomain
    <2>1. CASE TellsDomain(c2, d)
      BY <1>1, <2>1
    <2>2. CASE Mistaken(d) /\ ~TellsDomain(c, d)
      <3>1. Live(d)
        BY <1>1, <1>2 DEF Live, AtWork
      <3>2. PICK e \in calls : TellsDomain(e, d)
        BY <2>2, <3>1 DEF InstallInv, MistakesEnd
      <3> QED
        BY <1>1, <2>2, <3>2
    <2> QED
      BY <2>1, <2>2
  <1>7. AloneInv'
    <2>1. \A d \in calls : d # c => ~d.alone
      BY DEF InstallInv, AloneInv
    <2>2. c.alone => \A d \in calls : d # c => ~AtWork(d)
      BY DEF InstallInv, AloneInv
    <2> QED
      BY <1>1, <1>2, <2>1, <2>2 DEF AloneInv, AtWork, Told
  <1> QED
    BY <1>3, <1>4, <1>5, <1>6, <1>7 DEF InstallInv

LEMMA BoundedFaults ==
    ASSUME State, Fault
    PROVE  faults' \in 0..MaxFaults /\ acts' = acts
  <1>1. faults \in 0..MaxFaults
    BY DEF State
  <1> QED
    BY <1>1, Bounds DEF Fault

(* A call that the configuration file refuses, whether or not there is a   *)
(* fault.                                                                  *)
LEMMA RefusedByFile ==
    ASSUME State, NEW c, NEW value, NEW stage, SaveConfigThrows(c, value, stage)
    PROVE  /\ memory' = [memory EXCEPT ![c.dom] = value] /\ Advance(c, stage)
           /\ acts' = acts /\ faults' \in 0..MaxFaults
           /\ UNCHANGED <<installed, inStep>>
  <1>1. faults \in 0..MaxFaults
    BY DEF State
  <1>2. CASE inStep[c.dom]
    BY <1>2, BoundedFaults DEF SaveConfigThrows
  <1>3. CASE ~inStep[c.dom]
    BY <1>1, <1>3 DEF SaveConfigThrows, boundVars
  <1> QED
    BY <1>2, <1>3 DEF SaveConfigThrows

LEMMA TestWebConfigKept ==
    ASSUME InstallInv, NEW c \in calls, TestWebConfig(c)
    PROVE  InstallInv'
  <1>1. /\ State /\ c \in Call /\ CallOK(c) /\ (c.alone => Told(c))
        /\ UsersDue /\ SettingsDue /\ MistakesEnd
    BY DEF InstallInv, TypeInv, CallOK, AloneInv
  <1>2. CASE TestWebConfig(c) /\ SaveConfig(c, FALSE, "ok") /\ stuck' = FALSE
    <2>1. PICK c2 : c2 = [c EXCEPT !.stage = "ok"]
      OBVIOUS
    <2>2. /\ Advance(c, "ok") /\ c.stage = "test"
          /\ installed' = FALSE
          /\ memory' = [memory EXCEPT ![c.dom] = FALSE]
          /\ inStep' = [d \in Domains |-> d = c.dom]
          /\ stuck' = FALSE
          /\ UNCHANGED <<domain, backend, tables, admins, settings, win, acts, faults>>
      BY <1>1, <1>2, <2>1 DEF TestWebConfig, SaveConfig, siteVars, dbVars, boundVars
    <2>3. /\ "ok" \in Stages /\ c2.stage = "ok" /\ c2.alone = c.alone
          /\ c2.by = c.by /\ c2.op = c.op /\ c2.dom = c.dom /\ c.dom \in Domains
          /\ c.by \in Windows /\ AtWork(c)
          /\ AtWork(c2) => (c.op \in Installations <=> AtInstallation(c2))
      <3>1. "ok" \in Stages
        BY <2>1, <2>2 DEF Stages, InstallStages, Answers
      <3>2. /\ c2.stage = "ok" /\ c2.alone = c.alone
            /\ c2.by = c.by /\ c2.op = c.op /\ c2.dom = c.dom
        BY <1>1, <2>1, <3>1, CallMoved
      <3>3. c.dom \in Domains /\ c.by \in Windows
        BY <1>1 DEF Call
      <3> QED
        BY <1>1, <2>2, <3>1, <3>2, <3>3
        DEF CallOK, AtWork, AtInstallation, InstallStages, Answers, Installations
    <2>4. State'
      BY <1>1, <2>2, <2>3, Bounds DEF State
    <2>5. installed' /\ ~stuck' =>
             OwesUsers(c2) \/ HasUsers' \/ (\E e \in calls \ {c} : OwesUsers(e))
                \/ (installed /\ ~stuck /\ ~OwesUsers(c) /\ (HasUsers => HasUsers'))
      BY <1>1, <2>2, <2>3 DEF OwesUsers, HasUsers, HasTable
    <2>6. installed' /\ ~stuck' =>
             OwesSettings(c2) \/ HasSettings' \/ (\E e \in calls \ {c} : OwesSettings(e))
                \/ (installed /\ ~stuck /\ ~OwesSettings(c) /\ (HasSettings => HasSettings'))
      BY <1>1, <2>2, <2>3 DEF OwesSettings, OwesUsers, HasSettings, HasTable
    <2>7. \A d \in Domains :
             Mistaken(d)' => TellsDomain(c2, d) \/ (Mistaken(d) /\ ~TellsDomain(c, d))
      BY <1>1, <2>2, <2>3 DEF State, Mistaken, TellsDomain
    <2>8. c.alone => Told(c2)'
      BY <1>1, <2>2, <2>3
      DEF Told, HasTable, InstallStages, CallOK, AtWork, Answers, AtInstallation
    <2> QED
      BY <1>1, <2>1, <2>2, <2>3, <2>4, <2>5, <2>6, <2>7, <2>8, Advanced
  <1>3. CASE TestWebConfig(c) /\ SaveConfigThrows(c, FALSE, "failed") /\ UNCHANGED stuck
    <2>1. PICK c2 : c2 = [c EXCEPT !.stage = "failed"]
      OBVIOUS
    <2>2. /\ Advance(c, "failed") /\ c.stage = "test"
          /\ memory' = [memory EXCEPT ![c.dom] = FALSE]
          /\ faults' \in 0..MaxFaults
          /\ UNCHANGED <<installed, inStep, domain, backend, tables, admins, settings,
                         win, acts, stuck>>
      BY <1>1, <1>3, <2>1, RefusedByFile DEF TestWebConfig, siteVars, dbVars, boundVars
    <2>3. /\ "failed" \in Stages /\ c2.stage = "failed" /\ c2.alone = c.alone
          /\ c2.by = c.by /\ c2.op = c.op /\ c2.dom = c.dom /\ c.dom \in Domains
          /\ c.by \in Windows /\ AtWork(c)
          /\ AtWork(c2) => (c.op \in Installations <=> AtInstallation(c2))
      <3>1. "failed" \in Stages
        BY <2>1, <2>2 DEF Stages, InstallStages, Answers
      <3>2. /\ c2.stage = "failed" /\ c2.alone = c.alone
            /\ c2.by = c.by /\ c2.op = c.op /\ c2.dom = c.dom
        BY <1>1, <2>1, <3>1, CallMoved
      <3>3. c.dom \in Domains /\ c.by \in Windows
        BY <1>1 DEF Call
      <3> QED
        BY <1>1, <2>2, <3>1, <3>2, <3>3
        DEF CallOK, AtWork, AtInstallation, InstallStages, Answers, Installations
    <2>4. State'
      BY <1>1, <2>2, <2>3, Bounds DEF State
    <2>5. installed' /\ ~stuck' =>
             OwesUsers(c2) \/ HasUsers' \/ (\E e \in calls \ {c} : OwesUsers(e))
                \/ (installed /\ ~stuck /\ ~OwesUsers(c) /\ (HasUsers => HasUsers'))
      BY <1>1, <2>2, <2>3 DEF OwesUsers, HasUsers, HasTable
    <2>6. installed' /\ ~stuck' =>
             OwesSettings(c2) \/ HasSettings' \/ (\E e \in calls \ {c} : OwesSettings(e))
                \/ (installed /\ ~stuck /\ ~OwesSettings(c) /\ (HasSettings => HasSettings'))
      BY <1>1, <2>2, <2>3 DEF OwesSettings, OwesUsers, HasSettings, HasTable
    <2>7. \A d \in Domains :
             Mistaken(d)' => TellsDomain(c2, d) \/ (Mistaken(d) /\ ~TellsDomain(c, d))
      BY <1>1, <2>2, <2>3 DEF State, Mistaken, TellsDomain
    <2>8. c.alone => Told(c2)'
      BY <1>1, <2>2, <2>3
      DEF Told, HasTable, InstallStages, CallOK, AtWork, Answers, AtInstallation
    <2> QED
      BY <1>1, <2>1, <2>2, <2>3, <2>4, <2>5, <2>6, <2>7, <2>8, Advanced
  <1> QED
    BY <1>2, <1>3 DEF TestWebConfig

(* A domain that takes the site for installed by mistake, and still has a    *)
(* call at work that is not the one to tell it so, has another that is.     *)
LEMMA MistakenTold ==
    ASSUME MistakesEnd, NEW c \in calls, c.dom \in Domains, AtWork(c), c.stage # "reset",
           c.op # "testwebconfig", Mistaken(c.dom)
    PROVE  \E e \in calls \ {c} : OwesUsers(e) /\ OwesSettings(e)
  <1>1. PICK e \in calls : TellsDomain(e, c.dom)
    BY DEF MistakesEnd, Live
  <1> QED
    BY <1>1 DEF TellsDomain, OwesUsers, OwesSettings

LEMMA Step2Kept ==
    ASSUME InstallInv, NEW c \in calls, Step2(c)
    PROVE  InstallInv'
  <1>1. /\ State /\ c \in Call /\ CallOK(c) /\ (c.alone => Told(c))
        /\ UsersDue /\ SettingsDue /\ MistakesEnd
    BY DEF InstallInv, TypeInv, CallOK, AloneInv
  <1>2. CASE Step2(c) /\ SaveConfig(c, memory[c.dom], "ok")
    <2>1. PICK c2 : c2 = [c EXCEPT !.stage = "ok"]
      OBVIOUS
    <2>2. /\ Advance(c, "ok") /\ c.stage = "language"
          /\ inStep[c.dom]
          /\ installed' = memory[c.dom]
          /\ memory' = [memory EXCEPT ![c.dom] = memory[c.dom]]
          /\ inStep' = [d \in Domains |-> d = c.dom]
          /\ UNCHANGED <<domain, backend, tables, admins, settings, win, acts, faults,
                         stuck>>
      BY <1>1, <1>2, <2>1 DEF Step2, SaveConfig, siteVars, dbVars, boundVars
    <2>3. /\ "ok" \in Stages /\ c2.stage = "ok" /\ c2.alone = c.alone
          /\ c2.by = c.by /\ c2.op = c.op /\ c2.dom = c.dom /\ c.dom \in Domains
          /\ c.by \in Windows /\ AtWork(c)
          /\ AtWork(c2) => (c.op \in Installations <=> AtInstallation(c2))
      <3>1. "ok" \in Stages
        BY <2>1, <2>2 DEF Stages, InstallStages, Answers
      <3>2. /\ c2.stage = "ok" /\ c2.alone = c.alone
            /\ c2.by = c.by /\ c2.op = c.op /\ c2.dom = c.dom
        BY <1>1, <2>1, <3>1, CallMoved
      <3>3. c.dom \in Domains /\ c.by \in Windows
        BY <1>1 DEF Call
      <3> QED
        BY <1>1, <2>2, <3>1, <3>2, <3>3
        DEF CallOK, AtWork, AtInstallation, InstallStages, Answers, Installations
    <2>4. State'
      BY <1>1, <2>2, <2>3, Bounds DEF State
    <2>9. c.op # "testwebconfig"
      BY <1>1, <2>2 DEF CallOK
    <2>5. installed' /\ ~stuck' =>
             OwesUsers(c2) \/ HasUsers' \/ (\E e \in calls \ {c} : OwesUsers(e))
                \/ (installed /\ ~stuck /\ ~OwesUsers(c) /\ (HasUsers => HasUsers'))
      BY <1>1, <2>2, <2>3, <2>9, MistakenTold DEF OwesUsers, HasUsers, HasTable, Mistaken
    <2>6. installed' /\ ~stuck' =>
             OwesSettings(c2) \/ HasSettings' \/ (\E e \in calls \ {c} : OwesSettings(e))
                \/ (installed /\ ~stuck /\ ~OwesSettings(c) /\ (HasSettings => HasSettings'))
      BY <1>1, <2>2, <2>3, <2>9, MistakenTold
      DEF OwesSettings, OwesUsers, HasSettings, HasTable, Mistaken
    <2>7. \A d \in Domains :
             Mistaken(d)' => TellsDomain(c2, d) \/ (Mistaken(d) /\ ~TellsDomain(c, d))
      BY <1>1, <2>2, <2>3 DEF State, Mistaken, TellsDomain
    <2>8. c.alone => Told(c2)'
      BY <1>1, <2>2, <2>3
      DEF Told, HasTable, InstallStages, CallOK, AtWork, Answers, AtInstallation
    <2> QED
      BY <1>1, <2>1, <2>2, <2>3, <2>4, <2>5, <2>6, <2>7, <2>8, Advanced
  <1>3. CASE Step2(c) /\ SaveConfigThrows(c, memory[c.dom], "failed")
    <2>1. PICK c2 : c2 = [c EXCEPT !.stage = "failed"]
      OBVIOUS
    <2>2. /\ Advance(c, "failed") /\ c.stage = "language"
          /\ memory' = [memory EXCEPT ![c.dom] = memory[c.dom]]
          /\ faults' \in 0..MaxFaults
          /\ UNCHANGED <<installed, inStep, domain, backend, tables, admins, settings,
                         win, acts, stuck>>
      BY <1>1, <1>3, <2>1, RefusedByFile DEF Step2, siteVars, dbVars, boundVars
    <2>3. /\ "failed" \in Stages /\ c2.stage = "failed" /\ c2.alone = c.alone
          /\ c2.by = c.by /\ c2.op = c.op /\ c2.dom = c.dom /\ c.dom \in Domains
          /\ c.by \in Windows /\ AtWork(c)
          /\ AtWork(c2) => (c.op \in Installations <=> AtInstallation(c2))
      <3>1. "failed" \in Stages
        BY <2>1, <2>2 DEF Stages, InstallStages, Answers
      <3>2. /\ c2.stage = "failed" /\ c2.alone = c.alone
            /\ c2.by = c.by /\ c2.op = c.op /\ c2.dom = c.dom
        BY <1>1, <2>1, <3>1, CallMoved
      <3>3. c.dom \in Domains /\ c.by \in Windows
        BY <1>1 DEF Call
      <3> QED
        BY <1>1, <2>2, <3>1, <3>2, <3>3
        DEF CallOK, AtWork, AtInstallation, InstallStages, Answers, Installations
    <2>4. State'
      BY <1>1, <2>2, <2>3, Bounds DEF State
    <2>5. installed' /\ ~stuck' =>
             OwesUsers(c2) \/ HasUsers' \/ (\E e \in calls \ {c} : OwesUsers(e))
                \/ (installed /\ ~stuck /\ ~OwesUsers(c) /\ (HasUsers => HasUsers'))
      BY <1>1, <2>2, <2>3 DEF OwesUsers, HasUsers, HasTable
    <2>6. installed' /\ ~stuck' =>
             OwesSettings(c2) \/ HasSettings' \/ (\E e \in calls \ {c} : OwesSettings(e))
                \/ (installed /\ ~stuck /\ ~OwesSettings(c) /\ (HasSettings => HasSettings'))
      BY <1>1, <2>2, <2>3 DEF OwesSettings, OwesUsers, HasSettings, HasTable
    <2>7. \A d \in Domains :
             Mistaken(d)' => TellsDomain(c2, d) \/ (Mistaken(d) /\ ~TellsDomain(c, d))
      BY <1>1, <2>2, <2>3 DEF State, Mistaken, TellsDomain
    <2>8. c.alone => Told(c2)'
      BY <1>1, <2>2, <2>3
      DEF Told, HasTable, InstallStages, CallOK, AtWork, Answers, AtInstallation
    <2> QED
      BY <1>1, <2>1, <2>2, <2>3, <2>4, <2>5, <2>6, <2>7, <2>8, Advanced
  <1> QED
    BY <1>2, <1>3 DEF Step2

(* FinalizeInstall.                                                        *)
LEMMA SaveKept ==
    ASSUME InstallInv, NEW c \in calls, Save(c)
    PROVE  InstallInv'
  <1>1. /\ State /\ c \in Call /\ CallOK(c) /\ (c.alone => Told(c))
        /\ UsersDue /\ SettingsDue /\ MistakesEnd
    BY DEF InstallInv, TypeInv, CallOK, AloneInv
  <1>2. CASE Save(c) /\ SaveConfig(c, TRUE, "dropusers") /\ UNCHANGED stuck
    <2>1. PICK c2 : c2 = [c EXCEPT !.stage = "dropusers"]
      OBVIOUS
    <2>2. /\ Advance(c, "dropusers") /\ c.stage = "save"
          /\ installed' = TRUE
          /\ memory' = [memory EXCEPT ![c.dom] = TRUE]
          /\ inStep' = [d \in Domains |-> d = c.dom]
          /\ UNCHANGED <<domain, backend, tables, admins, settings, win, acts, faults,
                         stuck>>
      BY <1>1, <1>2, <2>1 DEF Save, SaveConfig, siteVars, dbVars, boundVars
    <2>3. /\ "dropusers" \in Stages /\ c2.stage = "dropusers" /\ c2.alone = c.alone
          /\ c2.by = c.by /\ c2.op = c.op /\ c2.dom = c.dom /\ c.dom \in Domains
          /\ c.by \in Windows /\ AtWork(c)
          /\ AtWork(c2) => (c.op \in Installations <=> AtInstallation(c2))
      <3>1. "dropusers" \in Stages
        BY <2>1, <2>2 DEF Stages, InstallStages, Answers
      <3>2. /\ c2.stage = "dropusers" /\ c2.alone = c.alone
            /\ c2.by = c.by /\ c2.op = c.op /\ c2.dom = c.dom
        BY <1>1, <2>1, <3>1, CallMoved
      <3>3. c.dom \in Domains /\ c.by \in Windows
        BY <1>1 DEF Call
      <3> QED
        BY <1>1, <2>2, <3>1, <3>2, <3>3
        DEF CallOK, AtWork, AtInstallation, InstallStages, Answers, Installations
    <2>4. State'
      BY <1>1, <2>2, <2>3, Bounds DEF State
    <2>5. installed' /\ ~stuck' =>
             OwesUsers(c2) \/ HasUsers' \/ (\E e \in calls \ {c} : OwesUsers(e))
                \/ (installed /\ ~stuck /\ ~OwesUsers(c) /\ (HasUsers => HasUsers'))
      BY <1>1, <2>2, <2>3 DEF OwesUsers, HasUsers, HasTable
    <2>6. installed' /\ ~stuck' =>
             OwesSettings(c2) \/ HasSettings' \/ (\E e \in calls \ {c} : OwesSettings(e))
                \/ (installed /\ ~stuck /\ ~OwesSettings(c) /\ (HasSettings => HasSettings'))
      BY <1>1, <2>2, <2>3 DEF OwesSettings, OwesUsers, HasSettings, HasTable
    <2>7. \A d \in Domains :
             Mistaken(d)' => TellsDomain(c2, d) \/ (Mistaken(d) /\ ~TellsDomain(c, d))
      BY <1>1, <2>2, <2>3 DEF State, Mistaken, TellsDomain
    <2>8. c.alone => Told(c2)'
      BY <1>1, <2>2, <2>3 DEF Told, HasTable, InstallStages
    <2> QED
      BY <1>1, <2>1, <2>2, <2>3, <2>4, <2>5, <2>6, <2>7, <2>8, Advanced
  <1>3. CASE Save(c) /\ SaveConfigThrows(c, TRUE, Fails(c)) /\ FailsStuck(c)
    <2>1. PICK stage, c2 : stage = Fails(c) /\ c2 = [c EXCEPT !.stage = stage]
      OBVIOUS
    <2>2. /\ Advance(c, stage) /\ c.stage = "save"
          /\ \/ c.op = "step5" /\ stage = "reset" /\ stuck' = stuck
             \/ c.op = "unattended" /\ stage = "failed" /\ stuck' = TRUE
          /\ memory' = [memory EXCEPT ![c.dom] = TRUE]
          /\ faults' \in 0..MaxFaults
          /\ stuck' \in BOOLEAN
          /\ UNCHANGED <<installed, inStep, domain, backend, tables, admins, settings,
                         win, acts>>
      BY <1>1, <1>3, <2>1, RefusedByFile
      DEF Save, Fails, FailsStuck, CallOK, AtWork, Answers, AtInstallation,
          InstallStages, Installations, State, siteVars, dbVars, boundVars
    <2>3. /\ stage \in Stages /\ c2.stage = stage /\ c2.alone = c.alone
          /\ c2.by = c.by /\ c2.op = c.op /\ c2.dom = c.dom /\ c.dom \in Domains
          /\ c.by \in Windows /\ AtWork(c)
          /\ AtWork(c2) => (c.op \in Installations <=> AtInstallation(c2))
      <3>1. stage \in Stages
        BY <2>1, <2>2 DEF Stages, InstallStages, Answers
      <3>2. /\ c2.stage = stage /\ c2.alone = c.alone
            /\ c2.by = c.by /\ c2.op = c.op /\ c2.dom = c.dom
        BY <1>1, <2>1, <3>1, CallMoved
      <3>3. c.dom \in Domains /\ c.by \in Windows
        BY <1>1 DEF Call
      <3> QED
        BY <1>1, <2>2, <3>1, <3>2, <3>3
        DEF CallOK, AtWork, AtInstallation, InstallStages, Answers, Installations
    <2>4. State'
      BY <1>1, <2>2, <2>3, Bounds DEF State
    <2>5. installed' /\ ~stuck' =>
             OwesUsers(c2) \/ HasUsers' \/ (\E e \in calls \ {c} : OwesUsers(e))
                \/ (installed /\ ~stuck /\ ~OwesUsers(c) /\ (HasUsers => HasUsers'))
      BY <1>1, <2>2, <2>3 DEF OwesUsers, HasUsers, HasTable
    <2>6. installed' /\ ~stuck' =>
             OwesSettings(c2) \/ HasSettings' \/ (\E e \in calls \ {c} : OwesSettings(e))
                \/ (installed /\ ~stuck /\ ~OwesSettings(c) /\ (HasSettings => HasSettings'))
      BY <1>1, <2>2, <2>3 DEF OwesSettings, OwesUsers, HasSettings, HasTable
    <2>7. \A d \in Domains :
             Mistaken(d)' => TellsDomain(c2, d) \/ (Mistaken(d) /\ ~TellsDomain(c, d))
      BY <1>1, <2>2, <2>3 DEF State, Mistaken, TellsDomain
    <2>8. c.alone => Told(c2)'
      BY <1>1, <2>2, <2>3 DEF Told, HasTable, InstallStages
    <2> QED
      BY <1>1, <2>1, <2>2, <2>3, <2>4, <2>5, <2>6, <2>7, <2>8, Advanced
  <1> QED
    BY <1>2, <1>3 DEF Save

LEMMA DropKept ==
    ASSUME InstallInv, NEW c \in calls, Install(c), DropUsers(c) \/ DropSettings(c)
    PROVE  InstallInv'
  <1>1. /\ State /\ c \in Call /\ CallOK(c) /\ (c.alone => Told(c))
        /\ UsersDue /\ SettingsDue /\ MistakesEnd
    BY DEF InstallInv, TypeInv, CallOK, AloneInv
  <1>2. CASE Install(c) /\ DropUsers(c)
    <2>1. PICK c2 : c2 = [c EXCEPT !.stage = "dropsettings"]
      OBVIOUS
    <2>2. /\ Advance(c, "dropsettings") /\ c.stage = "dropusers"
          /\ admins' = Nobody
          /\ tables' = tables \ {"users"}
          /\ UNCHANGED <<installed, memory, inStep, domain, backend, settings, win,
                         acts, faults, stuck>>
      BY <1>1, <1>2, <2>1
      DEF Install, DatabaseDone, DropUsers, WithoutAdmins, siteVars, dbVars, boundVars
    <2>3. /\ "dropsettings" \in Stages /\ c2.stage = "dropsettings" /\ c2.alone = c.alone
          /\ c2.by = c.by /\ c2.op = c.op /\ c2.dom = c.dom /\ c.dom \in Domains
          /\ c.by \in Windows /\ AtWork(c)
          /\ AtWork(c2) => (c.op \in Installations <=> AtInstallation(c2))
      <3>1. "dropsettings" \in Stages
        BY <2>1, <2>2 DEF Stages, InstallStages, Answers
      <3>2. /\ c2.stage = "dropsettings" /\ c2.alone = c.alone
            /\ c2.by = c.by /\ c2.op = c.op /\ c2.dom = c.dom
        BY <1>1, <2>1, <3>1, CallMoved
      <3>3. c.dom \in Domains /\ c.by \in Windows
        BY <1>1 DEF Call
      <3> QED
        BY <1>1, <2>2, <3>1, <3>2, <3>3
        DEF CallOK, AtWork, AtInstallation, InstallStages, Answers, Installations
    <2>4. State'
      BY <1>1, <2>2, <2>3, Bounds DEF State, Nobody
    <2>5. installed' /\ ~stuck' =>
             OwesUsers(c2) \/ HasUsers' \/ (\E e \in calls \ {c} : OwesUsers(e))
                \/ (installed /\ ~stuck /\ ~OwesUsers(c) /\ (HasUsers => HasUsers'))
      BY <1>1, <2>2, <2>3 DEF OwesUsers, HasUsers, HasTable
    <2>6. installed' /\ ~stuck' =>
             OwesSettings(c2) \/ HasSettings' \/ (\E e \in calls \ {c} : OwesSettings(e))
                \/ (installed /\ ~stuck /\ ~OwesSettings(c) /\ (HasSettings => HasSettings'))
      BY <1>1, <2>2, <2>3 DEF OwesSettings, OwesUsers, HasSettings, HasTable
    <2>7. \A d \in Domains :
             Mistaken(d)' => TellsDomain(c2, d) \/ (Mistaken(d) /\ ~TellsDomain(c, d))
      BY <1>1, <2>2, <2>3 DEF State, Mistaken, TellsDomain
    <2>8. c.alone => Told(c2)'
      BY <1>1, <2>2, <2>3 DEF Told, HasTable, InstallStages
    <2> QED
      BY <1>1, <2>1, <2>2, <2>3, <2>4, <2>5, <2>6, <2>7, <2>8, Advanced
  <1>3. CASE Install(c) /\ DropSettings(c) /\ backend = "mongodb"
    <2>1. PICK c2 : c2 = [c EXCEPT !.stage = "addadmin"]
      OBVIOUS
    <2>2. /\ Advance(c, "addadmin") /\ c.stage = "dropsettings"
          /\ backend = "mongodb"
          /\ UNCHANGED <<installed, memory, inStep, domain, backend, tables, admins,
                         settings, win, acts, faults, stuck>>
      BY <1>1, <1>3, <2>1
      DEF Install, DatabaseDone, DropSettings, siteVars, dbVars, boundVars
    <2>3. /\ "addadmin" \in Stages /\ c2.stage = "addadmin" /\ c2.alone = c.alone
          /\ c2.by = c.by /\ c2.op = c.op /\ c2.dom = c.dom /\ c.dom \in Domains
          /\ c.by \in Windows /\ AtWork(c)
          /\ AtWork(c2) => (c.op \in Installations <=> AtInstallation(c2))
      <3>1. "addadmin" \in Stages
        BY <2>1, <2>2 DEF Stages, InstallStages, Answers
      <3>2. /\ c2.stage = "addadmin" /\ c2.alone = c.alone
            /\ c2.by = c.by /\ c2.op = c.op /\ c2.dom = c.dom
        BY <1>1, <2>1, <3>1, CallMoved
      <3>3. c.dom \in Domains /\ c.by \in Windows
        BY <1>1 DEF Call
      <3> QED
        BY <1>1, <2>2, <3>1, <3>2, <3>3
        DEF CallOK, AtWork, AtInstallation, InstallStages, Answers, Installations
    <2>4. State'
      BY <1>1, <2>2, <2>3, Bounds DEF State
    <2>5. installed' /\ ~stuck' =>
             OwesUsers(c2) \/ HasUsers' \/ (\E e \in calls \ {c} : OwesUsers(e))
                \/ (installed /\ ~stuck /\ ~OwesUsers(c) /\ (HasUsers => HasUsers'))
      BY <1>1, <2>2, <2>3 DEF OwesUsers, HasUsers, HasTable
    <2>6. installed' /\ ~stuck' =>
             OwesSettings(c2) \/ HasSettings' \/ (\E e \in calls \ {c} : OwesSettings(e))
                \/ (installed /\ ~stuck /\ ~OwesSettings(c) /\ (HasSettings => HasSettings'))
      BY <1>1, <2>2, <2>3 DEF OwesSettings, OwesUsers, HasSettings, HasTable
    <2>7. \A d \in Domains :
             Mistaken(d)' => TellsDomain(c2, d) \/ (Mistaken(d) /\ ~TellsDomain(c, d))
      BY <1>1, <2>2, <2>3 DEF State, Mistaken, TellsDomain
    <2>8. c.alone => Told(c2)'
      BY <1>1, <2>2, <2>3 DEF Told, HasTable, InstallStages
    <2> QED
      BY <1>1, <2>1, <2>2, <2>3, <2>4, <2>5, <2>6, <2>7, <2>8, Advanced
  <1>4. CASE Install(c) /\ DropSettings(c) /\ backend # "mongodb"
    <2>1. PICK c2 : c2 = [c EXCEPT !.stage = "createusers"]
      OBVIOUS
    <2>2. /\ Advance(c, "createusers") /\ c.stage = "dropsettings"
          /\ settings' = {}
          /\ tables' = tables \ {"siteconfiguration"}
          /\ UNCHANGED <<installed, memory, inStep, domain, backend, admins, win, acts,
                         faults, stuck>>
      BY <1>1, <1>4, <2>1
      DEF Install, DatabaseDone, DropSettings, WithoutSettings, siteVars, dbVars,
          boundVars
    <2>3. /\ "createusers" \in Stages /\ c2.stage = "createusers" /\ c2.alone = c.alone
          /\ c2.by = c.by /\ c2.op = c.op /\ c2.dom = c.dom /\ c.dom \in Domains
          /\ c.by \in Windows /\ AtWork(c)
          /\ AtWork(c2) => (c.op \in Installations <=> AtInstallation(c2))
      <3>1. "createusers" \in Stages
        BY <2>1, <2>2 DEF Stages, InstallStages, Answers
      <3>2. /\ c2.stage = "createusers" /\ c2.alone = c.alone
            /\ c2.by = c.by /\ c2.op = c.op /\ c2.dom = c.dom
        BY <1>1, <2>1, <3>1, CallMoved
      <3>3. c.dom \in Domains /\ c.by \in Windows
        BY <1>1 DEF Call
      <3> QED
        BY <1>1, <2>2, <3>1, <3>2, <3>3
        DEF CallOK, AtWork, AtInstallation, InstallStages, Answers, Installations
    <2>4. State'
      BY <1>1, <2>2, <2>3, Bounds, FS_EmptySet DEF State
    <2>5. installed' /\ ~stuck' =>
             OwesUsers(c2) \/ HasUsers' \/ (\E e \in calls \ {c} : OwesUsers(e))
                \/ (installed /\ ~stuck /\ ~OwesUsers(c) /\ (HasUsers => HasUsers'))
      BY <1>1, <2>2, <2>3 DEF OwesUsers, HasUsers, HasTable
    <2>6. installed' /\ ~stuck' =>
             OwesSettings(c2) \/ HasSettings' \/ (\E e \in calls \ {c} : OwesSettings(e))
                \/ (installed /\ ~stuck /\ ~OwesSettings(c) /\ (HasSettings => HasSettings'))
      BY <1>1, <2>2, <2>3 DEF OwesSettings, OwesUsers, HasSettings, HasTable
    <2>7. \A d \in Domains :
             Mistaken(d)' => TellsDomain(c2, d) \/ (Mistaken(d) /\ ~TellsDomain(c, d))
      BY <1>1, <2>2, <2>3 DEF State, Mistaken, TellsDomain
    <2>8. c.alone => Told(c2)'
      BY <1>1, <2>2, <2>3 DEF Told, HasTable, InstallStages
    <2> QED
      BY <1>1, <2>1, <2>2, <2>3, <2>4, <2>5, <2>6, <2>7, <2>8, Advanced
  <1> QED
    BY <1>2, <1>3, <1>4

LEMMA CreateKept ==
    ASSUME InstallInv, NEW c \in calls, Install(c), CreateSchema(c)
    PROVE  InstallInv'
  <1>1. /\ State /\ c \in Call /\ CallOK(c) /\ (c.alone => Told(c))
        /\ UsersDue /\ SettingsDue /\ MistakesEnd
    BY DEF InstallInv, TypeInv, CallOK, AloneInv
  <1>2. CASE /\ Install(c)
             /\ c.stage = "createusers"
             /\ CreateTable(c, "users", "createsettings")
             /\ "users" \notin tables
    <2>1. PICK c2 : c2 = [c EXCEPT !.stage = "createsettings"]
      OBVIOUS
    <2>2. /\ Advance(c, "createsettings") /\ c.stage = "createusers"
          /\ tables' = tables \cup {"users"}
          /\ UNCHANGED <<installed, memory, inStep, domain, backend, admins, settings,
                         win, acts, faults, stuck>>
      BY <1>1, <1>2, <2>1
      DEF Install, DatabaseDone, CreateTable, siteVars, dbVars, boundVars
    <2>3. /\ "createsettings" \in Stages /\ c2.stage = "createsettings" /\ c2.alone = c.alone
          /\ c2.by = c.by /\ c2.op = c.op /\ c2.dom = c.dom /\ c.dom \in Domains
          /\ c.by \in Windows /\ AtWork(c)
          /\ AtWork(c2) => (c.op \in Installations <=> AtInstallation(c2))
      <3>1. "createsettings" \in Stages
        BY <2>1, <2>2 DEF Stages, InstallStages, Answers
      <3>2. /\ c2.stage = "createsettings" /\ c2.alone = c.alone
            /\ c2.by = c.by /\ c2.op = c.op /\ c2.dom = c.dom
        BY <1>1, <2>1, <3>1, CallMoved
      <3>3. c.dom \in Domains /\ c.by \in Windows
        BY <1>1 DEF Call
      <3> QED
        BY <1>1, <2>2, <3>1, <3>2, <3>3
        DEF CallOK, AtWork, AtInstallation, InstallStages, Answers, Installations
    <2>4. State'
      BY <1>1, <2>2, <2>3, Bounds DEF State
    <2>5. installed' /\ ~stuck' =>
             OwesUsers(c2) \/ HasUsers' \/ (\E e \in calls \ {c} : OwesUsers(e))
                \/ (installed /\ ~stuck /\ ~OwesUsers(c) /\ (HasUsers => HasUsers'))
      BY <1>1, <2>2, <2>3 DEF OwesUsers, HasUsers, HasTable
    <2>6. installed' /\ ~stuck' =>
             OwesSettings(c2) \/ HasSettings' \/ (\E e \in calls \ {c} : OwesSettings(e))
                \/ (installed /\ ~stuck /\ ~OwesSettings(c) /\ (HasSettings => HasSettings'))
      BY <1>1, <2>2, <2>3 DEF OwesSettings, OwesUsers, HasSettings, HasTable
    <2>7. \A d \in Domains :
             Mistaken(d)' => TellsDomain(c2, d) \/ (Mistaken(d) /\ ~TellsDomain(c, d))
      BY <1>1, <2>2, <2>3 DEF State, Mistaken, TellsDomain
    <2>8. c.alone => Told(c2)'
      BY <1>1, <2>2, <2>3 DEF Told, HasTable, InstallStages
    <2> QED
      BY <1>1, <2>1, <2>2, <2>3, <2>4, <2>5, <2>6, <2>7, <2>8, Advanced
  <1>3. CASE /\ Install(c)
             /\ c.stage = "createsettings"
             /\ CreateTable(c, "siteconfiguration", "addadmin")
             /\ "siteconfiguration" \notin tables
    <2>1. PICK c2 : c2 = [c EXCEPT !.stage = "addadmin"]
      OBVIOUS
    <2>2. /\ Advance(c, "addadmin") /\ c.stage = "createsettings"
          /\ tables' = tables \cup {"siteconfiguration"}
          /\ UNCHANGED <<installed, memory, inStep, domain, backend, admins, settings,
                         win, acts, faults, stuck>>
      BY <1>1, <1>3, <2>1
      DEF Install, DatabaseDone, CreateTable, siteVars, dbVars, boundVars
    <2>3. /\ "addadmin" \in Stages /\ c2.stage = "addadmin" /\ c2.alone = c.alone
          /\ c2.by = c.by /\ c2.op = c.op /\ c2.dom = c.dom /\ c.dom \in Domains
          /\ c.by \in Windows /\ AtWork(c)
          /\ AtWork(c2) => (c.op \in Installations <=> AtInstallation(c2))
      <3>1. "addadmin" \in Stages
        BY <2>1, <2>2 DEF Stages, InstallStages, Answers
      <3>2. /\ c2.stage = "addadmin" /\ c2.alone = c.alone
            /\ c2.by = c.by /\ c2.op = c.op /\ c2.dom = c.dom
        BY <1>1, <2>1, <3>1, CallMoved
      <3>3. c.dom \in Domains /\ c.by \in Windows
        BY <1>1 DEF Call
      <3> QED
        BY <1>1, <2>2, <3>1, <3>2, <3>3
        DEF CallOK, AtWork, AtInstallation, InstallStages, Answers, Installations
    <2>4. State'
      BY <1>1, <2>2, <2>3, Bounds DEF State
    <2>5. installed' /\ ~stuck' =>
             OwesUsers(c2) \/ HasUsers' \/ (\E e \in calls \ {c} : OwesUsers(e))
                \/ (installed /\ ~stuck /\ ~OwesUsers(c) /\ (HasUsers => HasUsers'))
      BY <1>1, <2>2, <2>3 DEF OwesUsers, HasUsers, HasTable
    <2>6. installed' /\ ~stuck' =>
             OwesSettings(c2) \/ HasSettings' \/ (\E e \in calls \ {c} : OwesSettings(e))
                \/ (installed /\ ~stuck /\ ~OwesSettings(c) /\ (HasSettings => HasSettings'))
      BY <1>1, <2>2, <2>3 DEF OwesSettings, OwesUsers, HasSettings, HasTable
    <2>7. \A d \in Domains :
             Mistaken(d)' => TellsDomain(c2, d) \/ (Mistaken(d) /\ ~TellsDomain(c, d))
      BY <1>1, <2>2, <2>3 DEF State, Mistaken, TellsDomain
    <2>8. c.alone => Told(c2)'
      BY <1>1, <2>2, <2>3 DEF Told, HasTable, InstallStages
    <2> QED
      BY <1>1, <2>1, <2>2, <2>3, <2>4, <2>5, <2>6, <2>7, <2>8, Advanced
  <1>4. CASE /\ Install(c)
             /\ c.stage = "createusers"
             /\ CreateTable(c, "users", "createsettings")
             /\ "users" \in tables
    <2>1. PICK stage, c2 : stage = Fails(c) /\ c2 = [c EXCEPT !.stage = stage]
      OBVIOUS
    <2>2. /\ Advance(c, stage) /\ c.stage = "createusers"
          /\ \/ c.op = "step5" /\ stage = "reset" /\ stuck' = stuck
             \/ c.op = "unattended" /\ stage = "failed" /\ stuck' = TRUE
          /\ stuck' \in BOOLEAN
          /\ UNCHANGED <<installed, memory, inStep, domain, backend, tables, admins,
                         settings, win, acts, faults>>
      BY <1>1, <1>4, <2>1
      DEF Install, CreateTable, DatabaseFails, Fails, FailsStuck, CallOK, AtWork,
          Answers, AtInstallation, InstallStages, Installations, State, siteVars,
          dbVars, boundVars
    <2>3. /\ stage \in Stages /\ c2.stage = stage /\ c2.alone = c.alone
          /\ c2.by = c.by /\ c2.op = c.op /\ c2.dom = c.dom /\ c.dom \in Domains
          /\ c.by \in Windows /\ AtWork(c)
          /\ AtWork(c2) => (c.op \in Installations <=> AtInstallation(c2))
      <3>1. stage \in Stages
        BY <2>1, <2>2 DEF Stages, InstallStages, Answers
      <3>2. /\ c2.stage = stage /\ c2.alone = c.alone
            /\ c2.by = c.by /\ c2.op = c.op /\ c2.dom = c.dom
        BY <1>1, <2>1, <3>1, CallMoved
      <3>3. c.dom \in Domains /\ c.by \in Windows
        BY <1>1 DEF Call
      <3> QED
        BY <1>1, <2>2, <3>1, <3>2, <3>3
        DEF CallOK, AtWork, AtInstallation, InstallStages, Answers, Installations
    <2>4. State'
      BY <1>1, <2>2, <2>3, Bounds DEF State
    <2>5. installed' /\ ~stuck' =>
             OwesUsers(c2) \/ HasUsers' \/ (\E e \in calls \ {c} : OwesUsers(e))
                \/ (installed /\ ~stuck /\ ~OwesUsers(c) /\ (HasUsers => HasUsers'))
      BY <1>1, <2>2, <2>3 DEF OwesUsers, HasUsers, HasTable
    <2>6. installed' /\ ~stuck' =>
             OwesSettings(c2) \/ HasSettings' \/ (\E e \in calls \ {c} : OwesSettings(e))
                \/ (installed /\ ~stuck /\ ~OwesSettings(c) /\ (HasSettings => HasSettings'))
      BY <1>1, <2>2, <2>3 DEF OwesSettings, OwesUsers, HasSettings, HasTable
    <2>7. \A d \in Domains :
             Mistaken(d)' => TellsDomain(c2, d) \/ (Mistaken(d) /\ ~TellsDomain(c, d))
      BY <1>1, <2>2, <2>3 DEF State, Mistaken, TellsDomain
    <2>8. c.alone => Told(c2)'
      BY <1>1, <2>2, <2>3 DEF Told, HasTable, InstallStages
    <2> QED
      BY <1>1, <2>1, <2>2, <2>3, <2>4, <2>5, <2>6, <2>7, <2>8, Advanced
  <1>5. CASE /\ Install(c)
             /\ c.stage = "createsettings"
             /\ CreateTable(c, "siteconfiguration", "addadmin")
             /\ "siteconfiguration" \in tables
    <2>1. PICK stage, c2 : stage = Fails(c) /\ c2 = [c EXCEPT !.stage = stage]
      OBVIOUS
    <2>2. /\ Advance(c, stage) /\ c.stage = "createsettings"
          /\ \/ c.op = "step5" /\ stage = "reset" /\ stuck' = stuck
             \/ c.op = "unattended" /\ stage = "failed" /\ stuck' = TRUE
          /\ stuck' \in BOOLEAN
          /\ UNCHANGED <<installed, memory, inStep, domain, backend, tables, admins,
                         settings, win, acts, faults>>
      BY <1>1, <1>5, <2>1
      DEF Install, CreateTable, DatabaseFails, Fails, FailsStuck, CallOK, AtWork,
          Answers, AtInstallation, InstallStages, Installations, State, siteVars,
          dbVars, boundVars
    <2>3. /\ stage \in Stages /\ c2.stage = stage /\ c2.alone = c.alone
          /\ c2.by = c.by /\ c2.op = c.op /\ c2.dom = c.dom /\ c.dom \in Domains
          /\ c.by \in Windows /\ AtWork(c)
          /\ AtWork(c2) => (c.op \in Installations <=> AtInstallation(c2))
      <3>1. stage \in Stages
        BY <2>1, <2>2 DEF Stages, InstallStages, Answers
      <3>2. /\ c2.stage = stage /\ c2.alone = c.alone
            /\ c2.by = c.by /\ c2.op = c.op /\ c2.dom = c.dom
        BY <1>1, <2>1, <3>1, CallMoved
      <3>3. c.dom \in Domains /\ c.by \in Windows
        BY <1>1 DEF Call
      <3> QED
        BY <1>1, <2>2, <3>1, <3>2, <3>3
        DEF CallOK, AtWork, AtInstallation, InstallStages, Answers, Installations
    <2>4. State'
      BY <1>1, <2>2, <2>3, Bounds DEF State
    <2>5. installed' /\ ~stuck' =>
             OwesUsers(c2) \/ HasUsers' \/ (\E e \in calls \ {c} : OwesUsers(e))
                \/ (installed /\ ~stuck /\ ~OwesUsers(c) /\ (HasUsers => HasUsers'))
      BY <1>1, <2>2, <2>3 DEF OwesUsers, HasUsers, HasTable
    <2>6. installed' /\ ~stuck' =>
             OwesSettings(c2) \/ HasSettings' \/ (\E e \in calls \ {c} : OwesSettings(e))
                \/ (installed /\ ~stuck /\ ~OwesSettings(c) /\ (HasSettings => HasSettings'))
      BY <1>1, <2>2, <2>3 DEF OwesSettings, OwesUsers, HasSettings, HasTable
    <2>7. \A d \in Domains :
             Mistaken(d)' => TellsDomain(c2, d) \/ (Mistaken(d) /\ ~TellsDomain(c, d))
      BY <1>1, <2>2, <2>3 DEF State, Mistaken, TellsDomain
    <2>8. c.alone => Told(c2)'
      BY <1>1, <2>2, <2>3 DEF Told, HasTable, InstallStages
    <2> QED
      BY <1>1, <2>1, <2>2, <2>3, <2>4, <2>5, <2>6, <2>7, <2>8, Advanced
  <1> QED
    BY <1>2, <1>3, <1>4, <1>5 DEF CreateSchema

LEMMA AddKept ==
    ASSUME InstallInv, NEW c \in calls, Install(c),
           AddAdminUser(c) \/ SaveSettings(c) \/ RegisterRoute(c)
    PROVE  InstallInv'
  <1>1. /\ State /\ c \in Call /\ CallOK(c) /\ (c.alone => Told(c))
        /\ UsersDue /\ SettingsDue /\ MistakesEnd
    BY DEF InstallInv, TypeInv, CallOK, AloneInv
  <1>2. CASE Install(c) /\ AddAdminUser(c) /\ HasTable("users")
    <2>1. PICK c2 : c2 = [c EXCEPT !.stage = "savesettings"]
      OBVIOUS
    <2>2. /\ Advance(c, "savesettings") /\ c.stage = "addadmin"
          /\ HasTable("users")
          /\ admins' = [admins EXCEPT ![c.by] = @ + 1]
          /\ UNCHANGED <<installed, memory, inStep, domain, backend, tables, settings,
                         win, acts, faults, stuck>>
      BY <1>1, <1>2, <2>1
      DEF Install, DatabaseDone, AddAdminUser, siteVars, dbVars, boundVars
    <2>3. /\ "savesettings" \in Stages /\ c2.stage = "savesettings" /\ c2.alone = c.alone
          /\ c2.by = c.by /\ c2.op = c.op /\ c2.dom = c.dom /\ c.dom \in Domains
          /\ c.by \in Windows /\ AtWork(c)
          /\ AtWork(c2) => (c.op \in Installations <=> AtInstallation(c2))
      <3>1. "savesettings" \in Stages
        BY <2>1, <2>2 DEF Stages, InstallStages, Answers
      <3>2. /\ c2.stage = "savesettings" /\ c2.alone = c.alone
            /\ c2.by = c.by /\ c2.op = c.op /\ c2.dom = c.dom
        BY <1>1, <2>1, <3>1, CallMoved
      <3>3. c.dom \in Domains /\ c.by \in Windows
        BY <1>1 DEF Call
      <3> QED
        BY <1>1, <2>2, <3>1, <3>2, <3>3
        DEF CallOK, AtWork, AtInstallation, InstallStages, Answers, Installations
    <2>4. State'
      BY <1>1, <2>2, <2>3, Bounds DEF State
    <2>5. installed' /\ ~stuck' =>
             OwesUsers(c2) \/ HasUsers' \/ (\E e \in calls \ {c} : OwesUsers(e))
                \/ (installed /\ ~stuck /\ ~OwesUsers(c) /\ (HasUsers => HasUsers'))
      BY <1>1, <2>2, <2>3 DEF OwesUsers, HasUsers, HasTable, State, Nobody
    <2>6. installed' /\ ~stuck' =>
             OwesSettings(c2) \/ HasSettings' \/ (\E e \in calls \ {c} : OwesSettings(e))
                \/ (installed /\ ~stuck /\ ~OwesSettings(c) /\ (HasSettings => HasSettings'))
      BY <1>1, <2>2, <2>3 DEF OwesSettings, OwesUsers, HasSettings, HasTable
    <2>7. \A d \in Domains :
             Mistaken(d)' => TellsDomain(c2, d) \/ (Mistaken(d) /\ ~TellsDomain(c, d))
      BY <1>1, <2>2, <2>3 DEF State, Mistaken, TellsDomain
    <2>8. c.alone => Told(c2)'
      <3>1. ASSUME c.alone, c.op \in Installations
            PROVE  /\ admins' = [Nobody EXCEPT ![c.by] = 1] /\ installed
                   /\ HasTable("siteconfiguration")
        <4>1. admins = Nobody /\ installed /\ HasTable("siteconfiguration")
          BY <1>1, <2>2, <3>1 DEF Told, InstallStages
        <4>2. Nobody[c.by] + 1 = 1
          BY <2>3 DEF Nobody
        <4> QED
          BY <2>2, <4>1, <4>2
      <3> QED
        BY <2>2, <2>3, <3>1 DEF Told, HasTable
    <2> QED
      BY <1>1, <2>1, <2>2, <2>3, <2>4, <2>5, <2>6, <2>7, <2>8, Advanced
  <1>3. CASE Install(c) /\ AddAdminUser(c) /\ ~HasTable("users")
    <2>1. PICK stage, c2 : stage = Fails(c) /\ c2 = [c EXCEPT !.stage = stage]
      OBVIOUS
    <2>2. /\ Advance(c, stage) /\ c.stage = "addadmin"
          /\ \/ c.op = "step5" /\ stage = "reset" /\ stuck' = stuck
             \/ c.op = "unattended" /\ stage = "failed" /\ stuck' = TRUE
          /\ stuck' \in BOOLEAN
          /\ UNCHANGED <<installed, memory, inStep, domain, backend, tables, admins,
                         settings, win, acts, faults>>
      BY <1>1, <1>3, <2>1
      DEF Install, AddAdminUser, DatabaseFails, Fails, FailsStuck, CallOK, AtWork,
          Answers, AtInstallation, InstallStages, Installations, State, siteVars,
          dbVars, boundVars
    <2>3. /\ stage \in Stages /\ c2.stage = stage /\ c2.alone = c.alone
          /\ c2.by = c.by /\ c2.op = c.op /\ c2.dom = c.dom /\ c.dom \in Domains
          /\ c.by \in Windows /\ AtWork(c)
          /\ AtWork(c2) => (c.op \in Installations <=> AtInstallation(c2))
      <3>1. stage \in Stages
        BY <2>1, <2>2 DEF Stages, InstallStages, Answers
      <3>2. /\ c2.stage = stage /\ c2.alone = c.alone
            /\ c2.by = c.by /\ c2.op = c.op /\ c2.dom = c.dom
        BY <1>1, <2>1, <3>1, CallMoved
      <3>3. c.dom \in Domains /\ c.by \in Windows
        BY <1>1 DEF Call
      <3> QED
        BY <1>1, <2>2, <3>1, <3>2, <3>3
        DEF CallOK, AtWork, AtInstallation, InstallStages, Answers, Installations
    <2>4. State'
      BY <1>1, <2>2, <2>3, Bounds DEF State
    <2>5. installed' /\ ~stuck' =>
             OwesUsers(c2) \/ HasUsers' \/ (\E e \in calls \ {c} : OwesUsers(e))
                \/ (installed /\ ~stuck /\ ~OwesUsers(c) /\ (HasUsers => HasUsers'))
      BY <1>1, <2>2, <2>3 DEF OwesUsers, HasUsers, HasTable
    <2>6. installed' /\ ~stuck' =>
             OwesSettings(c2) \/ HasSettings' \/ (\E e \in calls \ {c} : OwesSettings(e))
                \/ (installed /\ ~stuck /\ ~OwesSettings(c) /\ (HasSettings => HasSettings'))
      BY <1>1, <2>2, <2>3 DEF OwesSettings, OwesUsers, HasSettings, HasTable
    <2>7. \A d \in Domains :
             Mistaken(d)' => TellsDomain(c2, d) \/ (Mistaken(d) /\ ~TellsDomain(c, d))
      BY <1>1, <2>2, <2>3 DEF State, Mistaken, TellsDomain
    <2>8. c.alone => Told(c2)'
      BY <1>1, <2>2, <2>3 DEF Told, HasTable, InstallStages
    <2> QED
      BY <1>1, <2>1, <2>2, <2>3, <2>4, <2>5, <2>6, <2>7, <2>8, Advanced
  <1>4. CASE /\ Install(c)
             /\ SaveSettings(c)
             /\ HasTable("siteconfiguration")
             /\ (backend = "mongodb" \/ settings = {})
    <2>1. PICK c2 : c2 = [c EXCEPT !.stage = "register"]
      OBVIOUS
    <2>2. /\ Advance(c, "register") /\ c.stage = "savesettings"
          /\ HasTable("siteconfiguration")
          /\ settings' = {c.by}
          /\ UNCHANGED <<installed, memory, inStep, domain, backend, tables, admins,
                         win, acts, faults, stuck>>
      BY <1>1, <1>4, <2>1
      DEF Install, DatabaseDone, SaveSettings, siteVars, dbVars, boundVars
    <2>3. /\ "register" \in Stages /\ c2.stage = "register" /\ c2.alone = c.alone
          /\ c2.by = c.by /\ c2.op = c.op /\ c2.dom = c.dom /\ c.dom \in Domains
          /\ c.by \in Windows /\ AtWork(c)
          /\ AtWork(c2) => (c.op \in Installations <=> AtInstallation(c2))
      <3>1. "register" \in Stages
        BY <2>1, <2>2 DEF Stages, InstallStages, Answers
      <3>2. /\ c2.stage = "register" /\ c2.alone = c.alone
            /\ c2.by = c.by /\ c2.op = c.op /\ c2.dom = c.dom
        BY <1>1, <2>1, <3>1, CallMoved
      <3>3. c.dom \in Domains /\ c.by \in Windows
        BY <1>1 DEF Call
      <3> QED
        BY <1>1, <2>2, <3>1, <3>2, <3>3
        DEF CallOK, AtWork, AtInstallation, InstallStages, Answers, Installations
    <2>4. State'
      <3>1. Cardinality({c.by}) <= 1 /\ {c.by} \subseteq Windows
        <4>1. Cardinality({c.by}) = 1
          BY FS_Singleton
        <4> QED
          BY <2>3, <4>1
      <3> QED
        BY <1>1, <2>2, <3>1 DEF State
    <2>5. installed' /\ ~stuck' =>
             OwesUsers(c2) \/ HasUsers' \/ (\E e \in calls \ {c} : OwesUsers(e))
                \/ (installed /\ ~stuck /\ ~OwesUsers(c) /\ (HasUsers => HasUsers'))
      BY <1>1, <2>2, <2>3 DEF OwesUsers, HasUsers, HasTable
    <2>6. installed' /\ ~stuck' =>
             OwesSettings(c2) \/ HasSettings' \/ (\E e \in calls \ {c} : OwesSettings(e))
                \/ (installed /\ ~stuck /\ ~OwesSettings(c) /\ (HasSettings => HasSettings'))
      BY <1>1, <2>2, <2>3 DEF OwesSettings, OwesUsers, HasSettings, HasTable
    <2>7. \A d \in Domains :
             Mistaken(d)' => TellsDomain(c2, d) \/ (Mistaken(d) /\ ~TellsDomain(c, d))
      BY <1>1, <2>2, <2>3 DEF State, Mistaken, TellsDomain
    <2>8. c.alone => Told(c2)'
      BY <1>1, <2>2, <2>3 DEF Told, HasTable, InstallStages
    <2> QED
      BY <1>1, <2>1, <2>2, <2>3, <2>4, <2>5, <2>6, <2>7, <2>8, Advanced
  <1>5. CASE /\ Install(c)
             /\ SaveSettings(c)
             /\ ~(HasTable("siteconfiguration") /\ (backend = "mongodb" \/ settings = {}))
    <2>1. PICK stage, c2 : stage = Fails(c) /\ c2 = [c EXCEPT !.stage = stage]
      OBVIOUS
    <2>2. /\ Advance(c, stage) /\ c.stage = "savesettings"
          /\ \/ c.op = "step5" /\ stage = "reset" /\ stuck' = stuck
             \/ c.op = "unattended" /\ stage = "failed" /\ stuck' = TRUE
          /\ stuck' \in BOOLEAN
          /\ UNCHANGED <<installed, memory, inStep, domain, backend, tables, admins,
                         settings, win, acts, faults>>
      BY <1>1, <1>5, <2>1
      DEF Install, SaveSettings, DatabaseFails, Fails, FailsStuck, CallOK, AtWork,
          Answers, AtInstallation, InstallStages, Installations, State, siteVars,
          dbVars, boundVars
    <2>3. /\ stage \in Stages /\ c2.stage = stage /\ c2.alone = c.alone
          /\ c2.by = c.by /\ c2.op = c.op /\ c2.dom = c.dom /\ c.dom \in Domains
          /\ c.by \in Windows /\ AtWork(c)
          /\ AtWork(c2) => (c.op \in Installations <=> AtInstallation(c2))
      <3>1. stage \in Stages
        BY <2>1, <2>2 DEF Stages, InstallStages, Answers
      <3>2. /\ c2.stage = stage /\ c2.alone = c.alone
            /\ c2.by = c.by /\ c2.op = c.op /\ c2.dom = c.dom
        BY <1>1, <2>1, <3>1, CallMoved
      <3>3. c.dom \in Domains /\ c.by \in Windows
        BY <1>1 DEF Call
      <3> QED
        BY <1>1, <2>2, <3>1, <3>2, <3>3
        DEF CallOK, AtWork, AtInstallation, InstallStages, Answers, Installations
    <2>4. State'
      BY <1>1, <2>2, <2>3, Bounds DEF State
    <2>5. installed' /\ ~stuck' =>
             OwesUsers(c2) \/ HasUsers' \/ (\E e \in calls \ {c} : OwesUsers(e))
                \/ (installed /\ ~stuck /\ ~OwesUsers(c) /\ (HasUsers => HasUsers'))
      BY <1>1, <2>2, <2>3 DEF OwesUsers, HasUsers, HasTable
    <2>6. installed' /\ ~stuck' =>
             OwesSettings(c2) \/ HasSettings' \/ (\E e \in calls \ {c} : OwesSettings(e))
                \/ (installed /\ ~stuck /\ ~OwesSettings(c) /\ (HasSettings => HasSettings'))
      BY <1>1, <2>2, <2>3 DEF OwesSettings, OwesUsers, HasSettings, HasTable
    <2>7. \A d \in Domains :
             Mistaken(d)' => TellsDomain(c2, d) \/ (Mistaken(d) /\ ~TellsDomain(c, d))
      BY <1>1, <2>2, <2>3 DEF State, Mistaken, TellsDomain
    <2>8. c.alone => Told(c2)'
      BY <1>1, <2>2, <2>3 DEF Told, HasTable, InstallStages
    <2> QED
      BY <1>1, <2>1, <2>2, <2>3, <2>4, <2>5, <2>6, <2>7, <2>8, Advanced
  <1>6. CASE RegisterRoute(c)
    <2>1. PICK c2 : c2 = [c EXCEPT !.stage = "ok"]
      OBVIOUS
    <2>2. /\ Advance(c, "ok") /\ c.stage = "register"
          /\ UNCHANGED <<installed, memory, inStep, domain, backend, tables, admins,
                         settings, win, acts, faults, stuck>>
      BY <1>1, <1>6, <2>1
      DEF Install, DatabaseDone, RegisterRoute, siteVars, dbVars, boundVars
    <2>3. /\ "ok" \in Stages /\ c2.stage = "ok" /\ c2.alone = c.alone
          /\ c2.by = c.by /\ c2.op = c.op /\ c2.dom = c.dom /\ c.dom \in Domains
          /\ c.by \in Windows /\ AtWork(c)
          /\ AtWork(c2) => (c.op \in Installations <=> AtInstallation(c2))
      <3>1. "ok" \in Stages
        BY <2>1, <2>2 DEF Stages, InstallStages, Answers
      <3>2. /\ c2.stage = "ok" /\ c2.alone = c.alone
            /\ c2.by = c.by /\ c2.op = c.op /\ c2.dom = c.dom
        BY <1>1, <2>1, <3>1, CallMoved
      <3>3. c.dom \in Domains /\ c.by \in Windows
        BY <1>1 DEF Call
      <3> QED
        BY <1>1, <2>2, <3>1, <3>2, <3>3
        DEF CallOK, AtWork, AtInstallation, InstallStages, Answers, Installations
    <2>4. State'
      BY <1>1, <2>2, <2>3 DEF State
    <2>5. installed' /\ ~stuck' =>
             OwesUsers(c2) \/ HasUsers' \/ (\E e \in calls \ {c} : OwesUsers(e))
                \/ (installed /\ ~stuck /\ ~OwesUsers(c) /\ (HasUsers => HasUsers'))
      BY <1>1, <2>2, <2>3 DEF OwesUsers, HasUsers, HasTable
    <2>6. installed' /\ ~stuck' =>
             OwesSettings(c2) \/ HasSettings' \/ (\E e \in calls \ {c} : OwesSettings(e))
                \/ (installed /\ ~stuck /\ ~OwesSettings(c) /\ (HasSettings => HasSettings'))
      BY <1>1, <2>2, <2>3 DEF OwesSettings, OwesUsers, HasSettings, HasTable
    <2>7. \A d \in Domains :
             Mistaken(d)' => TellsDomain(c2, d) \/ (Mistaken(d) /\ ~TellsDomain(c, d))
      BY <1>1, <2>2, <2>3 DEF State, Mistaken, TellsDomain
    <2>8. c.alone => Told(c2)'
      BY <1>1, <2>2, <2>3 DEF Told, HasTable, InstallStages
    <2> QED
      BY <1>1, <2>1, <2>2, <2>3, <2>4, <2>5, <2>6, <2>7, <2>8, Advanced
  <1> QED
    BY <1>2, <1>3, <1>4, <1>5, <1>6

LEMMA ThrownKept ==
    ASSUME InstallInv, NEW c \in calls, Install(c), StageThrows(c)
    PROVE  InstallInv'
  <1>1. /\ State /\ c \in Call /\ CallOK(c) /\ (c.alone => Told(c))
        /\ UsersDue /\ SettingsDue /\ MistakesEnd
    BY DEF InstallInv, TypeInv, CallOK, AloneInv
  <1>2. CASE Install(c) /\ StageThrows(c)
    <2>1. PICK stage, c2 : stage = Fails(c) /\ c2 = [c EXCEPT !.stage = stage]
      OBVIOUS
    <2>2. /\ Advance(c, stage) /\ c.stage \in InstallStages \ {"save"}
          /\ \/ c.op = "step5" /\ stage = "reset" /\ stuck' = stuck
             \/ c.op = "unattended" /\ stage = "failed" /\ stuck' = TRUE
          /\ stuck' \in BOOLEAN
          /\ faults' \in 0..MaxFaults
          /\ UNCHANGED <<installed, memory, inStep, domain, backend, tables, admins,
                         settings, win, acts>>
      BY <1>1, <1>2, <2>1, BoundedFaults
      DEF Install, StageThrows, DatabaseFails, Fails, FailsStuck, CallOK, AtWork,
          Answers, AtInstallation, InstallStages, Installations, State, siteVars,
          dbVars, boundVars
    <2>3. /\ stage \in Stages /\ c2.stage = stage /\ c2.alone = c.alone
          /\ c2.by = c.by /\ c2.op = c.op /\ c2.dom = c.dom /\ c.dom \in Domains
          /\ c.by \in Windows /\ AtWork(c)
          /\ AtWork(c2) => (c.op \in Installations <=> AtInstallation(c2))
      <3>1. stage \in Stages
        BY <2>1, <2>2 DEF Stages, InstallStages, Answers
      <3>2. /\ c2.stage = stage /\ c2.alone = c.alone
            /\ c2.by = c.by /\ c2.op = c.op /\ c2.dom = c.dom
        BY <1>1, <2>1, <3>1, CallMoved
      <3>3. c.dom \in Domains /\ c.by \in Windows
        BY <1>1 DEF Call
      <3> QED
        BY <1>1, <2>2, <3>1, <3>2, <3>3
        DEF CallOK, AtWork, AtInstallation, InstallStages, Answers, Installations
    <2>4. State'
      BY <1>1, <2>2, <2>3, Bounds DEF State
    <2>5. installed' /\ ~stuck' =>
             OwesUsers(c2) \/ HasUsers' \/ (\E e \in calls \ {c} : OwesUsers(e))
                \/ (installed /\ ~stuck /\ ~OwesUsers(c) /\ (HasUsers => HasUsers'))
      BY <1>1, <2>2, <2>3 DEF OwesUsers, HasUsers, HasTable
    <2>6. installed' /\ ~stuck' =>
             OwesSettings(c2) \/ HasSettings' \/ (\E e \in calls \ {c} : OwesSettings(e))
                \/ (installed /\ ~stuck /\ ~OwesSettings(c) /\ (HasSettings => HasSettings'))
      BY <1>1, <2>2, <2>3 DEF OwesSettings, OwesUsers, HasSettings, HasTable
    <2>7. \A d \in Domains :
             Mistaken(d)' => TellsDomain(c2, d) \/ (Mistaken(d) /\ ~TellsDomain(c, d))
      BY <1>1, <2>2, <2>3 DEF State, Mistaken, TellsDomain
    <2>8. c.alone => Told(c2)'
      BY <1>1, <2>2, <2>3 DEF Told, HasTable, InstallStages
    <2> QED
      BY <1>1, <2>1, <2>2, <2>3, <2>4, <2>5, <2>6, <2>7, <2>8, Advanced
  <1> QED
    BY <1>2

(* The catch of Step5.                                                     *)
LEMMA ResetKept ==
    ASSUME InstallInv, NEW c \in calls, Reset(c)
    PROVE  InstallInv'
  <1>1. /\ State /\ c \in Call /\ CallOK(c) /\ (c.alone => Told(c))
        /\ UsersDue /\ SettingsDue /\ MistakesEnd
    BY DEF InstallInv, TypeInv, CallOK, AloneInv
  <1>2. CASE Reset(c) /\ SaveConfig(c, FALSE, "failed") /\ stuck' = FALSE
    <2>1. PICK c2 : c2 = [c EXCEPT !.stage = "failed"]
      OBVIOUS
    <2>2. /\ Advance(c, "failed") /\ c.stage = "reset"
          /\ installed' = FALSE
          /\ memory' = [memory EXCEPT ![c.dom] = FALSE]
          /\ inStep' = [d \in Domains |-> d = c.dom]
          /\ stuck' = FALSE
          /\ UNCHANGED <<domain, backend, tables, admins, settings, win, acts, faults>>
      BY <1>1, <1>2, <2>1 DEF Reset, SaveConfig, siteVars, dbVars, boundVars
    <2>3. /\ "failed" \in Stages /\ c2.stage = "failed" /\ c2.alone = c.alone
          /\ c2.by = c.by /\ c2.op = c.op /\ c2.dom = c.dom /\ c.dom \in Domains
          /\ c.by \in Windows /\ AtWork(c)
          /\ AtWork(c2) => (c.op \in Installations <=> AtInstallation(c2))
      <3>1. "failed" \in Stages
        BY <2>1, <2>2 DEF Stages, InstallStages, Answers
      <3>2. /\ c2.stage = "failed" /\ c2.alone = c.alone
            /\ c2.by = c.by /\ c2.op = c.op /\ c2.dom = c.dom
        BY <1>1, <2>1, <3>1, CallMoved
      <3>3. c.dom \in Domains /\ c.by \in Windows
        BY <1>1 DEF Call
      <3> QED
        BY <1>1, <2>2, <3>1, <3>2, <3>3
        DEF CallOK, AtWork, AtInstallation, InstallStages, Answers, Installations
    <2>4. State'
      BY <1>1, <2>2, <2>3, Bounds DEF State
    <2>5. installed' /\ ~stuck' =>
             OwesUsers(c2) \/ HasUsers' \/ (\E e \in calls \ {c} : OwesUsers(e))
                \/ (installed /\ ~stuck /\ ~OwesUsers(c) /\ (HasUsers => HasUsers'))
      BY <1>1, <2>2, <2>3 DEF OwesUsers, HasUsers, HasTable
    <2>6. installed' /\ ~stuck' =>
             OwesSettings(c2) \/ HasSettings' \/ (\E e \in calls \ {c} : OwesSettings(e))
                \/ (installed /\ ~stuck /\ ~OwesSettings(c) /\ (HasSettings => HasSettings'))
      BY <1>1, <2>2, <2>3 DEF OwesSettings, OwesUsers, HasSettings, HasTable
    <2>7. \A d \in Domains :
             Mistaken(d)' => TellsDomain(c2, d) \/ (Mistaken(d) /\ ~TellsDomain(c, d))
      BY <1>1, <2>2, <2>3 DEF State, Mistaken, TellsDomain
    <2>8. c.alone => Told(c2)'
      BY <1>1, <2>2, <2>3 DEF Told, HasTable, InstallStages
    <2> QED
      BY <1>1, <2>1, <2>2, <2>3, <2>4, <2>5, <2>6, <2>7, <2>8, Advanced
  <1>3. CASE /\ Reset(c)
             /\ SaveConfigThrows(c, FALSE, "failed")
             /\ stuck' = (stuck \/ installed)
    <2>1. PICK c2 : c2 = [c EXCEPT !.stage = "failed"]
      OBVIOUS
    <2>2. /\ Advance(c, "failed") /\ c.stage = "reset"
          /\ memory' = [memory EXCEPT ![c.dom] = FALSE]
          /\ faults' \in 0..MaxFaults
          /\ stuck' = (stuck \/ installed)
          /\ UNCHANGED <<installed, inStep, domain, backend, tables, admins, settings,
                         win, acts>>
      BY <1>1, <1>3, <2>1, RefusedByFile DEF Reset, siteVars, dbVars, boundVars
    <2>3. /\ "failed" \in Stages /\ c2.stage = "failed" /\ c2.alone = c.alone
          /\ c2.by = c.by /\ c2.op = c.op /\ c2.dom = c.dom /\ c.dom \in Domains
          /\ c.by \in Windows /\ AtWork(c)
          /\ AtWork(c2) => (c.op \in Installations <=> AtInstallation(c2))
      <3>1. "failed" \in Stages
        BY <2>1, <2>2 DEF Stages, InstallStages, Answers
      <3>2. /\ c2.stage = "failed" /\ c2.alone = c.alone
            /\ c2.by = c.by /\ c2.op = c.op /\ c2.dom = c.dom
        BY <1>1, <2>1, <3>1, CallMoved
      <3>3. c.dom \in Domains /\ c.by \in Windows
        BY <1>1 DEF Call
      <3> QED
        BY <1>1, <2>2, <3>1, <3>2, <3>3
        DEF CallOK, AtWork, AtInstallation, InstallStages, Answers, Installations
    <2>4. State'
      BY <1>1, <2>2, <2>3, Bounds DEF State
    <2>5. installed' /\ ~stuck' =>
             OwesUsers(c2) \/ HasUsers' \/ (\E e \in calls \ {c} : OwesUsers(e))
                \/ (installed /\ ~stuck /\ ~OwesUsers(c) /\ (HasUsers => HasUsers'))
      BY <1>1, <2>2, <2>3 DEF OwesUsers, HasUsers, HasTable
    <2>6. installed' /\ ~stuck' =>
             OwesSettings(c2) \/ HasSettings' \/ (\E e \in calls \ {c} : OwesSettings(e))
                \/ (installed /\ ~stuck /\ ~OwesSettings(c) /\ (HasSettings => HasSettings'))
      BY <1>1, <2>2, <2>3 DEF OwesSettings, OwesUsers, HasSettings, HasTable
    <2>7. \A d \in Domains :
             Mistaken(d)' => TellsDomain(c2, d) \/ (Mistaken(d) /\ ~TellsDomain(c, d))
      BY <1>1, <2>2, <2>3 DEF State, Mistaken, TellsDomain
    <2>8. c.alone => Told(c2)'
      BY <1>1, <2>2, <2>3 DEF Told, HasTable, InstallStages
    <2> QED
      BY <1>1, <2>1, <2>2, <2>3, <2>4, <2>5, <2>6, <2>7, <2>8, Advanced
  <1> QED
    BY <1>2, <1>3 DEF Reset

-----------------------------------------------------------------------------
(* The other steps.  Calls may get other fields, and new ones may come, as *)
(* long as what is at work stays as it is.                                 *)
Same(c, d) ==
    /\ c.stage = d.stage /\ c.alone = d.alone
    /\ c.by = d.by /\ c.op = d.op /\ c.dom = d.dom

LEMMA Followed ==
    ASSUME InstallInv, State',
           UNCHANGED <<siteVars, domain, dbVars, stuck>>,
           NEW f, NEW new, IsFiniteSet(new),
           calls' = {f[c] : c \in calls} \cup new,
           \A c \in calls : CallOK(f[c]) /\ Same(f[c], c),
           \A c \in new : CallOK(c) /\ c.stage = "sent" /\ ~c.alone
    PROVE  InstallInv'
  <1>1. UNCHANGED <<installed, memory, inStep, domain, backend, tables, admins, settings, stuck>>
    BY DEF siteVars, dbVars
  <1>2. TypeInv'
    <2>1. IsFiniteSet(calls')
      <3> DEFINE T == {f[c] : c \in calls}
                 g == [c \in calls |-> f[c]]
      <3>1. g \in [calls -> T] /\ \A y \in T : \E x \in calls : g[x] = y
        OBVIOUS
      <3>2. IsFiniteSet(calls)
        BY DEF InstallInv, TypeInv
      <3> HIDE DEF g, T
      <3>3. IsFiniteSet(T)
        BY <3>1, <3>2, ImageIsFinite
      <3>4. calls' = T \cup new
        BY DEF T
      <3> QED
        BY <3>3, <3>4, FS_Union
    <2>2. \A c \in calls' : CallOK(c)
      OBVIOUS
    <2> QED
      BY <2>1, <2>2 DEF TypeInv, CallOK, AtWork, AtInstallation
  <1>3. \A c \in calls : f[c] \in calls'
    OBVIOUS
  <1>4. UsersDue'
    BY <1>1, <1>3 DEF InstallInv, UsersDue, HasUsers, HasTable, OwesUsers, Same
  <1>5. SettingsDue'
    BY <1>1, <1>3 DEF InstallInv, SettingsDue, HasSettings, HasTable, OwesSettings, OwesUsers, Same
  <1>6. MistakesEnd'
    <2> SUFFICES ASSUME NEW d \in Domains, Live(d)', Mistaken(d)'
                 PROVE  \E e \in calls' : TellsDomain(e, d)
      BY DEF MistakesEnd, TellsDomain
    <2>1. Live(d) /\ Mistaken(d)
      BY <1>1 DEF Live, Mistaken, AtWork, Same
    <2>2. PICK e \in calls : TellsDomain(e, d)
      BY <2>1 DEF InstallInv, MistakesEnd
    <2> QED
      BY <1>3, <2>2 DEF TellsDomain, Same
  <1>7. AloneInv'
    <2> SUFFICES ASSUME NEW c2 \in calls', c2.alone
                 PROVE  Told(c2)' /\ \A d \in calls' : d # c2 => ~AtWork(d) /\ ~d.alone
      BY DEF AloneInv, AtWork, Told
    <2>1. PICK c \in calls : c2 = f[c]
      OBVIOUS
    <2>2. Told(c) /\ \A d \in calls : d # c => ~AtWork(d) /\ ~d.alone
      BY <2>1 DEF InstallInv, AloneInv, Same
    <2>3. Told(c2)'
      BY <1>1, <2>1, <2>2 DEF Told, Same, HasTable
    <2>4. ASSUME NEW d \in calls', d # c2 PROVE ~AtWork(d) /\ ~d.alone
      <3>1. CASE d \in new
        BY <3>1 DEF AtWork
      <3>2. CASE \E e \in calls : d = f[e]
        BY <2>1, <2>2, <2>4, <3>2 DEF Same, AtWork
      <3> QED
        BY <3>1, <3>2
    <2> QED
      BY <2>3, <2>4
  <1> QED
    BY <1>2, <1>4, <1>5, <1>6, <1>7 DEF InstallInv

(* There are only so many calls, so one of so many numbers and one more is *)
(* not taken.                                                              *)
LEMMA FreeNumberIsNumber ==
    ASSUME TypeInv, NEW w, NEW op
    PROVE  FreeNumber(w, op) \in Nat
  <1> DEFINE k == Cardinality(calls)
             Taken(n) == \E c \in calls : c.by = w /\ c.op = op /\ c.n = n
             holder == [n \in 1..(k + 1) |-> CHOOSE c \in calls : c.n = n]
  <1>1. IsFiniteSet(calls) /\ k \in Nat
    BY FS_CardinalityType DEF TypeInv
  <1> HIDE DEF k
  <1>2. IsFiniteSet(1..(k + 1)) /\ Cardinality(1..(k + 1)) = k + 1
    BY <1>1, FS_Interval
  <1>3. \E n \in 1..(k + 1) : ~Taken(n)
    <2> SUFFICES ASSUME \A n \in 1..(k + 1) : Taken(n) PROVE FALSE
      OBVIOUS
    <2>1. \A n \in 1..(k + 1) : holder[n] \in calls /\ holder[n].n = n
      OBVIOUS
    <2>2. holder \in [1..(k + 1) -> calls]
      BY <2>1
    <2> HIDE DEF holder
    <2>3. Cardinality(calls) < Cardinality(1..(k + 1))
      BY <1>1, <1>2 DEF k
    <2>4. \E x, y \in 1..(k + 1) : x # y /\ holder[x] = holder[y]
      BY <1>1, <1>2, <2>2, <2>3, FS_PigeonHole
    <2> QED
      BY <2>1, <2>4
  <1>4. FreeNumber(w, op) \in 1..(k + 1)
    BY <1>3 DEF FreeNumber, k
  <1> QED
    BY <1>1, <1>4

LEMMA NewCallIsSent ==
    ASSUME TypeInv, NEW w \in Windows, NEW op \in Operations
    PROVE  /\ CallOK(NewCall(w, op))
           /\ NewCall(w, op).stage = "sent" /\ ~NewCall(w, op).alone
  <1>1. FreeNumber(w, op) \in Nat /\ domain \in Domains
    BY FreeNumberIsNumber DEF TypeInv, State
  <1>2. NewCall(w, op) \in Call
    BY <1>1 DEF NewCall, Call, Stages
  <1> QED
    BY <1>2 DEF CallOK, NewCall, AtWork

LEMMA CausedInBounds ==
    ASSUME State, NEW w \in Windows, Causes(w)
    PROVE  acts' \in [Windows -> Nat] /\ faults' = faults
  BY DEF State, Causes

LEMMA NavigateKept ==
    ASSUME InstallInv, NEW w \in Windows, NEW op \in Operations, Navigate(w, op),
           Quietly, UNCHANGED win
    PROVE  InstallInv'
  <1> DEFINE f == [c \in calls |-> IF c.w = w THEN [c EXCEPT !.w = "left"] ELSE c]
             new == {NewCall(w, op)}
  <1>1. State /\ TypeInv
    BY DEF InstallInv, TypeInv
  <1>2. State'
    BY <1>1, CausedInBounds DEF State, Navigate, Quietly, siteVars, dbVars
  <1>3. \A c \in calls : CallOK(f[c]) /\ Same(f[c], c)
    <2> SUFFICES ASSUME NEW c \in calls PROVE CallOK(f[c]) /\ Same(f[c], c)
      OBVIOUS
    <2>1. c \in Call /\ CallOK(c)
      BY <1>1 DEF TypeInv, CallOK
    <2>2. f[c] \in Call /\ Same(f[c], c)
      BY <2>1 DEF Call, Same
    <2> HIDE DEF f
    <2> QED
      BY <2>1, <2>2 DEF CallOK, Same, AtWork, AtInstallation
  <1>4. \A c \in new : CallOK(c) /\ c.stage = "sent" /\ ~c.alone
    BY <1>1, NewCallIsSent
  <1>5. IsFiniteSet(new)
    BY FS_Singleton
  <1>6. calls' = {f[c] : c \in calls} \cup new
    BY DEF Navigate, Abandon
  <1>7. UNCHANGED <<siteVars, domain, dbVars, stuck>>
    BY DEF Quietly
  <1> HIDE DEF f, new
  <1> QED
    BY <1>2, <1>3, <1>4, <1>5, <1>6, <1>7, Followed

LEMMA UserKept ==
    ASSUME InstallInv, NEW w \in Windows, User(w)
    PROVE  InstallInv'
  <1> DEFINE f == [c \in calls |-> c]
  <1>1. State /\ TypeInv
    BY DEF InstallInv, TypeInv
  <1>2. \A c \in calls : CallOK(f[c]) /\ Same(f[c], c)
    BY <1>1 DEF TypeInv, Same
  <1>3. calls = {f[c] : c \in calls}
    OBVIOUS
  <1>4. UNCHANGED <<siteVars, domain, dbVars, stuck>>
    BY DEF User, Quietly
  <1> HIDE DEF f
  <1>5. CASE ClickTestWebConfig(w)
    <2> DEFINE new == {NewCall(w, "testwebconfig")}
    <2>1. State'
      BY <1>1, <1>4, <1>5, CausedInBounds DEF State, ClickTestWebConfig, siteVars, dbVars
    <2>2. \A c \in new : CallOK(c) /\ c.stage = "sent" /\ ~c.alone
      BY <1>1, NewCallIsSent DEF Operations
    <2>3. IsFiniteSet(new)
      BY FS_Singleton
    <2>4. calls' = {f[c] : c \in calls} \cup new
      BY <1>3, <1>5 DEF ClickTestWebConfig
    <2> HIDE DEF new
    <2> QED
      BY <1>2, <1>4, <2>1, <2>2, <2>3, <2>4, Followed
  <1>6. CASE GoBack(w)
    <2>1. OnPage("step4") \in [page : Pages, continue : BOOLEAN]
      BY DEF OnPage, Pages
    <2>2. State'
      BY <1>1, <1>4, <1>6, <2>1 DEF State, GoBack, siteVars, dbVars, boundVars
    <2>3. calls' = {f[c] : c \in calls} \cup {}
      BY <1>3, <1>6 DEF GoBack
    <2>4. IsFiniteSet({})
      BY FS_EmptySet
    <2> QED
      BY <1>2, <1>4, <2>2, <2>3, <2>4, Followed
  <1>7. CASE Continue(w)
    BY <1>7, NavigateKept DEF Continue, User, Operations
  <1>8. CASE Submit(w)
    BY <1>8, NavigateKept DEF Submit, User, Operations, Installations
  <1>9. CASE OpenUnattended(w)
    BY <1>9, NavigateKept DEF OpenUnattended, User, Operations, Installations
  <1> QED
    BY <1>5, <1>6, <1>7, <1>8, <1>9 DEF User

(* A call that is not at work is answered, or forgotten.                   *)
LEMMA HandleKept ==
    ASSUME InstallInv, NEW c \in calls, Handle(c)
    PROVE  InstallInv'
  <1>1. /\ State /\ TypeInv /\ c \in Call /\ c.stage \in Answers
        /\ calls' = calls \ {c}
    BY DEF InstallInv, TypeInv, CallOK, Handle
  <1>2. UNCHANGED <<installed, memory, inStep, domain, backend, tables, admins, settings,
                    stuck, acts, faults>>
    BY DEF Handle, Quietly, siteVars, dbVars, boundVars
  <1>3. win' \in [Windows -> [page : Pages, continue : BOOLEAN]]
    <2>1. CASE c.w = "left"
      BY <1>1, <2>1 DEF Handle, State
    <2>2. CASE c.w # "left"
      <3>1. c.w \in Windows
        BY <1>1, <2>2 DEF Call
      <3>2. NextWindow(c) \in [page : Pages, continue : BOOLEAN]
        <4>1. win[c.w] \in [page : Pages, continue : BOOLEAN]
          BY <1>1, <3>1 DEF State
        <4>2. [win[c.w] EXCEPT !.continue = c.stage = "ok"] \in [page : Pages, continue : BOOLEAN]
          BY <4>1
        <4>3. \A page \in Pages : OnPage(page) \in [page : Pages, continue : BOOLEAN]
          BY DEF OnPage
        <4> QED
          BY <4>1, <4>2, <4>3 DEF NextWindow, Pages
      <3> QED
        BY <1>1, <2>2, <3>1, <3>2 DEF Handle, State
    <2> QED
      BY <2>1, <2>2
  <1>4. State'
    BY <1>1, <1>2, <1>3 DEF State
  <1>5. TypeInv'
    <2>1. IsFiniteSet(calls')
      BY <1>1, FS_RemoveElement DEF TypeInv
    <2> QED
      BY <1>1, <1>4, <2>1 DEF TypeInv, CallOK, AtWork, AtInstallation
  <1>6. ~AtWork(c) /\ ~OwesUsers(c) /\ ~OwesSettings(c) /\ c.stage # "reset"
    BY <1>1 DEF AtWork, OwesUsers, OwesSettings, Answers
  <1>7. UsersDue'
    BY <1>1, <1>2, <1>6 DEF InstallInv, UsersDue, HasUsers, HasTable, OwesUsers
  <1>8. SettingsDue'
    BY <1>1, <1>2, <1>6 DEF InstallInv, SettingsDue, HasSettings, HasTable, OwesSettings, OwesUsers
  <1>9. MistakesEnd'
    BY <1>1, <1>2, <1>6 DEF InstallInv, MistakesEnd, Live, Mistaken, TellsDomain, AtWork
  <1>10. AloneInv'
    BY <1>1, <1>2 DEF InstallInv, AloneInv, AtWork, Told, HasTable
  <1> QED
    BY <1>5, <1>7, <1>8, <1>9, <1>10 DEF InstallInv

(* A request that comes is sent away, or let in; in the second case its    *)
(* domain does not take the site for installed, or it will only save that  *)
(* it is not.                                                              *)
LEMMA AdmitKept ==
    ASSUME InstallInv, NEW c \in calls, Admit(c)
    PROVE  InstallInv'
  <1>1. /\ State /\ TypeInv /\ c \in Call /\ CallOK(c) /\ c.stage = "sent"
        /\ c.dom \in Domains
    BY DEF InstallInv, TypeInv, CallOK, Admit, Call
  <1>2. UNCHANGED <<installed, memory, inStep, domain, backend, tables, admins, settings,
                    win, stuck, acts, faults>>
    BY DEF Admit, siteVars, dbVars, boundVars
  <1>3. State'
    BY <1>1, <1>2 DEF State
  <1>4. ~AtWork(c) /\ ~OwesUsers(c) /\ ~OwesSettings(c) /\ c.stage # "reset"
    BY <1>1 DEF AtWork, OwesUsers, OwesSettings, Answers
  <1>5. IsFiniteSet(calls) /\ IsFiniteSet(calls \ {c})
    BY <1>1, FS_RemoveElement DEF TypeInv
  <1>6. CASE Refuses(c) /\ Advance(c, IF c.op = "testwebconfig" THEN "error" ELSE "redirect")
    <2> DEFINE stage == IF c.op = "testwebconfig" THEN "error" ELSE "redirect"
    <2>0. stage \in {"error", "redirect"} /\ Advance(c, stage)
      BY <1>6
    <2> HIDE DEF stage
    <2>1. PICK c2 : c2 = [c EXCEPT !.stage = stage]
      OBVIOUS
    <2>2. /\ c2 \in Call /\ c2.stage = stage /\ c2.alone = c.alone
          /\ calls' = (calls \ {c}) \cup {c2}
      BY <1>1, <2>0, <2>1, CallMoved DEF Stages, Answers, Advance
    <2>3. CallOK(c2) /\ ~AtWork(c2) /\ Told(c2)'
      BY <2>0, <2>2 DEF CallOK, AtWork, Told, Answers, InstallStages
    <2>4. TypeInv'
      <3>1. IsFiniteSet(calls')
        BY <1>5, <2>2, FS_AddElement
      <3> QED
        BY <1>1, <1>3, <2>2, <2>3, <3>1 DEF TypeInv, CallOK, AtWork, AtInstallation
    <2>5. UsersDue'
      BY <1>2, <1>4, <2>2 DEF InstallInv, UsersDue, HasUsers, HasTable, OwesUsers
    <2>6. SettingsDue'
      BY <1>2, <1>4, <2>2
      DEF InstallInv, SettingsDue, HasSettings, HasTable, OwesSettings, OwesUsers
    <2>7. MistakesEnd'
      BY <1>2, <1>4, <2>2, <2>3 DEF InstallInv, MistakesEnd, Live, Mistaken, TellsDomain, AtWork
    <2>8. AloneInv'
      <3>1. \A d \in calls \ {c} : d.alone =>
               Told(d)' /\ ~c.alone /\ \A e \in calls : e # d => ~AtWork(e) /\ ~e.alone
        BY <1>2 DEF InstallInv, AloneInv, Told, HasTable
      <3>2. c.alone => \A d \in calls \ {c} : ~AtWork(d) /\ ~d.alone
        BY DEF InstallInv, AloneInv
      <3> QED
        BY <2>2, <2>3, <3>1, <3>2 DEF AloneInv, AtWork, Told
    <2> QED
      BY <2>4, <2>5, <2>6, <2>7, <2>8 DEF InstallInv
  <1>7. CASE /\ LetsIn(c)
             /\ calls' = {[d EXCEPT !.alone = FALSE] : d \in calls \ {c}}
                          \cup {[c EXCEPT !.stage = FirstStage(c),
                                          !.alone = ~\E d \in calls : AtWork(d)]}
    <2> DEFINE alone == ~\E d \in calls : AtWork(d)
               f == [d \in calls \ {c} |-> [d EXCEPT !.alone = FALSE]]
    <2>1. alone \in BOOLEAN
      OBVIOUS
    <2>2. PICK c2 : c2 = [c EXCEPT !.stage = FirstStage(c), !.alone = alone]
      OBVIOUS
    <2>3. calls' = {f[d] : d \in calls \ {c}} \cup {c2}
      BY <1>7, <2>2
    <2>4. FirstStage(c) \in Stages
      BY <1>1 DEF FirstStage, Call, Operations, Installations, Stages, InstallStages
    <2>5. /\ c2 \in Call /\ c2.stage = FirstStage(c) /\ c2.alone = alone
          /\ c2.op = c.op /\ c2.dom = c.dom /\ c2.by = c.by
      BY <1>1, <2>1, <2>2, <2>4 DEF Call
    <2>6. CallOK(c2) /\ c2.stage \in {"save", "test", "language"}
      BY <1>1, <2>5
      DEF CallOK, FirstStage, Call, Operations, Installations, AtWork, AtInstallation, InstallStages
    <2>7. \A d \in calls \ {c} : /\ CallOK(f[d]) /\ f[d].stage = d.stage /\ ~f[d].alone
                                 /\ f[d].op = d.op /\ f[d].dom = d.dom
      <3> SUFFICES ASSUME NEW d \in calls \ {c}
                   PROVE  /\ CallOK(f[d]) /\ f[d].stage = d.stage /\ ~f[d].alone
                          /\ f[d].op = d.op /\ f[d].dom = d.dom
        OBVIOUS
      <3>1. d \in Call /\ CallOK(d)
        BY <1>1 DEF TypeInv, CallOK
      <3>2. /\ f[d] \in Call /\ f[d].stage = d.stage /\ ~f[d].alone
            /\ f[d].op = d.op /\ f[d].dom = d.dom
        BY <3>1 DEF Call
      <3> HIDE DEF f
      <3> QED
        BY <3>1, <3>2 DEF CallOK, AtWork, AtInstallation
    <2>8. IsFiniteSet(calls')
      <3> DEFINE S == calls \ {c}
                 T == {f[d] : d \in S}
      <3>1. f \in [S -> T] /\ \A y \in T : \E x \in S : f[x] = y
        OBVIOUS
      <3>2. IsFiniteSet(S)
        BY <1>5
      <3> HIDE DEF f, T, S
      <3>3. IsFiniteSet(T)
        BY <3>1, <3>2, ImageIsFinite
      <3>4. calls' = T \cup {c2}
        BY <2>3 DEF T, S
      <3> QED
        BY <3>3, <3>4, FS_AddElement
    <2>9. alone => \A d \in calls : ~AtWork(d)
      OBVIOUS
    <2> HIDE DEF f, alone
    <2>10. \A d \in calls \ {c} : f[d] \in calls'
      BY <2>3
    <2>11. TypeInv'
      BY <1>3, <2>3, <2>6, <2>7, <2>8 DEF TypeInv, CallOK, AtWork, AtInstallation
    <2>12. UsersDue'
      BY <1>2, <1>4, <2>7, <2>10 DEF InstallInv, UsersDue, HasUsers, HasTable, OwesUsers
    <2>13. SettingsDue'
      BY <1>2, <1>4, <2>7, <2>10
      DEF InstallInv, SettingsDue, HasSettings, HasTable, OwesSettings, OwesUsers
    <2>14. MistakesEnd'
      <3> SUFFICES ASSUME NEW d \in Domains, Live(d)', Mistaken(d)'
                   PROVE  \E e \in calls' : TellsDomain(e, d)
        BY DEF MistakesEnd, TellsDomain
      <3>1. Mistaken(d) /\ (d # c.dom \/ c.op = "testwebconfig")
        BY <1>2, <1>7 DEF Mistaken, LetsIn
      <3>2. Live(d)
        BY <1>2, <2>3, <2>5, <2>7, <3>1 DEF Live, AtWork
      <3>3. PICK e \in calls : TellsDomain(e, d)
        BY <3>1, <3>2 DEF InstallInv, MistakesEnd
      <3> QED
        BY <1>4, <2>7, <2>10, <3>3 DEF TellsDomain
    <2>15. AloneInv'
      <3>1. Told(c2)'
        BY <2>6 DEF Told, InstallStages
      <3>2. alone => \A d \in calls' : d # c2 => ~AtWork(d) /\ ~d.alone
        BY <2>3, <2>7, <2>9 DEF AtWork
      <3> QED
        BY <2>3, <2>5, <2>7, <3>1, <3>2 DEF AloneInv, AtWork, Told
    <2> QED
      BY <2>11, <2>12, <2>13, <2>14, <2>15 DEF InstallInv
  <1> QED
    BY <1>6, <1>7 DEF Admit

(* A new domain reads what the file says.                                  *)
LEMMA DomainStarted ==
    ASSUME State, NEW value \in BOOLEAN, StartDomain(value)
    PROVE  /\ domain' \in Domains /\ domain' = domain + 1
           /\ memory' \in [Domains -> BOOLEAN] /\ memory'[domain + 1] = value
           /\ \A d \in Domains : d # domain + 1 => memory'[d] = memory[d]
  <1>1. domain \in Domains /\ domain + 1 \in Domains /\ memory \in [Domains -> BOOLEAN]
    BY Bounds DEF State, StartDomain, Domains
  <1> QED
    BY <1>1 DEF StartDomain

LEMMA RecycleKept ==
    ASSUME InstallInv, Recycle
    PROVE  InstallInv'
  <1>1. /\ State /\ TypeInv
        /\ installed \in BOOLEAN /\ inStep \in [Domains -> BOOLEAN]
    BY DEF InstallInv, TypeInv, State
  <1>2. /\ domain' \in Domains /\ domain' = domain + 1
        /\ memory' \in [Domains -> BOOLEAN] /\ memory'[domain + 1] = installed
        /\ \A d \in Domains : d # domain + 1 => memory'[d] = memory[d]
    BY <1>1, DomainStarted DEF Recycle
  <1>3. UNCHANGED <<installed, backend, tables, admins, settings, win, calls, acts, faults, stuck>>
    BY DEF Recycle, dbVars, boundVars
  <1>4. inStep' = [inStep EXCEPT ![domain + 1] = TRUE]
    BY DEF Recycle
  <1>5. TypeInv'
    BY <1>1, <1>2, <1>3, <1>4 DEF TypeInv, State, CallOK, AtWork, AtInstallation
  <1>6. UsersDue' /\ SettingsDue'
    BY <1>3 DEF InstallInv, UsersDue, HasUsers, HasTable, OwesUsers, SettingsDue, HasSettings,
                OwesSettings
  <1>7. MistakesEnd'
    <2> SUFFICES ASSUME NEW d \in Domains, Live(d)', Mistaken(d)'
                 PROVE  \E e \in calls : TellsDomain(e, d)
      BY <1>3 DEF MistakesEnd, TellsDomain
    <2>1. d # domain + 1
      BY <1>2, <1>3 DEF Mistaken
    <2>2. Mistaken(d) /\ Live(d)
      BY <1>1, <1>2, <1>3, <1>4, <2>1 DEF Mistaken, Live, AtWork
    <2> QED
      BY <2>2 DEF InstallInv, MistakesEnd
  <1>8. AloneInv'
    BY <1>3 DEF InstallInv, AloneInv, AtWork, Told, HasTable
  <1> QED
    BY <1>5, <1>6, <1>7, <1>8 DEF InstallInv

(* What was at work is no more, and what it owed with it.                  *)
LEMMA CrashKept ==
    ASSUME InstallInv, Crash
    PROVE  InstallInv'
  <1>1. /\ State /\ TypeInv
        /\ installed \in BOOLEAN /\ inStep \in [Domains -> BOOLEAN] /\ stuck \in BOOLEAN
        /\ win \in [Windows -> [page : Pages, continue : BOOLEAN]]
    BY DEF InstallInv, TypeInv, State
  <1>2. /\ domain' \in Domains /\ domain' = domain + 1
        /\ memory' \in [Domains -> BOOLEAN] /\ memory'[domain + 1] = installed
    BY <1>1, DomainStarted DEF Crash
  <1>3. UNCHANGED <<installed, backend, tables, admins, settings>> /\ calls' = {}
    BY DEF Crash, dbVars
  <1>4. inStep' \in [Domains -> BOOLEAN]
    BY <1>1 DEF Crash
  <1>5. win' \in [Windows -> [page : Pages, continue : BOOLEAN]]
    <2>1. OnPage("error") \in [page : Pages, continue : BOOLEAN]
      BY DEF OnPage, Pages
    <2> QED
      BY <1>1, <2>1 DEF Crash
  <1>6. faults' \in 0..MaxFaults /\ acts' = acts
    BY <1>1, BoundedFaults DEF Crash
  <1>7. stuck' \in BOOLEAN
    BY DEF Crash
  <1>8. State'
    BY <1>1, <1>2, <1>3, <1>4, <1>5, <1>6, <1>7 DEF State
  <1>9. TypeInv'
    BY <1>3, <1>8, FS_EmptySet DEF TypeInv
  <1>10. installed' /\ ~stuck' =>
            /\ installed /\ ~stuck
            /\ \A c \in calls : ~(c.op \in Installations /\ AtWork(c))
    <2>1. stuck' = (stuck \/ (installed /\ \E c \in calls : c.op \in Installations /\ AtWork(c)))
      BY DEF Crash
    <2> QED
      BY <1>3, <2>1
  <1>11. \A c \in calls : OwesSettings(c) => c.op \in Installations /\ AtWork(c)
    BY <1>1
    DEF TypeInv, CallOK, OwesSettings, OwesUsers, AtWork, AtInstallation, InstallStages, Answers
  <1>12. UsersDue'
    BY <1>3, <1>10, <1>11 DEF InstallInv, UsersDue, HasUsers, HasTable, OwesSettings
  <1>13. SettingsDue'
    BY <1>3, <1>10, <1>11 DEF InstallInv, SettingsDue, HasSettings, HasTable
  <1>14. MistakesEnd'
    BY <1>2, <1>3 DEF MistakesEnd, Live, Mistaken
  <1>15. AloneInv'
    BY <1>3 DEF AloneInv
  <1> QED
    BY <1>9, <1>12, <1>13, <1>14, <1>15 DEF InstallInv

LEMMA ResetByHandKept ==
    ASSUME InstallInv, ResetByHand
    PROVE  InstallInv'
  <1>1. /\ State /\ TypeInv
    BY DEF InstallInv, TypeInv
  <1>2. /\ domain' \in Domains /\ domain' = domain + 1
        /\ memory' \in [Domains -> BOOLEAN] /\ memory'[domain + 1] = FALSE
    BY <1>1, DomainStarted DEF ResetByHand
  <1>3. /\ installed' = FALSE /\ stuck' = FALSE
        /\ inStep' = [d \in Domains |-> d = domain + 1]
        /\ UNCHANGED <<backend, tables, admins, settings, win, acts, faults>>
    BY DEF ResetByHand, dbVars, boundVars
  <1>4. State'
    BY <1>1, <1>2, <1>3 DEF State
  <1> DEFINE f == [c \in calls |-> [c EXCEPT !.alone = FALSE]]
             T == {f[c] : c \in calls}
  <1>5. calls' = T
    BY DEF ResetByHand
  <1>6. \A c \in calls : CallOK(f[c]) /\ ~f[c].alone
    <2> SUFFICES ASSUME NEW c \in calls PROVE CallOK(f[c]) /\ ~f[c].alone
      OBVIOUS
    <2>1. c \in Call /\ CallOK(c)
      BY <1>1 DEF TypeInv, CallOK
    <2>2. /\ f[c] \in Call /\ f[c].stage = c.stage /\ ~f[c].alone /\ f[c].op = c.op
      BY <2>1 DEF Call
    <2> HIDE DEF f
    <2> QED
      BY <2>1, <2>2 DEF CallOK, AtWork, AtInstallation
  <1>7. f \in [calls -> T] /\ \A y \in T : \E x \in calls : f[x] = y
    OBVIOUS
  <1>8. \A c \in T : CallOK(c) /\ ~c.alone
    BY <1>6
  <1> HIDE DEF f, T
  <1>9. IsFiniteSet(calls')
    BY <1>1, <1>5, <1>7, ImageIsFinite DEF TypeInv
  <1>10. TypeInv'
    BY <1>4, <1>5, <1>8, <1>9 DEF TypeInv, CallOK, AtWork, AtInstallation
  <1>11. UsersDue' /\ SettingsDue'
    BY <1>3 DEF UsersDue, SettingsDue
  <1>12. MistakesEnd'
    BY <1>2, <1>3 DEF MistakesEnd, Mistaken
  <1>13. AloneInv'
    BY <1>5, <1>8 DEF AloneInv
  <1> QED
    BY <1>10, <1>11, <1>12, <1>13 DEF InstallInv

-----------------------------------------------------------------------------
LEMMA InitHolds ==
    ASSUME Init
    PROVE  InstallInv
  <1>1. OnPage("step1") \in [page : Pages, continue : BOOLEAN]
        /\ OnPage("step4") \in [page : Pages, continue : BOOLEAN]
    BY DEF OnPage, Pages
  <1>2. State
    <2>1. settings \subseteq Windows /\ Cardinality(settings) <= 1
      <3>1. Cardinality({}) = 0
        BY FS_EmptySet
      <3> QED
        BY <3>1 DEF Init
    <2>2. win \in [Windows -> [page : Pages, continue : BOOLEAN]]
      BY <1>1 DEF Init
    <2>3. faults \in 0..MaxFaults /\ domain \in Domains
      BY Bounds DEF Init
    <2>4. /\ admins \in [Windows -> Nat] /\ acts \in [Windows -> Nat]
          /\ memory \in [Domains -> BOOLEAN] /\ inStep \in [Domains -> BOOLEAN]
          /\ installed \in BOOLEAN /\ stuck \in BOOLEAN
      BY DEF Init, Nobody
    <2> QED
      BY <2>1, <2>2, <2>3, <2>4 DEF Init, State
  <1>3. TypeInv
    BY <1>2, FS_EmptySet DEF Init, TypeInv
  <1>4. UsersDue /\ SettingsDue /\ MistakesEnd /\ AloneInv
    BY DEF Init, UsersDue, SettingsDue, MistakesEnd, Mistaken, AloneInv
  <1> QED
    BY <1>3, <1>4 DEF InstallInv

LEMMA InstallStepKept ==
    ASSUME InstallInv, NEW c \in calls, Install(c)
    PROVE  InstallInv'
  BY DropKept, CreateKept, AddKept, ThrownKept DEF Install

LEMMA StutterKept ==
    ASSUME InstallInv, UNCHANGED vars
    PROVE  InstallInv'
  <1>1. UNCHANGED <<installed, memory, inStep, domain, backend, tables, admins, settings,
                    win, calls, acts, faults, stuck>>
    BY DEF vars, siteVars, dbVars, boundVars
  <1> QED
    BY <1>1 DEF InstallInv, TypeInv, State, CallOK, AtWork, AtInstallation, UsersDue, SettingsDue,
                MistakesEnd, AloneInv, HasUsers, HasSettings, HasTable, OwesUsers, OwesSettings,
                Live, Mistaken, TellsDomain, Told

LEMMA NextKept ==
    ASSUME InstallInv, [Next]_vars
    PROVE  InstallInv'
  <1>1. ASSUME NEW c \in calls, Server(c) PROVE InstallInv'
    BY <1>1, AdmitKept, TestWebConfigKept, Step2Kept, SaveKept, InstallStepKept, ResetKept
    DEF Server
  <1>2. ASSUME Finished PROVE InstallInv'
    BY <1>2, StutterKept DEF Finished
  <1> QED
    BY <1>1, <1>2, HandleKept, UserKept, RecycleKept, CrashKept, ResetByHandKept, StutterKept
    DEF Next

LEMMA InstallInvIsKept == Spec => []InstallInv
  <1> QED
    BY InitHolds, NextKept, PTL DEF Spec

(* Every variable keeps its type: there are never two rows of settings,    *)
(* and never more faults than are counted.                                 *)
THEOREM InstallerTypes == Spec => []TypeOK
  <1>1. InstallInv => TypeOK
    BY DEF InstallInv, TypeInv, State, TypeOK, CallOK
  <1> QED
    BY <1>1, InstallInvIsKept, PTL

(* However many windows install at the same time, with whatever faults and *)
(* restarts: when none is at work, and none that failed has not been taken *)
(* back, a site that the file, or the current domain in step with it, takes *)
(* for installed is complete (InstallationService, InstallController).     *)
THEOREM InstalledIsComplete == Spec => []InstalledMeansComplete
  <1>1. ASSUME InstallInv PROVE InstalledMeansComplete
    <2> SUFFICES ASSUME AtRest, ~stuck, installed \/ (memory[domain] /\ inStep[domain])
                 PROVE  Complete
      BY DEF InstalledMeansComplete
    <2>1. TypeInv /\ domain \in Domains
      BY <1>1 DEF InstallInv, TypeInv, State
    <2>2. \A c \in calls : ~OwesUsers(c) /\ ~OwesSettings(c) /\ c.stage # "reset"
      BY <2>1 DEF TypeInv, CallOK, AtRest, OwesSettings, OwesUsers, AtWork, AtInstallation,
                  InstallStages, Answers
    <2>3. ~Mistaken(domain)
      BY <1>1, <2>1, <2>2 DEF InstallInv, MistakesEnd, Live, TellsDomain
    <2>4. installed
      BY <2>3 DEF Mistaken
    <2>5. HasUsers /\ HasSettings
      BY <1>1, <2>2, <2>4 DEF InstallInv, UsersDue, SettingsDue
    <2> QED
      BY <2>5 DEF Complete, HasUsers, HasSettings
  <1> QED
    BY <1>1, InstallInvIsKept, PTL

(* The answer to an installation that nothing else was let in beside, or   *)
(* after, is true: what was typed is what the site has, and no more; or it *)
(* is not installed (InstallController.Step5 and Unattended).              *)
THEOREM AnswersAreTrue == Spec => []AnswerIsTrue
  <1>1. ASSUME InstallInv PROVE AnswerIsTrue
    <2> SUFFICES ASSUME NEW c \in calls, c.op \in Installations, c.alone
                 PROVE  /\ c.stage = "ok" => /\ installed /\ Complete
                                             /\ settings = {c.by}
                                             /\ admins = [Nobody EXCEPT ![c.by] = 1]
                        /\ (c.stage = "failed" /\ ~stuck) => ~installed
      BY DEF AnswerIsTrue
    <2>1. Told(c) /\ c.by \in Windows
      BY <1>1 DEF InstallInv, AloneInv, TypeInv, CallOK, Call
    <2>2. [Nobody EXCEPT ![c.by] = 1] # Nobody
      <3>1. [Nobody EXCEPT ![c.by] = 1][c.by] = 1 /\ Nobody[c.by] = 0
        BY <2>1 DEF Nobody
      <3> QED
        BY <3>1
    <2> QED
      BY <2>1, <2>2 DEF Told, Complete
  <1> QED
    BY <1>1, InstallInvIsKept, PTL

=============================================================================
