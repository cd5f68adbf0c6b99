------------------------- MODULE InstallerProperties -------------------------
(***************************************************************************)
(* What the installer is expected to do.                                   *)
(***************************************************************************)
EXTENDS Installer

AtRest == ~\E c \in calls : c.op \in Installations /\ AtWork(c)

Complete ==
    /\ HasTable("users") /\ HasTable("siteconfiguration")
    /\ admins # Nobody
    /\ settings # {}

(* Whatever installations have run at the same time, of one window or of   *)
(* several, and whatever has failed in them: when none is at work, and     *)
(* none that failed has not been taken back, a site that the file says is  *)
(* installed has all its tables, the settings and an administrator.  So    *)
(* has one that the current domain takes for installed, as long as the     *)
(* file is as the domain knows it.                                         *)
InstalledMeansComplete ==
    (AtRest /\ ~stuck /\ (installed \/ (memory[domain] /\ inStep[domain]))) => Complete

(* What the answer to an installation says is so, if nothing else was let  *)
(* in since: after a success the only administrator and the settings are   *)
(* those that were typed, whatever earlier installations have left behind; *)
(* after a failure the wizard can be used again.                           *)
AnswerIsTrue ==
    \A c \in calls :
       (c.op \in Installations /\ c.alone) =>
          /\ c.stage = "ok" => /\ installed /\ Complete
                               /\ settings = {c.by}
                               /\ admins = [Nobody EXCEPT ![c.by] = 1]
          /\ (c.stage = "failed" /\ ~stuck) => ~installed

=============================================================================
