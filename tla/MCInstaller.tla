----------------------------- MODULE MCInstaller -----------------------------
(***************************************************************************)
(* Values for model checking InstallerProperties.                          *)
(***************************************************************************)
EXTENDS InstallerProperties

(* Two requests of the window that is further on, one of the other. *)
TwoAndOne == [w \in Windows |-> IF w \in Opened THEN 2 ELSE 1]

=============================================================================
