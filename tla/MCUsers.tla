------------------------------- MODULE MCUsers -------------------------------
(***************************************************************************)
(* Values for model checking UserProperties.                               *)
(***************************************************************************)
EXTENDS UserProperties, TLC

Account(id, email, name, admin) ==
    [id |-> id, email |-> email, username |-> name, password |-> "p",
     isAdmin |-> admin, isEditor |-> ~admin, isActivated |-> TRUE,
     activationKey |-> 0, resetKey |-> 0]

TwoAccounts == <<Account(1, "e", "a", TRUE), Account(2, "f", "b", FALSE)>>

PageOfFirst == <<1>>

=============================================================================
