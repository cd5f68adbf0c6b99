------------------------------- MODULE MCFiles -------------------------------
(***************************************************************************)
(* Values for model checking FileProperties.                               *)
(***************************************************************************)
EXTENDS FileProperties, TLC

(* Two calls of a patient user, one of any other. *)
TwoAndOne == [w \in Windows |-> IF w \in Patient THEN 2 ELSE 1]

OneFolder == {Root, <<"a">>}
FileInRoot == {[dir |-> Root, name |-> "f", body |-> "x"]}
=============================================================================
