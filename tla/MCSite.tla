-------------------------------- MODULE MCSite --------------------------------
(***************************************************************************)
(* Values for model checking SiteProperties.                               *)
(***************************************************************************)
EXTENDS SiteProperties

ThreadSymmetry == Permutations(Threads)
=============================================================================
