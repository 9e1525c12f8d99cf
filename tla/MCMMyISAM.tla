------------------------------ MODULE MCMMyISAM -------------------------------
(***************************************************************************)
(* The model-checking instance of MMyISAM.  Keys, values and registry      *)
(* indexes are interchangeable: no definition names one of them, and the   *)
(* properties checked under the symmetry are invariants and step           *)
(* properties.                                                             *)
(***************************************************************************)
EXTENDS MMyISAM, TLC

Symmetry ==
  Permutations(Keys) \cup Permutations(Values) \cup Permutations(Registries)

=============================================================================
