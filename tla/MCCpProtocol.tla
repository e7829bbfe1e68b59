---------------------------- MODULE MCCpProtocol ----------------------------
(***************************************************************************)
(* CpProtocol on small instances.                                          *)
(***************************************************************************)
EXTENDS CpProtocol, TLC

\* The variables of a plugin are interchangeable.
VarSymmetry == Permutations(Vars)
=============================================================================
