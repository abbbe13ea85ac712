-------------------------- MODULE MCEnhancedServer --------------------------
(***************************************************************************)
(* Instances of EnhancedServer for TLC.  Connections are interchangeable,  *)
(* and so are agents.                                                      *)
(***************************************************************************)
EXTENDS EnhancedServer, TLC

ServerSymmetry == Permutations(Conns) \cup Permutations(Agents)
=============================================================================
