-------------------------- MODULE MCStandardServer --------------------------
(***************************************************************************)
(* Instances of StandardServer for TLC.  Connections are interchangeable,  *)
(* and so are agents.                                                      *)
(***************************************************************************)
EXTENDS StandardServer, TLC

ServerSymmetry == Permutations(Conns) \cup Permutations(Agents)
=============================================================================
