------------------------------- MODULE MCTotpServer -------------------------------
(* Instances of TotpServer for TLC.                                                 *)
EXTENDS TotpServer, TLC

Symmetry == Permutations(Requests) \cup Permutations(Keys)
===================================================================================
