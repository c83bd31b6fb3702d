----------------------------- MODULE MCIntrospection -----------------------------
(* Instances of Introspection for TLC.                                             *)
EXTENDS Introspection, TLC

RequestSymmetry == Permutations(Requests)

\* Every client waits for its reply.
PatientSpec == Init /\ [][NextWithoutCancel]_vars
=================================================================================
