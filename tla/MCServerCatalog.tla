-------------------------- MODULE MCServerCatalog --------------------------
(***************************************************************************)
(* Instances of ServerCatalog: one server, and requests that do not differ.*)
(***************************************************************************)
EXTENDS ServerCatalog, TLC

CONSTANTS s1, r1, r2, r3, n1, n2

MCNamed == [s \in Existing |-> n1]

MCSymmetry == Permutations(Request)
=============================================================================
