------------------------- MODULE MCServerOperation -------------------------
(***************************************************************************)
(* Instances of ServerOperation: two machine types, two games, a server    *)
(* with the default backup settings and one override.                      *)
(***************************************************************************)
EXTENDS ServerOperation

CONSTANTS m1, m2, g1, g2, b1, b2

MCCreated == [machine |-> m1, game |-> g1]
=============================================================================
