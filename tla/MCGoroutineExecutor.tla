------------------------- MODULE MCGoroutineExecutor -------------------------
(***************************************************************************)
(* An instance of GoroutineExecutor: three calls are about one server, as  *)
(* many as the overlap after a cancellation needs (the cancelled call, its *)
(* successor, and the one let in by the deferred delete of the first).     *)
(***************************************************************************)
EXTENDS GoroutineExecutor

CONSTANTS s1, o1, o2, o3

MCOp == {o1, o2, o3}
OneServer == {s1}
CallsOnOne == [o \in MCOp |-> s1]
=============================================================================
