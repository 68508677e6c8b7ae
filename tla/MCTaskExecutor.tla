--------------------------- MODULE MCTaskExecutor ---------------------------
(***************************************************************************)
(* Instances of TaskExecutor: three requests about one server, an update,  *)
(* a destroy and another update, and two handler instances.                *)
(***************************************************************************)
EXTENDS TaskExecutor, TLC

CONSTANTS s1, o1, o2, o3, w1, w2

MCServer == {s1}
MCWorker == {w1, w2}
MCOp == {o1, o2, o3}
MCServerOf == [o \in MCOp |-> s1]
MCKindOf == (o1 :> "UPDATE") @@ (o2 :> "DESTROY") @@ (o3 :> "UPDATE")
=============================================================================
