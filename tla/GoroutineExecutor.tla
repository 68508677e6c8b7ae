-------------------------- MODULE GoroutineExecutor --------------------------
(***************************************************************************)
(* The in-process OperationExecutor (internal/services/                    *)
(* executor_goroutine.go).  StartOperation registers a cancel function in  *)
(* the map `operations' under the executor's mutex and starts a goroutine  *)
(* that runs the operation with a context of its own; the goroutine's      *)
(* deferred function deletes the map entry of the server.  The operation   *)
(* persists its progress through that context (internal/services/          *)
(* provisioning.go, updateStatus), so a write made after the context is    *)
(* cancelled or has expired is lost, and so is one the store rejects.      *)
(*                                                                         *)
(* An element of Op is one accepted call of StartOperation and the         *)
(* goroutine it starts.  Map accesses are atomic: the mutex is held.       *)
(***************************************************************************)
EXTENDS FiniteSets

CONSTANTS
    Server,         \* server IDs
    Op,             \* calls of StartOperation
    ServerOf,       \* the server each call is about
    NoOp,           \* no entry in the map, no record in the store
    CancelExposed   \* whether some caller uses CancelOperation (no route does)

ASSUME ServerOfType == ServerOf \in [Op -> Server]
ASSUME NoOpIsNoCall == NoOp \notin Op
ASSUME CancelExposedType == CancelExposed \in BOOLEAN

VARIABLES
    operations, \* the executor's map: the call whose cancel function it holds
    pc,         \* the goroutine of each call
    ctx,        \* the operation context of each call
    outcome,    \* status.State in the goroutine's own copy of the status
    record,     \* the persisted provisioning status of each server
    cancelled   \* history: calls that CancelOperation has cancelled since the
                \* process started

vars == <<operations, pc, ctx, outcome, record, cancelled>>

States == {"IN_PROGRESS", "COMPLETED", "FAILED"}
Records == [op : Op \union {NoOp}, state : States \union {"NONE"}]
NoRecord == [op |-> NoOp, state |-> "NONE"]

TypeOK ==
    /\ operations \in [Server -> Op \union {NoOp}]
    /\ pc \in [Op -> {"new", "running", "returned", "gone"}]
    /\ ctx \in [Op -> {"live", "cancelled", "expired"}]
    /\ outcome \in [Op -> States]
    /\ record \in [Server -> Records]
    /\ cancelled \in SUBSET Op

Init ==
    /\ operations = [s \in Server |-> NoOp]
    /\ pc = [o \in Op |-> "new"]
    /\ ctx = [o \in Op |-> "live"]
    /\ outcome = [o \in Op |-> "IN_PROGRESS"]
    /\ record = [s \in Server |-> NoRecord]
    /\ cancelled = {}

\* The call has a goroutine: it runs the operation or its deferred function.
Active(o) == pc[o] \in {"running", "returned"}

\* CancelOperation has been used on server s.
Interfered(s) == \E o \in cancelled : ServerOf[o] = s

(***************************************************************************)
(* The three things done to the map.  The operators named No... are slips  *)
(* the properties below must catch; no action uses them.                   *)
(***************************************************************************)
NoLookup(s) == TRUE

\* The map has no entry for server s.
Free(s) == operations[s] = NoOp

NoUnregister(s) == operations

\* delete(e.operations, serverID), whichever call the entry belongs to.
Unregister(s) == [operations EXCEPT ![s] = NoOp]

\* The registered cancel function of server s is called.
CancelSignal(s) == [ctx EXCEPT ![operations[s]] = "cancelled"]

(***************************************************************************)
(* StartOperation.  A call that finds an entry returns "operation already  *)
(* in progress" and changes nothing.                                       *)
(***************************************************************************)
StartOperation(o) ==
    /\ pc[o] = "new"
    /\ Free(ServerOf[o])
    /\ operations' = [operations EXCEPT ![ServerOf[o]] = o]
    /\ pc' = [pc EXCEPT ![o] = "running"]
    /\ UNCHANGED <<ctx, outcome, record, cancelled>>

(***************************************************************************)
(* The operation itself, seen from the executor: it stores its copy of the *)
(* status any number of times, then with a final state, and returns.  A    *)
(* resize stores COMPLETED before its last steps and may still fail.       *)
(***************************************************************************)
\* updateStatus: an error of the store or of the context is only logged.
UpdateStatus(o, state) ==
    \/ /\ ctx[o] = "live"
       /\ record' = [record EXCEPT ![ServerOf[o]] = [op |-> o, state |-> state]]
    \/ UNCHANGED record

Report(o) ==
    /\ pc[o] = "running"
    /\ UpdateStatus(o, outcome[o])
    /\ UNCHANGED <<operations, pc, ctx, outcome, cancelled>>

Conclude(o) ==
    /\ pc[o] = "running"
    /\ \E state \in {"COMPLETED", "FAILED"} :
           /\ outcome[o] \in {"IN_PROGRESS", "COMPLETED"}
           /\ state # outcome[o]
           /\ outcome' = [outcome EXCEPT ![o] = state]
           /\ UpdateStatus(o, state)
    /\ UNCHANGED <<operations, pc, ctx, cancelled>>

Return(o) ==
    /\ pc[o] = "running"
    /\ outcome[o] # "IN_PROGRESS"
    /\ pc' = [pc EXCEPT ![o] = "returned"]
    /\ UNCHANGED <<operations, ctx, outcome, record, cancelled>>

(***************************************************************************)
(* The goroutine's deferred function deletes whatever entry the server has *)
(* and cancels its own context.                                            *)
(***************************************************************************)
Cleanup(o) ==
    /\ pc[o] = "returned"
    /\ operations' = Unregister(ServerOf[o])
    /\ ctx' = [ctx EXCEPT ![o] = "cancelled"]
    /\ pc' = [pc EXCEPT ![o] = "gone"]
    /\ UNCHANGED <<outcome, record, cancelled>>

\* context.WithTimeout: the operation has used up operationTimeout.
Expire(o) ==
    /\ pc[o] = "running"
    /\ ctx[o] = "live"
    /\ ctx' = [ctx EXCEPT ![o] = "expired"]
    /\ UNCHANGED <<operations, pc, outcome, record, cancelled>>

CancelOperation(s) ==
    /\ CancelExposed
    /\ ~Free(s)
    /\ ctx' = CancelSignal(s)
    /\ operations' = Unregister(s)
    /\ cancelled' = cancelled \union {operations[s]}
    /\ UNCHANGED <<pc, outcome, record>>

\* The controller process dies: map and goroutines are lost, the store stays.
Restart ==
    /\ \E o \in Op : Active(o)
    /\ operations' = [s \in Server |-> NoOp]
    /\ pc' = [o \in Op |-> IF Active(o) THEN "gone" ELSE pc[o]]
    /\ cancelled' = {}
    /\ UNCHANGED <<ctx, outcome, record>>

Next ==
    \/ \E o \in Op :
           \/ StartOperation(o)
           \/ Report(o)
           \/ Conclude(o)
           \/ Return(o)
           \/ Cleanup(o)
           \/ Expire(o)
    \/ \E s \in Server : CancelOperation(s)
    \/ Restart

Spec == Init /\ [][Next]_vars

(***************************************************************************)
(* The Go scheduler runs every goroutine, and an operation ends: it is     *)
(* bounded by its retries and by its context.  A call to Report forever is *)
(* not fair, so Conclude and Return carry the fairness.                    *)
(***************************************************************************)
Fairness ==
    \A o \in Op : WF_vars(Conclude(o)) /\ WF_vars(Return(o)) /\ WF_vars(Cleanup(o))

FairSpec == Spec /\ Fairness

-----------------------------------------------------------------------------
(***************************************************************************)
(* The inductive invariant: types, an entry of the map is an active call   *)
(* for that server, and on a server without CancelOperation every active   *)
(* call is the registered one.                                             *)
(***************************************************************************)
EntryIsActive ==
    \A s \in Server :
        ~Free(s) => ServerOf[operations[s]] = s /\ Active(operations[s])

ActiveIsRegistered ==
    \A o \in Op :
        Active(o) /\ ~Interfered(ServerOf[o]) => operations[ServerOf[o]] = o

CancelledWasExposed == cancelled # {} => CancelExposed

\* A cancelled operation has a context that nothing can be stored with.
CancelledIsSignalled == \A o \in cancelled : ctx[o] = "cancelled"

(***************************************************************************)
(* The contract: a call is running while it has a goroutine.               *)
(***************************************************************************)
Phase(o) ==
    IF pc[o] = "new" THEN "new" ELSE IF Active(o) THEN "running" ELSE "over"

Serial == INSTANCE SerialOperations WITH phase <- [o \in Op |-> Phase(o)]

\* What is stored for an operation is what its goroutine has, or came before it.
RecordIsBehind ==
    \A s \in Server :
        LET o == record[s].op IN
        IF o = NoOp THEN record[s] = NoRecord
        ELSE /\ ServerOf[o] = s /\ pc[o] # "new"
             /\ record[s].state \in States
             /\ Serial!MayFollow(record[s].state, outcome[o])

IInv ==
    /\ TypeOK /\ EntryIsActive /\ ActiveIsRegistered
    /\ CancelledWasExposed /\ CancelledIsSignalled /\ RecordIsBehind

(***************************************************************************)
(* Two operations of one server never have goroutines at the same time.    *)
(* It is what the "already in progress" answer of StartOperation is for.   *)
(***************************************************************************)
AtMostOneActive ==
    \A o1, o2 \in Op :
        Active(o1) /\ Active(o2) /\ ServerOf[o1] = ServerOf[o2] => o1 = o2

(***************************************************************************)
(* Operations of one server overlap only after a CancelOperation for that  *)
(* server: CancelOperation frees the entry while the goroutine still runs, *)
(* and the deferred delete of that goroutine then frees a successor's.     *)
(***************************************************************************)
OverlapOnlyAfterCancel ==
    \A o1, o2 \in Op :
        /\ Active(o1) /\ Active(o2)
        /\ ServerOf[o1] = ServerOf[o2]
        /\ ~Interfered(ServerOf[o1])
        => o1 = o2

(***************************************************************************)
(* The persisted status passes to another operation only when that         *)
(* operation is the one registered for the server, or the server has been  *)
(* interfered with by CancelOperation: the goroutine of an earlier         *)
(* operation never takes the status back.                                  *)
(***************************************************************************)
TakeoverByRegistered ==
    \A s \in Server :
        record'[s].op # record[s].op
            => operations[s] = record'[s].op \/ Interfered(s)

RecordTakeover == [][TakeoverByRegistered]_vars

(***************************************************************************)
(* An operation that CancelOperation has cancelled no longer changes the   *)
(* persisted status, although its goroutine may run on for a long time.    *)
(***************************************************************************)
CancelledIsMute ==
    [][\A s \in Server :
           record'[s] # record[s] => record'[s].op \notin cancelled]_vars

(***************************************************************************)
(* Every accepted operation gives the server free again: the map entry     *)
(* goes away, whether the operation succeeds, fails or times out.          *)
(***************************************************************************)
ServerIsFreed ==
    \A o \in Op : (operations[ServerOf[o]] = o) ~> (operations[ServerOf[o]] # o)

(***************************************************************************)
(* The goroutine executor implements SerialOperations: one operation of a  *)
(* server at a time, whose stored states are never taken back.             *)
(***************************************************************************)
ImplementsSerial == Serial!Spec
=============================================================================
