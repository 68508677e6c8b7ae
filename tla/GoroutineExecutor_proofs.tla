----------------------- MODULE GoroutineExecutor_proofs -----------------------
(***************************************************************************)
(* Proofs about the goroutine executor, for any servers and any calls.     *)
(***************************************************************************)
EXTENDS GoroutineExecutor, TLAPS

\* Where a write of updateStatus leaves the record, if it gets there.
LEMMA UpdateStatusEffect ==
    ASSUME TypeOK, NEW o \in Op, NEW state \in States, UpdateStatus(o, state)
    PROVE  /\ record' \in [Server -> Records]
           /\ \A s \in Server :
                  \/ record'[s] = record[s]
                  \/ s = ServerOf[o] /\ record'[s] = [op |-> o, state |-> state]
BY ServerOfType DEF UpdateStatus, TypeOK, Records

\* The goroutine's own state only moves on.
LEMMA ConcludeEffect ==
    ASSUME TypeOK, NEW o \in Op, Conclude(o)
    PROVE  /\ outcome' \in [Op -> States]
           /\ \A p \in Op \ {o} : outcome'[p] = outcome[p]
           /\ outcome'[o] \in States /\ UpdateStatus(o, outcome'[o])
           /\ \A state \in States : Serial!MayFollow(state, outcome[o])
                                       => Serial!MayFollow(state, outcome'[o])
BY DEF Conclude, TypeOK, States, Serial!MayFollow

(***************************************************************************)
(* What is stored stays behind what the goroutine knows, whoever stores it *)
(* (provisioning.go:609-613).                                              *)
(***************************************************************************)
LEMMA RecordStaysBehind ==
    ASSUME TypeOK, RecordIsBehind, [Next]_vars
    PROVE  RecordIsBehind'
<1> USE ServerOfType, NoOpIsNoCall
<1> DEFINE Behind(s) ==
        LET o == record[s].op IN
        IF o = NoOp THEN record[s] = NoRecord
        ELSE /\ ServerOf[o] = s /\ pc[o] # "new"
             /\ record[s].state \in States
             /\ Serial!MayFollow(record[s].state, outcome[o])
<1> SUFFICES ASSUME NEW s \in Server PROVE Behind(s)'
  BY DEF RecordIsBehind
<1>1. Behind(s) /\ record[s].op \in Op \union {NoOp}
  BY DEF RecordIsBehind, TypeOK, Records
<1>2. ASSUME record'[s] = record[s], outcome' = outcome,
             \A p \in Op : pc[p] # "new" => pc'[p] # "new"
      PROVE  Behind(s)'
  BY <1>1, <1>2 DEF Serial!MayFollow, NoRecord
<1>3. ASSUME NEW o \in Op, StartOperation(o) \/ Return(o) \/ Cleanup(o) \/ Expire(o)
      PROVE  Behind(s)'
  <2>1. /\ record' = record /\ outcome' = outcome
        /\ \A p \in Op : pc[p] # "new" => pc'[p] # "new"
    BY <1>3 DEF StartOperation, Return, Cleanup, Expire, TypeOK
  <2>2. QED BY <2>1, <1>2
<1>4. ASSUME NEW o \in Op, Report(o) PROVE Behind(s)'
  <2>1. /\ outcome[o] \in States /\ UpdateStatus(o, outcome[o])
        /\ pc[o] = "running" /\ pc' = pc /\ outcome' = outcome
    BY <1>4 DEF Report, TypeOK
  <2>2. CASE record'[s] = record[s]
    BY <2>1, <2>2, <1>2
  <2>3. CASE s = ServerOf[o] /\ record'[s] = [op |-> o, state |-> outcome[o]]
    BY <2>1, <2>3 DEF Serial!MayFollow
  <2>4. QED BY <2>1, <2>2, <2>3, UpdateStatusEffect
<1>5. ASSUME NEW o \in Op, Conclude(o) PROVE Behind(s)'
  <2>1. pc[o] = "running" /\ pc' = pc
    BY <1>5 DEF Conclude
  <2>2. CASE record'[s] = record[s]
    BY <1>1, <1>5, <2>1, <2>2, ConcludeEffect DEF NoRecord
  <2>3. CASE s = ServerOf[o] /\ record'[s] = [op |-> o, state |-> outcome'[o]]
    <3>1. outcome'[o] \in States
      BY <1>5, ConcludeEffect
    <3>2. QED BY <2>1, <2>3, <3>1 DEF Serial!MayFollow
  <2>4. QED BY <1>5, <2>2, <2>3, ConcludeEffect, UpdateStatusEffect
<1>6. ASSUME NEW t \in Server, CancelOperation(t) PROVE Behind(s)'
  BY <1>2, <1>6 DEF CancelOperation
<1>7. CASE Restart
  <2>1. /\ record' = record /\ outcome' = outcome
        /\ \A p \in Op : pc[p] # "new" => pc'[p] # "new"
    BY <1>7 DEF Restart, TypeOK
  <2>2. QED BY <2>1, <1>2
<1>8. CASE UNCHANGED vars
  BY <1>2, <1>8 DEF vars
<1>9. QED
  BY <1>3, <1>4, <1>5, <1>6, <1>7, <1>8 DEF Next

(***************************************************************************)
(* The inductive invariant holds in every reachable state: the executor's  *)
(* variables keep their types, a map entry always belongs to an active     *)
(* goroutine of its server, without a cancellation every active goroutine  *)
(* is the one the map knows (executor_goroutine.go:26-91), and the record  *)
(* is behind the goroutine it is of (provisioning.go:609-613).             *)
(***************************************************************************)
THEOREM InductiveInvariant == Spec => []IInv
<1> USE ServerOfType, NoOpIsNoCall, CancelExposedType
<1>1. Init => IInv
  BY DEF Init, IInv, TypeOK, EntryIsActive, ActiveIsRegistered,
         CancelledWasExposed, CancelledIsSignalled, RecordIsBehind,
         Free, Active, Records, NoRecord, States
<1>2. IInv /\ [Next]_vars => RecordIsBehind'
  BY RecordStaysBehind DEF IInv
<1>3. IInv /\ [Next]_vars => IInv'
  <2> SUFFICES ASSUME IInv, RecordIsBehind', [Next]_vars PROVE IInv'
    BY <1>2
  <2> USE DEF IInv, TypeOK, EntryIsActive, ActiveIsRegistered,
              CancelledWasExposed, CancelledIsSignalled, Free, Active, Interfered
  <2>1. ASSUME NEW o \in Op, StartOperation(o) PROVE IInv'
    BY <2>1 DEF StartOperation
  <2>2. ASSUME NEW o \in Op, Report(o) PROVE IInv'
    <3>1. record' \in [Server -> Records]
      BY <2>2 DEF Report, UpdateStatus, Records, States
    <3>2. QED BY <2>2, <3>1 DEF Report
  <2>3. ASSUME NEW o \in Op, Conclude(o) PROVE IInv'
    <3>1. record' \in [Server -> Records] /\ outcome' \in [Op -> States]
      BY <2>3 DEF Conclude, UpdateStatus, Records, States
    <3>2. QED BY <2>3, <3>1 DEF Conclude
  <2>4. ASSUME NEW o \in Op, Return(o) PROVE IInv'
    BY <2>4 DEF Return
  <2>5. ASSUME NEW o \in Op, Cleanup(o) PROVE IInv'
    <3> USE <2>5 DEF Cleanup, Unregister
    <3>1. TypeOK'
      OBVIOUS
    <3>2. EntryIsActive'
      OBVIOUS
    <3>3. ActiveIsRegistered'
      OBVIOUS
    <3>4. QED BY <3>1, <3>2, <3>3
  <2>6. ASSUME NEW o \in Op, Expire(o) PROVE IInv'
    BY <2>6 DEF Expire
  <2>7. ASSUME NEW s \in Server, CancelOperation(s) PROVE IInv'
    <3> USE <2>7 DEF CancelOperation, Unregister, CancelSignal
    <3>1. TypeOK'
      OBVIOUS
    <3>2. EntryIsActive'
      OBVIOUS
    <3>3. ActiveIsRegistered'
      OBVIOUS
    <3>4. CancelledIsSignalled'
      OBVIOUS
    <3>5. QED BY <3>1, <3>2, <3>3, <3>4
  <2>8. CASE Restart
    <3> USE <2>8 DEF Restart
    <3>1. TypeOK'
      OBVIOUS
    <3>2. EntryIsActive' /\ ActiveIsRegistered' /\ CancelledWasExposed'
      OBVIOUS
    <3>3. QED BY <3>1, <3>2
  <2>9. CASE UNCHANGED vars
    BY <2>9 DEF vars
  <2>10. QED
    BY <2>1, <2>2, <2>3, <2>4, <2>5, <2>6, <2>7, <2>8, <2>9 DEF Next
<1>4. QED
  BY <1>1, <1>3, PTL DEF Spec

(***************************************************************************)
(* Two operations of one server overlap only after a cancellation for that *)
(* server (executor_goroutine.go:37-40, 46-51, 78-91).                     *)
(***************************************************************************)
THEOREM OverlapTheorem == Spec => []OverlapOnlyAfterCancel
<1>1. IInv => OverlapOnlyAfterCancel
  BY DEF IInv, ActiveIsRegistered, OverlapOnlyAfterCancel
<1>2. QED
  BY <1>1, InductiveInvariant, PTL

(***************************************************************************)
(* Without a caller of CancelOperation two operations of one server never  *)
(* overlap.                                                                *)
(***************************************************************************)
LEMMA InvariantExcludes == IInv /\ ~CancelExposed => AtMostOneActive
  BY DEF IInv, ActiveIsRegistered, CancelledWasExposed, Interfered, AtMostOneActive

THEOREM Exclusion == ~CancelExposed => (Spec => []AtMostOneActive)
<1> SUFFICES ASSUME ~CancelExposed PROVE Spec => []AtMostOneActive
  OBVIOUS
<1>1. IInv => AtMostOneActive
  BY InvariantExcludes
<1>2. QED
  BY <1>1, InductiveInvariant, PTL

(***************************************************************************)
(* The persisted status passes only to the registered operation, unless    *)
(* CancelOperation has been used on the server (provisioning.go:609-613    *)
(* under executor_goroutine.go:37-44).                                     *)
(***************************************************************************)
THEOREM Takeover == Spec => RecordTakeover
<1>1. IInv /\ [Next]_vars => [TakeoverByRegistered]_vars
  <2> SUFFICES ASSUME IInv, Next, NEW s \in Server,
                      record'[s].op # record[s].op, ~Interfered(s)
               PROVE  operations[s] = record'[s].op
    BY DEF TakeoverByRegistered
  <2>1. PICK o \in Op : Report(o) \/ Conclude(o)
    BY DEF Next, StartOperation, Return, Cleanup, Expire, CancelOperation, Restart
  <2>2. /\ Active(o)
        /\ \E state : record' = [record EXCEPT ![ServerOf[o]] = [op |-> o, state |-> state]]
    BY <2>1 DEF Report, Conclude, UpdateStatus, Active
  <2>3. s = ServerOf[o] /\ record'[s].op = o
    BY <2>2, ServerOfType DEF IInv, TypeOK
  <2>4. QED
    BY <2>2, <2>3 DEF IInv, ActiveIsRegistered
<1>2. QED
  BY <1>1, InductiveInvariant, PTL DEF Spec, RecordTakeover

(***************************************************************************)
(* A cancelled operation stores nothing any more: its context is over      *)
(* (provisioning.go:609-613, executor_goroutine.go:82-91).                 *)
(***************************************************************************)
THEOREM CancelledStoresNothing == Spec => CancelledIsMute
<1>1. IInv /\ [Next]_vars =>
          [\A s \in Server : record'[s] # record[s] => record'[s].op \notin cancelled]_vars
  <2> SUFFICES ASSUME IInv, Next, NEW s \in Server, record'[s] # record[s]
               PROVE  record'[s].op \notin cancelled
    BY DEF vars
  <2>1. PICK o \in Op : Report(o) \/ Conclude(o)
    BY DEF Next, StartOperation, Return, Cleanup, Expire, CancelOperation, Restart
  <2>2. /\ ctx[o] = "live"
        /\ \E state : record' = [record EXCEPT ![ServerOf[o]] = [op |-> o, state |-> state]]
    BY <2>1 DEF Report, Conclude, UpdateStatus
  <2>3. record'[s].op = o
    BY <2>2, ServerOfType DEF IInv, TypeOK
  <2>4. QED
    BY <2>2, <2>3 DEF IInv, CancelledIsSignalled
<1>2. QED
  BY <1>1, InductiveInvariant, PTL DEF Spec, CancelledIsMute

\* The goroutine's writes, as the contract sees them.
LEMMA WriteIsStore ==
    ASSUME IInv, NEW o \in Op, NEW state \in States, pc[o] = "running", pc' = pc,
           Serial!MayFollow(outcome[o], state),
           record' = [record EXCEPT ![ServerOf[o]] = [op |-> o, state |-> state]]
    PROVE  Serial!Store(o, state)
<1> USE ServerOfType, NoOpIsNoCall
<1>1. [p \in Op |-> Phase(p)]' = [p \in Op |-> Phase(p)]
  BY DEF Phase, Active
<1>2. [p \in Op |-> Phase(p)][o] = "running"
  BY DEF Phase, Active
<1>3. ASSUME record[ServerOf[o]].op = o
      PROVE  Serial!MayFollow(record[ServerOf[o]].state, state)
  <2>1. ServerOf[o] \in Server
    OBVIOUS
  <2>2. /\ record[ServerOf[o]].state \in States
        /\ Serial!MayFollow(record[ServerOf[o]].state, outcome[o])
    BY <1>3, <2>1 DEF IInv, RecordIsBehind
  <2>3. QED BY <2>2 DEF Serial!MayFollow, States
<1>4. record' = Serial!Stored(o, state)
  BY DEF Serial!Stored
<1>5. QED
  BY <1>1, <1>2, <1>3, <1>4 DEF Serial!Store

(***************************************************************************)
(* Without a caller of CancelOperation the goroutine executor implements   *)
(* SerialOperations: StartOperation accepts, a write of updateStatus       *)
(* stores, the deferred function and a restart finish                      *)
(* (executor_goroutine.go:26-91, provisioning.go:609-613).                 *)
(***************************************************************************)
THEOREM RefinesSerial == ~CancelExposed => (Spec => ImplementsSerial)
<1> SUFFICES ASSUME ~CancelExposed PROVE Spec => ImplementsSerial
  OBVIOUS
<1> USE ServerOfType, NoOpIsNoCall
<1> DEFINE phases == [o \in Op |-> Phase(o)]
<1>1. Init => Serial!Init
  BY DEF Init, Phase, Serial!Init, NoRecord, Serial!NoRecord
<1>2. IInv /\ [Next]_vars => [Serial!Next]_<<phases, record>>
  <2> SUFFICES ASSUME IInv, [Next]_vars
               PROVE  Serial!Next \/ UNCHANGED <<phases, record>>
    OBVIOUS
  <2>1. ASSUME NEW o \in Op, StartOperation(o) PROVE Serial!Accept(o)
    <3> USE <2>1 DEF StartOperation, Phase, Active, IInv, TypeOK
    <3>1. \A p \in Op : Active(p) /\ ServerOf[p] = ServerOf[o] => FALSE
      BY DEF Free, ActiveIsRegistered, CancelledWasExposed, Interfered
    <3>2. Serial!Running(ServerOf[o]) = {}
      BY <3>1 DEF Serial!Running
    <3>3. phases[o] = "new" /\ phases' = [phases EXCEPT ![o] = "running"]
      OBVIOUS
    <3>4. QED
      BY <3>2, <3>3 DEF Serial!Accept
  <2>2. ASSUME NEW o \in Op, Report(o) \/ Conclude(o)
        PROVE  Serial!Next \/ UNCHANGED <<phases, record>>
    <3>1. pc[o] = "running" /\ pc' = pc
      BY <2>2 DEF Report, Conclude
    <3>2. CASE record' = record
      BY <3>1, <3>2 DEF Phase, Active
    <3>3. ASSUME record' # record PROVE \E state \in States : Serial!Store(o, state)
      <4>1. PICK state \in States :
                /\ Serial!MayFollow(outcome[o], state)
                /\ record' = [record EXCEPT ![ServerOf[o]] = [op |-> o, state |-> state]]
        BY <2>2, <3>3
           DEF Report, Conclude, UpdateStatus, IInv, TypeOK, States, Serial!MayFollow
      <4>2. QED BY <3>1, <4>1, WriteIsStore
    <3>4. States = Serial!States
      BY DEF States, Serial!States
    <3>5. QED BY <3>2, <3>3, <3>4 DEF Serial!Next
  <2>3. ASSUME NEW o \in Op, Return(o) \/ Expire(o)
        PROVE  UNCHANGED <<phases, record>>
    BY <2>3 DEF Return, Expire, Phase, Active, IInv, TypeOK
  <2>4. ASSUME NEW o \in Op, Cleanup(o) PROVE Serial!Finish({o})
    BY <2>4 DEF Cleanup, Serial!Finish, Phase, Active, IInv, TypeOK
  <2>5. ASSUME NEW s \in Server, CancelOperation(s) PROVE FALSE
    BY <2>5 DEF CancelOperation
  <2>6. ASSUME Restart PROVE Serial!Finish({o \in Op : Active(o)})
    BY <2>6 DEF Restart, Serial!Finish, Phase, Active, IInv, TypeOK
  <2>7. CASE UNCHANGED vars
    BY <2>7 DEF vars, Phase, Active
  <2>8. CASE Next
    <3>1. ASSUME NEW o \in Op, StartOperation(o) PROVE Serial!Next
      BY <2>1, <3>1 DEF Serial!Next
    <3>2. ASSUME NEW o \in Op, Cleanup(o) PROVE Serial!Next
      BY <2>4, <3>2 DEF Serial!Next
    <3>3. ASSUME Restart PROVE Serial!Next
      <4>1. {o \in Op : Active(o)} \in SUBSET Op
        OBVIOUS
      <4>2. QED BY <2>6, <3>3, <4>1 DEF Serial!Next
    <3> HIDE DEF phases
    <3>4. QED
      BY <2>2, <2>3, <2>5, <2>8, <3>1, <3>2, <3>3 DEF Next
  <2>9. QED
    BY <2>7, <2>8
<1>3. QED
  BY <1>1, <1>2, InductiveInvariant, PTL DEF Spec, ImplementsSerial, Serial!Spec, Serial!vars

\* What is proved about the contract, for the operations of this executor.
Contract == INSTANCE SerialOperations_proofs WITH phase <- [o \in Op |-> Phase(o)]

\* The two instances of SerialOperations are the same specification.
LEMMA SameContract ==
    /\ Serial!Init => Contract!Init
    /\ [Serial!Next]_Serial!vars => [Contract!Next]_Contract!vars
BY DEF Serial!Init, Contract!Init, Serial!NoRecord, Contract!NoRecord,
       Serial!Next, Contract!Next, Serial!vars, Contract!vars,
       Serial!Accept, Contract!Accept, Serial!Store, Contract!Store,
       Serial!Finish, Contract!Finish, Serial!Running, Contract!Running,
       Serial!Stored, Contract!Stored, Serial!MayFollow, Contract!MayFollow,
       Serial!States, Contract!States

(***************************************************************************)
(* So whoever polls the status is told the truth: the state an operation   *)
(* has left when its goroutine is gone stays until a later operation       *)
(* stores its own (executor_goroutine.go:46-51, provisioning.go:609-613).  *)
(***************************************************************************)
THEOREM OverIsOver == ~CancelExposed => (Spec => Serial!OverIsFinal)
<1> SUFFICES ASSUME ~CancelExposed PROVE Spec => Serial!OverIsFinal
  OBVIOUS
<1>1. Contract!Spec => Contract!OverIsFinal
  BY ServerOfType, NoOpIsNoCall, Contract!OverStaysOver
<1>2. Spec => Serial!Spec
  BY RefinesSerial DEF ImplementsSerial
<1>3. Contract!OverIsFinal => Serial!OverIsFinal
  BY PTL DEF Contract!OverIsFinal, Serial!OverIsFinal, Contract!vars, Serial!vars
<1>4. QED
  BY <1>1, <1>2, <1>3, SameContract, PTL DEF Serial!Spec, Contract!Spec
=============================================================================
