-------------------------- MODULE SerialOperations --------------------------
(***************************************************************************)
(* What an OperationExecutor promises (internal/services/executor.go): an  *)
(* infrastructure operation on a server is accepted only while no other    *)
(* operation of that server is running, runs once, and is over for good    *)
(* when it is over.  While it runs, and only then, it stores its state in  *)
(* the server's provisioning record; a state is never taken back.          *)
(* Both executors, the goroutine one and the Cloud Tasks one, are shown to *)
(* implement this module, and so is the operation seen from inside.        *)
(***************************************************************************)

CONSTANTS
    Server,     \* server IDs
    Op,         \* calls of StartOperation
    ServerOf,   \* the server each call is about
    NoOp        \* nobody has stored a state

VARIABLES
    phase,      \* how far each call has got: "new", "running" or "over"
    record      \* whose state is stored for each server, and which

vars == <<phase, record>>

States == {"IN_PROGRESS", "COMPLETED", "FAILED"}
NoRecord == [op |-> NoOp, state |-> "NONE"]

Init ==
    /\ phase = [o \in Op |-> "new"]
    /\ record = [s \in Server |-> NoRecord]

\* The operations of server s that run now.
Running(s) == {o \in Op : ServerOf[o] = s /\ phase[o] = "running"}

Stored(o, state) == [record EXCEPT ![ServerOf[o]] = [op |-> o, state |-> state]]

\* Nothing comes after FAILED.  A resize is COMPLETED before its machine has
\* been started, and may still fail.
MayFollow(old, new) ==
    new = old \/ old = "IN_PROGRESS" \/ (old = "COMPLETED" /\ new = "FAILED")

\* The record may say so at once, or with the first state stored.
Accept(o) ==
    /\ phase[o] = "new"
    /\ Running(ServerOf[o]) = {}
    /\ phase' = [phase EXCEPT ![o] = "running"]
    /\ record' \in {record, Stored(o, "IN_PROGRESS")}

\* The state that ends an operation may be stored as it ends.
Store(o, state) ==
    /\ phase[o] = "running"
    /\ record[ServerOf[o]].op = o => MayFollow(record[ServerOf[o]].state, state)
    /\ record' = Stored(o, state)
    /\ phase' \in {phase, [phase EXCEPT ![o] = "over"]}

\* One or more operations end: a restart of the controller ends many at once.
Finish(O) ==
    /\ \A o \in O : phase[o] = "running"
    /\ phase' = [o \in Op |-> IF o \in O THEN "over" ELSE phase[o]]
    /\ UNCHANGED record

Next ==
    \/ \E o \in Op : Accept(o) \/ \E state \in States : Store(o, state)
    \/ \E O \in SUBSET Op : Finish(O)

Spec == Init /\ [][Next]_vars

-----------------------------------------------------------------------------
(***************************************************************************)
(* At most one operation of a server runs, and a server's record is of an  *)
(* operation on that server that has been accepted.                        *)
(***************************************************************************)
TypeOK ==
    /\ phase \in [Op -> {"new", "running", "over"}]
    /\ record \in [Server -> [op : Op \union {NoOp}, state : States \union {"NONE"}]]

OneRuns ==
    \A o, p \in Op :
        phase[o] = "running" /\ phase[p] = "running" /\ ServerOf[o] = ServerOf[p] => o = p

RecordIsOfAccepted ==
    \A s \in Server :
        LET o == record[s].op IN
        IF o = NoOp THEN record[s] = NoRecord
        ELSE ServerOf[o] = s /\ phase[o] # "new" /\ record[s].state \in States

Inv == TypeOK /\ OneRuns /\ RecordIsOfAccepted

(***************************************************************************)
(* What a caller may build on: an operation that is over never runs again, *)
(* the state it has left in the record stays until a later operation is    *)
(* accepted, and the record never returns to an earlier operation.         *)
(***************************************************************************)
OverIsFinal ==
    [][\A o \in Op : phase[o] = "over" =>
           /\ phase'[o] = "over"
           /\ \A s \in Server : record'[s].op = o => record'[s] = record[s]]_vars
=============================================================================
