----------------------- MODULE SerialOperations_proofs -----------------------
(***************************************************************************)
(* What follows from the contract of an OperationExecutor, for any servers *)
(* and any calls: whatever implements SerialOperations has these           *)
(* properties too.                                                         *)
(***************************************************************************)
EXTENDS SerialOperations, TLAPS

\* What a step does to the call and to the record it is about.
LEMMA AcceptEffect ==
    ASSUME ServerOf \in [Op -> Server], Inv, NEW o \in Op, Accept(o)
    PROVE  /\ phase' \in [Op -> {"new", "running", "over"}]
           /\ phase[o] = "new" /\ phase'[o] = "running"
           /\ \A p \in Op \ {o} : phase'[p] = phase[p]
           /\ \A p \in Op : ServerOf[p] = ServerOf[o] => phase[p] # "running"
           /\ record' = record \/ record' = Stored(o, "IN_PROGRESS")
BY DEF Accept, Running, Inv, TypeOK

LEMMA StoredEffect ==
    ASSUME ServerOf \in [Op -> Server], Inv, NEW o \in Op, NEW state \in States,
           record' = Stored(o, state)
    PROVE  /\ record' \in [Server -> [op : Op \union {NoOp}, state : States \union {"NONE"}]]
           /\ record'[ServerOf[o]] = [op |-> o, state |-> state]
           /\ \A s \in Server \ {ServerOf[o]} : record'[s] = record[s]
BY DEF Stored, Inv, TypeOK

LEMMA StoreEffect ==
    ASSUME ServerOf \in [Op -> Server], Inv, NEW o \in Op, NEW state \in States,
           Store(o, state)
    PROVE  /\ phase' \in [Op -> {"new", "running", "over"}]
           /\ phase[o] = "running" /\ phase'[o] \in {"running", "over"}
           /\ \A p \in Op \ {o} : phase'[p] = phase[p]
           /\ record' \in [Server -> [op : Op \union {NoOp}, state : States \union {"NONE"}]]
           /\ record'[ServerOf[o]] = [op |-> o, state |-> state]
           /\ \A s \in Server \ {ServerOf[o]} : record'[s] = record[s]
<1>1. record' = Stored(o, state)
  BY DEF Store
<1>2. QED
  BY <1>1, StoredEffect DEF Store, Inv, TypeOK

LEMMA FinishEffect ==
    ASSUME Inv, NEW O \in SUBSET Op, Finish(O)
    PROVE  /\ phase' \in [Op -> {"new", "running", "over"}]
           /\ \A p \in Op : phase'[p] = phase[p] \/ (phase[p] = "running" /\ phase'[p] = "over")
           /\ record' = record
BY DEF Finish, Inv, TypeOK

(***************************************************************************)
(* At most one operation of a server runs, and a server's record is of an  *)
(* operation on it that has been accepted: the two things every caller of  *)
(* executor.go:11-30 relies on.                                            *)
(***************************************************************************)
THEOREM InvariantOfContract ==
    ASSUME ServerOf \in [Op -> Server], NoOp \notin Op
    PROVE  Spec => []Inv
<1>1. Init => Inv
  BY DEF Init, Inv, TypeOK, OneRuns, RecordIsOfAccepted, NoRecord, States
<1>2. Inv /\ [Next]_vars => Inv'
  <2> SUFFICES ASSUME Inv, [Next]_vars PROVE Inv'
    OBVIOUS
  <2>1. ASSUME NEW o \in Op, Accept(o) PROVE Inv'
    <3>0. "IN_PROGRESS" \in States
      BY DEF States
    <3>1. TypeOK'
      <4>1. record \in [Server -> [op : Op \union {NoOp}, state : States \union {"NONE"}]]
        BY DEF Inv, TypeOK
      <4>2. QED BY <2>1, <3>0, <4>1, AcceptEffect, StoredEffect DEF TypeOK
    <3>2. OneRuns'
      BY <2>1, AcceptEffect DEF Inv, OneRuns
    <3>3. RecordIsOfAccepted'
      <4> SUFFICES ASSUME NEW s \in Server
                   PROVE  IF record'[s].op = NoOp THEN record'[s] = NoRecord
                          ELSE /\ ServerOf[record'[s].op] = s
                               /\ phase'[record'[s].op] # "new" /\ record'[s].state \in States
        BY DEF RecordIsOfAccepted
      <4>1. CASE record'[s] = record[s]
        <5>1. record[s].op \in Op \union {NoOp}
          BY DEF Inv, TypeOK
        <5>2. \A p \in Op : phase[p] # "new" => phase'[p] # "new"
          BY <2>1, AcceptEffect
        <5>3. QED BY <4>1, <5>1, <5>2 DEF Inv, RecordIsOfAccepted
      <4>2. CASE s = ServerOf[o] /\ record'[s] = [op |-> o, state |-> "IN_PROGRESS"]
        BY <2>1, <4>2, AcceptEffect DEF States
      <4>3. QED
        BY <2>1, <3>0, <4>1, <4>2, AcceptEffect, StoredEffect
    <3>4. QED BY <3>1, <3>2, <3>3 DEF Inv
  <2>2. ASSUME NEW o \in Op, NEW state \in States, Store(o, state) PROVE Inv'
    <3>1. TypeOK'
      <4>1. record' \in [Server -> [op : Op \union {NoOp}, state : States \union {"NONE"}]]
        BY <2>2, StoreEffect
      <4>2. phase' \in [Op -> {"new", "running", "over"}]
        BY <2>2, StoreEffect
      <4>3. QED BY <4>1, <4>2 DEF TypeOK
    <3>2. OneRuns'
      <4>1. \A p \in Op : phase'[p] = "running" => phase[p] = "running"
        <5>1. phase[o] = "running" /\ \A p \in Op \ {o} : phase'[p] = phase[p]
          BY <2>2, StoreEffect
        <5>2. QED BY <5>1
      <4>2. QED BY <4>1 DEF Inv, OneRuns
    <3>3. RecordIsOfAccepted'
      <4> SUFFICES ASSUME NEW s \in Server
                   PROVE  IF record'[s].op = NoOp THEN record'[s] = NoRecord
                          ELSE /\ ServerOf[record'[s].op] = s
                               /\ phase'[record'[s].op] # "new" /\ record'[s].state \in States
        BY DEF RecordIsOfAccepted
      <4>1. CASE s = ServerOf[o]
        <5>1. o # NoOp
          OBVIOUS
        <5>2. record'[s] = [op |-> o, state |-> state] /\ phase'[o] # "new"
          BY <2>2, <4>1, StoreEffect
        <5>3. QED BY <4>1, <5>1, <5>2
      <4>2. CASE s # ServerOf[o]
        <5>1. record'[s] = record[s]
          <6>1. \A t \in Server \ {ServerOf[o]} : record'[t] = record[t]
            BY <2>2, StoreEffect
          <6>2. QED BY <4>2, <6>1
        <5>2. \A p \in Op : phase[p] # "new" => phase'[p] # "new"
          <6>1. phase'[o] # "new" /\ \A p \in Op \ {o} : phase'[p] = phase[p]
            BY <2>2, StoreEffect
          <6>2. QED BY <6>1
        <5>3. record[s].op \in Op \union {NoOp}
          BY DEF Inv, TypeOK
        <5>4. QED BY <5>1, <5>2, <5>3 DEF Inv, RecordIsOfAccepted
      <4>3. QED BY <4>1, <4>2
    <3>4. QED BY <3>1, <3>2, <3>3 DEF Inv
  <2>3. ASSUME NEW O \in SUBSET Op, Finish(O) PROVE Inv'
    <3>1. TypeOK'
      BY <2>3, FinishEffect DEF Inv, TypeOK
    <3>2. OneRuns'
      BY <2>3, FinishEffect DEF Inv, OneRuns
    <3>3. RecordIsOfAccepted'
      BY <2>3, FinishEffect DEF Inv, TypeOK, RecordIsOfAccepted
    <3>4. QED BY <3>1, <3>2, <3>3 DEF Inv
  <2>4. CASE UNCHANGED vars
    BY <2>4 DEF vars, Inv, TypeOK, OneRuns, RecordIsOfAccepted
  <2>5. QED
    BY <2>1, <2>2, <2>3, <2>4 DEF Next
<1>3. QED
  BY <1>1, <1>2, PTL DEF Spec

(***************************************************************************)
(* An operation that is over is over for good, and the state it has left   *)
(* stays until a later one is accepted: a client that polls the status     *)
(* (provisioning status page) and has seen a result has seen the last one. *)
(***************************************************************************)
THEOREM OverStaysOver ==
    ASSUME ServerOf \in [Op -> Server], NoOp \notin Op
    PROVE  Spec => OverIsFinal
<1>1. Inv /\ [Next]_vars =>
          [\A o \in Op : phase[o] = "over" =>
               /\ phase'[o] = "over"
               /\ \A s \in Server : record'[s].op = o => record'[s] = record[s]]_vars
  <2> SUFFICES ASSUME Inv, Next, NEW o \in Op, phase[o] = "over"
               PROVE  /\ phase'[o] = "over"
                      /\ \A s \in Server : record'[s].op = o => record'[s] = record[s]
    OBVIOUS
  <2>1. ASSUME NEW p \in Op, Accept(p)
        PROVE  /\ phase'[o] = "over"
               /\ \A s \in Server : record'[s].op = o => record'[s] = record[s]
    <3>1. o # p /\ phase'[o] = "over"
      BY <2>1, AcceptEffect
    <3>2. "IN_PROGRESS" \in States
      BY DEF States
    <3>3. QED
      <4>1. CASE record' = record
        BY <3>1, <4>1
      <4>2. CASE record' = Stored(p, "IN_PROGRESS")
        <5>1. /\ record'[ServerOf[p]] = [op |-> p, state |-> "IN_PROGRESS"]
              /\ \A s \in Server \ {ServerOf[p]} : record'[s] = record[s]
          BY <3>2, <4>2, StoredEffect
        <5>2. QED BY <3>1, <5>1
      <4>3. QED BY <2>1, <4>1, <4>2, AcceptEffect
  <2>2. ASSUME NEW p \in Op, NEW state \in States, Store(p, state)
        PROVE  /\ phase'[o] = "over"
               /\ \A s \in Server : record'[s].op = o => record'[s] = record[s]
    <3>1. o # p /\ phase'[o] = "over"
      BY <2>2, StoreEffect
    <3>2. /\ record'[ServerOf[p]] = [op |-> p, state |-> state]
          /\ \A s \in Server \ {ServerOf[p]} : record'[s] = record[s]
      BY <2>2, StoreEffect
    <3>3. QED BY <3>1, <3>2
  <2>3. ASSUME NEW O \in SUBSET Op, Finish(O)
        PROVE  phase'[o] = "over" /\ record' = record
    BY <2>3, FinishEffect
  <2>4. QED
    BY <2>1, <2>2, <2>3 DEF Next
<1>2. QED
  BY <1>1, InvariantOfContract, PTL DEF Spec, OverIsFinal
=============================================================================
