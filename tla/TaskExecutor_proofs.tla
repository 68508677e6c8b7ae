------------------------- MODULE TaskExecutor_proofs -------------------------
(***************************************************************************)
(* Proofs about the Cloud Tasks executor, for any servers, requests,       *)
(* handler instances and retry limit.                                      *)
(***************************************************************************)
EXTENDS TaskExecutor, TLAPS

LEMMA IInvInit == Init => IInv
  BY ServerOfType, MaxAttemptsType
     DEF Init, IInv, TypeOK, NothingIsInvented, CallsHaveIDs, RecordsAreAsked, HandlersHaveTasks,
         RunsWhatWasAsked, DeletedOnlyOnRequest, Running, CallsInOrder, IDsAreFresh, TasksInOrder,
         WorkIsOnOpenRecord, Idle, NoRecord, Records, States, Kinds, CallStates,
         WorkerStates, Handlers, Starting, Open, InProgress, Busy, Engaged

-----------------------------------------------------------------------------
(***************************************************************************)
(* What holds in any system: concurrent users, duplicate deliveries,       *)
(* coinciding IDs and a store that fails.                                  *)
(***************************************************************************)
LEMMA GotoMoves ==
    ASSUME worker \in [Worker -> Handlers], NEW w \in Worker, NEW pc, Goto(w, pc)
    PROVE  /\ worker'[w].pc = pc
           /\ worker'[w].op = worker[w].op /\ worker'[w].copy = worker[w].copy
           /\ \A v \in Worker : v # w => worker'[v] = worker[v]
  BY DEF Goto, Handlers

LEMMA GotoType ==
    ASSUME TypeOK, NEW w \in Worker, NEW pc \in WorkerStates, Goto(w, pc)
    PROVE  worker' \in [Worker -> Handlers]
  BY DEF Goto, TypeOK, Handlers

LEMMA IdleType == Idle \in Handlers
  BY DEF Idle, NoRecord, Kinds, Handlers, Records, WorkerStates

\* Save stores a record with the ID it has generated.
LEMMA SaveEffect ==
    ASSUME TypeOK, NEW o \in Op, Save(o)
    PROVE  \E id \in Op :
               /\ id \in NewIDs(o)
               /\ opID' = [opID EXCEPT ![o] = id]
               /\ record' = [record EXCEPT ![ServerOf[o]] =
                                 [id |-> id, kind |-> KindOf[o], state |-> "IN_PROGRESS"]]
<1>1. PICK id \in NewIDs(o) :
          /\ opID' = [opID EXCEPT ![o] = id]
          /\ record' = [record EXCEPT ![ServerOf[o]] =
                            [id |-> id, kind |-> KindOf[o], state |-> "IN_PROGRESS"]]
  BY DEF Save
<1>2. id \in Op
  BY ServerOfType DEF NewIDs, Records, TypeOK
<1>3. QED BY <1>1, <1>2

\* A run writes its own copy, in some state, or nothing.
LEMMA RunEffect ==
    ASSUME TypeOK, HandlersHaveTasks, NEW w \in Worker, Report(w) \/ Complete(w) \/ Fail(w)
    PROVE  /\ Running(w) /\ worker[w].op \in Op /\ Target(w) \in Server
           /\ \A s \in Server \ {Target(w)} : record'[s] = record[s]
           /\ \/ record'[Target(w)] = record[Target(w)]
              \/ /\ record'[Target(w)] \in Records
                 /\ record'[Target(w)].id = worker[w].copy.id
                 /\ record'[Target(w)].kind = worker[w].copy.kind
           /\ record' \in [Server -> Records]
           /\ UNCHANGED <<call, opID, task, attempts, config>>
<1> USE ServerOfType
<1>1. Running(w) /\ worker[w].op \in Op /\ Target(w) \in Server
  BY DEF Report, Complete, Fail, HandlersHaveTasks, Busy, Running, Target
<1>2. worker[w].copy \in Records
  BY DEF TypeOK, Handlers
<1>3. PICK status \in Records :
          /\ status.id = worker[w].copy.id /\ status.kind = worker[w].copy.kind
          /\ record' = [record EXCEPT ![Target(w)] = status] \/ record' = record
  BY <1>2 DEF Report, Complete, Fail, StoreResult, UpdateStatus, Records, States
<1>4. UNCHANGED <<call, opID, task, attempts, config>>
  BY DEF Report, Complete, Fail
<1>5. QED BY <1>1, <1>3, <1>4 DEF TypeOK

LEMMA TypeOKNext ==
    ASSUME TypeOK, HandlersHaveTasks, [Next]_vars PROVE TypeOK'
<1> USE ServerOfType, KindOfType, MaxAttemptsType
<1>1. ASSUME NEW o \in Op, Request(o) \/ Admit(o) \/ Refuse(o) \/ Enqueue(o) PROVE TypeOK'
  BY <1>1 DEF Request, Admit, Refuse, Enqueue, CallStates, TypeOK
<1>2. ASSUME NEW o \in Op, Save(o) PROVE TypeOK'
  <2>1. PICK id \in Op :
            /\ opID' = [opID EXCEPT ![o] = id]
            /\ record' = [record EXCEPT ![ServerOf[o]] =
                              [id |-> id, kind |-> KindOf[o], state |-> "IN_PROGRESS"]]
    BY <1>2, SaveEffect
  <2>2. [id |-> id, kind |-> KindOf[o], state |-> "IN_PROGRESS"] \in Records
    BY DEF Records, States
  <2>3. QED BY <1>2, <2>1, <2>2 DEF Save, CallStates, TypeOK
<1>3. ASSUME NEW w \in Worker, NEW o \in Op, Deliver(w, o) PROVE TypeOK'
  <2>1. [Idle EXCEPT !.pc = "delivered", !.op = o] \in Handlers
    BY IdleType DEF Handlers, WorkerStates
  <2>2. attempts[o] + 1 \in 0..MaxAttempts
    BY <1>3 DEF Deliver, TypeOK
  <2>3. attempts' \in [Op -> 0..MaxAttempts]
    BY <1>3, <2>2 DEF Deliver, TypeOK
  <2>4. worker' \in [Worker -> Handlers]
    BY <1>3, <2>1 DEF Deliver, TypeOK
  <2>5. QED BY <1>3, <2>3, <2>4 DEF Deliver, TypeOK
<1>4. ASSUME NEW w \in Worker, Check(w) \/ Load(w) \/ DeleteConfig(w) PROVE TypeOK'
  <2>1. PICK pc \in WorkerStates : Goto(w, pc)
    BY <1>4 DEF Check, Load, DeleteConfig, WorkerStates
  <2>2. worker' \in [Worker -> Handlers]
    BY <2>1, GotoType
  <2>3. QED BY <1>4, <2>2 DEF Check, Load, DeleteConfig, TypeOK
<1>5. ASSUME NEW w \in Worker, Begin(w) PROVE TypeOK'
  <2>1. Target(w) \in Server
    BY <1>5 DEF Begin, HandlersHaveTasks, Busy, Target
  <2>2. [worker[w] EXCEPT !.pc = "running", !.copy = record[Target(w)]] \in Handlers
    BY <2>1 DEF TypeOK, Handlers, WorkerStates
  <2>3. CASE Goto(w, "nack")
    <3>1. worker' \in [Worker -> Handlers]
      BY <2>3, GotoType DEF WorkerStates
    <3>2. QED BY <1>5, <3>1 DEF Begin, TypeOK
  <2>4. CASE worker' = [worker EXCEPT ![w] =
                           [worker[w] EXCEPT !.pc = "running", !.copy = record[Target(w)]]]
    <3>1. worker' \in [Worker -> Handlers]
      BY <2>2, <2>4 DEF TypeOK
    <3>2. QED BY <1>5, <3>1 DEF Begin, TypeOK
  <2>5. QED BY <1>5, <2>3, <2>4 DEF Begin
<1>6. ASSUME NEW w \in Worker, Report(w) \/ Complete(w) \/ Fail(w) PROVE TypeOK'
  <2>1. worker' = worker \/ \E pc \in WorkerStates : Goto(w, pc)
    BY <1>6 DEF Report, Complete, Fail, AfterCompleted, WorkerStates
  <2>2. worker' \in [Worker -> Handlers]
    BY <2>1, GotoType DEF TypeOK
  <2>3. record' \in [Server -> Records] /\ UNCHANGED <<call, opID, task, attempts, config>>
    BY <1>6, RunEffect
  <2>4. QED BY <2>2, <2>3 DEF TypeOK
<1>7. ASSUME NEW w \in Worker, Acknowledge(w) \/ Reject(w) \/ Crash(w) PROVE TypeOK'
  <2>1. worker' \in [Worker -> Handlers]
    BY <1>7, IdleType DEF Acknowledge, Reject, Crash, TypeOK
  <2>2. task' \in [Op -> {"none", "queued", "leased", "gone"}]
    BY <1>7 DEF Acknowledge, Reject, Crash, AfterError, TypeOK
  <2>3. QED BY <1>7, <2>1, <2>2 DEF Acknowledge, Reject, Crash, TypeOK
<1>8. CASE UNCHANGED vars
  BY <1>8 DEF vars, TypeOK
<1>9. QED
  BY <1>1, <1>2, <1>3, <1>4, <1>5, <1>6, <1>7, <1>8 DEF Next, Calls, Handler

(***************************************************************************)
(* Every step, as the records, the IDs and the handlers see it.            *)
(***************************************************************************)
LEMMA IDsEffect ==
    ASSUME TypeOK, HandlersHaveTasks, [Next]_vars
    PROVE  \/ UNCHANGED <<opID, record>>
           \/ \E o \in Op : Save(o)
           \/ opID' = opID /\ \E w \in Worker : Report(w) \/ Complete(w) \/ Fail(w)
BY RunEffect
   DEF Next, Calls, Handler, Request, Admit, Refuse, Enqueue, Deliver, Check, Load, Begin,
       DeleteConfig, Acknowledge, Reject, Crash, vars

\* A handler's step, seen by a handler.
Taken(w) ==
    /\ worker[w].pc = "idle" /\ worker'[w].pc = "delivered"
    /\ worker'[w].op \in Op /\ task[worker'[w].op] # "none"

Turned(w) ==
    /\ Busy(w) /\ worker'[w].op = worker[w].op
    /\ worker'[w].pc \in {"checked", "loaded", "ack", "nack"}

Begun(w) ==
    /\ worker[w].pc = "loaded" /\ worker'[w].pc = "running" /\ worker'[w].op = worker[w].op
    /\ worker'[w].copy = record[Target(w)] /\ UNCHANGED <<opID, record>>

Tailed(w) ==
    /\ Running(w) /\ worker'[w].pc = "tail" /\ worker'[w].op = worker[w].op
    /\ worker[w].copy.kind = "DESTROY"

LEMMA HandlerEffect ==
    ASSUME TypeOK, HandlersHaveTasks, [Next]_vars, NEW w \in Worker
    PROVE  \/ worker'[w] = worker[w]
           \/ worker'[w].pc = "idle"
           \/ Taken(w) \/ Turned(w) \/ Begun(w) \/ Tailed(w)
<1> DEFINE Goal == \/ worker'[w] = worker[w]
                   \/ worker'[w].pc = "idle"
                   \/ Taken(w) \/ Turned(w) \/ Begun(w) \/ Tailed(w)
<1>0. worker \in [Worker -> Handlers]
  BY DEF TypeOK
<1>1. ASSUME NEW o \in Op, Calls(o) PROVE Goal
  BY <1>1 DEF Calls, Request, Admit, Refuse, Save, Enqueue
<1>2. ASSUME NEW v \in Worker, NEW o \in Op, Deliver(v, o) PROVE Goal
  <2>1. [Idle EXCEPT !.pc = "delivered", !.op = o].pc = "delivered"
    BY DEF Idle
  <2>2. [Idle EXCEPT !.pc = "delivered", !.op = o].op = o
    BY DEF Idle
  <2>3. task[o] # "none" /\ worker[v].pc = "idle"
    BY <1>2 DEF Deliver
  <2>4. worker' = [worker EXCEPT ![v] = [Idle EXCEPT !.pc = "delivered", !.op = o]]
    BY <1>2 DEF Deliver
  <2>5. CASE v = w
    <3>1. worker'[w] = [Idle EXCEPT !.pc = "delivered", !.op = o]
      BY <1>0, <2>4, <2>5
    <3>2. QED BY <2>1, <2>2, <2>3, <2>5, <3>1 DEF Taken
  <2>6. CASE v # w
    BY <1>0, <2>4, <2>6
  <2>7. QED BY <2>5, <2>6
<1>3. ASSUME NEW v \in Worker, Acknowledge(v) \/ Reject(v) \/ Crash(v) PROVE Goal
  BY <1>0, <1>3 DEF Acknowledge, Reject, Crash, Idle
<1>4. ASSUME NEW v \in Worker, NEW pc \in {"checked", "loaded", "ack", "nack"}, Goto(v, pc), Busy(v)
      PROVE  Goal
  BY <1>0, <1>4, GotoMoves DEF Turned
<1>5. ASSUME NEW v \in Worker, Check(v) \/ Load(v) \/ DeleteConfig(v) PROVE Goal
  <2>1. PICK pc \in {"checked", "loaded", "ack", "nack"} : Goto(v, pc)
    BY <1>5 DEF Check, Load, DeleteConfig
  <2>2. Busy(v)
    BY <1>5 DEF Check, Load, DeleteConfig, Busy
  <2>3. QED BY <1>4, <2>1, <2>2
<1>6. ASSUME NEW v \in Worker, Begin(v) PROVE Goal
  <2>1. worker[v].pc = "loaded" /\ Busy(v) /\ UNCHANGED <<opID, record>>
    BY <1>6 DEF Begin, Busy
  <2>2. CASE Goto(v, "nack")
    BY <1>4, <2>1, <2>2
  <2>3. CASE worker' = [worker EXCEPT ![v].pc = "running", ![v].copy = record[Target(v)]]
    <3>1. v # w => worker'[w] = worker[w]
      BY <1>0, <2>3
    <3>2. /\ worker'[v].pc = "running" /\ worker'[v].op = worker[v].op
          /\ worker'[v].copy = record[Target(v)]
      BY <1>0, <2>3 DEF Handlers
    <3>3. QED BY <2>1, <3>1, <3>2 DEF Begun
  <2>4. QED BY <1>6, <2>2, <2>3 DEF Begin
<1>7. ASSUME NEW v \in Worker, Report(v) \/ Complete(v) \/ Fail(v) PROVE Goal
  <2>1. worker[v].pc = "running" /\ Busy(v) /\ Running(v)
    BY <1>7 DEF Report, Complete, Fail, Busy, Running
  <2>2. CASE worker' = worker
    BY <2>2
  <2>3. CASE \E pc \in {"ack", "nack"} : Goto(v, pc)
    BY <1>4, <2>1, <2>3
  <2>4. CASE Goto(v, "tail") /\ worker[v].copy.kind = "DESTROY"
    BY <1>0, <2>1, <2>4, GotoMoves DEF Tailed
  <2>5. QED BY <1>7, <2>2, <2>3, <2>4 DEF Report, Complete, Fail, AfterCompleted
<1>8. ASSUME UNCHANGED vars PROVE Goal
  BY <1>8 DEF vars
<1>9. \/ \E o \in Op : Calls(o)
      \/ \E v \in Worker : \E o \in Op : Deliver(v, o)
      \/ \E v \in Worker : Acknowledge(v) \/ Reject(v) \/ Crash(v)
      \/ \E v \in Worker : Check(v) \/ Load(v) \/ DeleteConfig(v)
      \/ \E v \in Worker : Begin(v)
      \/ \E v \in Worker : Report(v) \/ Complete(v) \/ Fail(v)
      \/ UNCHANGED vars
  BY DEF Next, Handler
<1> HIDE DEF Goal
<1>10. Goal
  BY <1>1, <1>2, <1>3, <1>5, <1>6, <1>7, <1>8, <1>9
<1>11. QED BY <1>10 DEF Goal

\* A request keeps the operation ID it has generated.
LEMMA AskedStays ==
    ASSUME TypeOK, CallsHaveIDs, HandlersHaveTasks, [Next]_vars
    PROVE  /\ \A o \in Op : opID[o] # None => opID'[o] = opID[o]
           /\ \A s : DestroyAsked(s) => DestroyAsked(s)'
<1>1. ASSUME NEW p \in Op, Save(p), NEW o \in Op, opID[o] # None PROVE opID'[o] = opID[o]
  <2>1. o # p
    BY <1>1 DEF Save, CallsHaveIDs
  <2>2. QED BY <1>1, <2>1, SaveEffect DEF TypeOK
<1>2. \A o \in Op : opID[o] # None => opID'[o] = opID[o]
  BY <1>1, IDsEffect
<1>3. QED BY <1>2 DEF DestroyAsked

\* A record that names an operation never stops naming one.
LEMMA RecordKeepsID ==
    ASSUME TypeOK, CallsHaveIDs, HandlersHaveTasks, RunsWhatWasAsked, [Next]_vars,
           NEW s \in Server, record[s].id # None
    PROVE  record'[s].id # None
<1> USE ServerOfType
<1>1. CASE UNCHANGED record
  BY <1>1
<1>2. ASSUME NEW o \in Op, Save(o) PROVE record'[s].id # None
  <2>1. PICK id \in Op : record' = [record EXCEPT ![ServerOf[o]] =
                                        [id |-> id, kind |-> KindOf[o], state |-> "IN_PROGRESS"]]
    BY <1>2, SaveEffect
  <2>2. QED BY <2>1, NoneIsNoOp DEF TypeOK
<1>3. ASSUME NEW w \in Worker, Report(w) \/ Complete(w) \/ Fail(w) PROVE record'[s].id # None
  BY <1>3, RunEffect DEF RunsWhatWasAsked, Asked
<1>4. QED BY <1>1, <1>2, <1>3, IDsEffect

LEMMA CallsHaveIDsNext ==
    ASSUME TypeOK, NothingIsInvented, [Next]_vars PROVE CallsHaveIDs'
<1> USE ServerOfType, NoneIsNoOp DEF NothingIsInvented
<1>1. \A o \in Op : record[ServerOf[o]].id # None => record'[ServerOf[o]].id # None
  BY RecordKeepsID
<1>2. ASSUME NEW o \in Op, Request(o) \/ Admit(o) \/ Refuse(o) \/ Enqueue(o)
      PROVE  CallsHaveIDs'
  <2>1. UNCHANGED <<opID, record>>
    BY <1>2 DEF Request, Admit, Refuse, Enqueue
  <2>2. QED BY <1>2, <2>1 DEF Request, Admit, Refuse, Enqueue, CallsHaveIDs, TypeOK
<1>3. ASSUME NEW o \in Op, Save(o) PROVE CallsHaveIDs'
  <2>1. PICK id \in Op :
            /\ opID' = [opID EXCEPT ![o] = id]
            /\ record' = [record EXCEPT ![ServerOf[o]] =
                              [id |-> id, kind |-> KindOf[o], state |-> "IN_PROGRESS"]]
    BY <1>3, SaveEffect
  <2>2. opID'[o] # None /\ record'[ServerOf[o]].id # None
    BY <2>1 DEF TypeOK
  <2>3. QED BY <1>1, <1>3, <2>1, <2>2 DEF Save, CallsHaveIDs, TypeOK
<1>4. ASSUME NEW w \in Worker, NEW o \in Op, Deliver(w, o) PROVE CallsHaveIDs'
  BY <1>4 DEF Deliver, CallsHaveIDs, TypeOK
<1>5. ASSUME NEW w \in Worker, Check(w) \/ Load(w) \/ Begin(w) \/ DeleteConfig(w)
      PROVE  CallsHaveIDs'
  BY <1>5 DEF Check, Load, Begin, DeleteConfig, CallsHaveIDs
<1>6. ASSUME NEW w \in Worker, Acknowledge(w) \/ Reject(w) \/ Crash(w) PROVE CallsHaveIDs'
  <2>1. worker[w].op \in Op /\ task[worker[w].op] # "none"
    BY <1>6 DEF Acknowledge, Reject, Crash, HandlersHaveTasks, Busy
  <2>2. UNCHANGED <<call, opID, record>> /\ \A o \in Op : task'[o] # "none" => task[o] # "none"
    BY <1>6, <2>1 DEF Acknowledge, Reject, Crash, TypeOK
  <2>3. QED BY <2>2 DEF CallsHaveIDs
<1>7. ASSUME NEW w \in Worker, Report(w) \/ Complete(w) \/ Fail(w) PROVE CallsHaveIDs'
  BY <1>1, <1>7, RunEffect DEF CallsHaveIDs
<1>8. CASE UNCHANGED vars
  BY <1>8 DEF vars, CallsHaveIDs
<1>9. QED
  BY <1>2, <1>3, <1>4, <1>5, <1>6, <1>7, <1>8 DEF Next, Calls, Handler

LEMMA RecordsAreAskedNext ==
    ASSUME TypeOK, NothingIsInvented, [Next]_vars PROVE RecordsAreAsked'
<1> USE ServerOfType, NoneIsNoOp DEF NothingIsInvented
<1> SUFFICES ASSUME NEW s \in Server, record'[s].id # None
             PROVE  Asked(s, record[s].id, record[s].kind)'
  BY DEF RecordsAreAsked
<1>0. \A o \in Op : opID[o] # None => opID'[o] = opID[o]
  BY AskedStays
<1>1. CASE record'[s] = record[s]
  <2>1. Asked(s, record[s].id, record[s].kind)
    BY <1>1 DEF RecordsAreAsked
  <2>2. QED BY <1>0, <1>1, <2>1 DEF Asked
<1>2. ASSUME NEW o \in Op, Save(o), record'[s] # record[s]
      PROVE  Asked(s, record[s].id, record[s].kind)'
  <2>1. PICK id \in Op :
            /\ opID' = [opID EXCEPT ![o] = id]
            /\ record' = [record EXCEPT ![ServerOf[o]] =
                              [id |-> id, kind |-> KindOf[o], state |-> "IN_PROGRESS"]]
    BY <1>2, SaveEffect
  <2>2. s = ServerOf[o] /\ record'[s].id = id /\ record'[s].kind = KindOf[o] /\ opID'[o] = id
    BY <1>2, <2>1 DEF TypeOK
  <2>3. QED BY <2>2 DEF Asked
<1>3. ASSUME NEW w \in Worker, Report(w) \/ Complete(w) \/ Fail(w), record'[s] # record[s]
      PROVE  Asked(s, record[s].id, record[s].kind)'
  <2>1. /\ Running(w) /\ s = Target(w)
        /\ record'[s].id = worker[w].copy.id /\ record'[s].kind = worker[w].copy.kind
    BY <1>3, RunEffect
  <2>2. Asked(s, worker[w].copy.id, worker[w].copy.kind)
    BY <2>1 DEF RunsWhatWasAsked
  <2>3. QED BY <1>0, <2>1, <2>2 DEF Asked
<1>4. QED
  BY <1>1, <1>2, <1>3, IDsEffect

LEMMA HandlersHaveTasksNext ==
    ASSUME TypeOK, NothingIsInvented, [Next]_vars PROVE HandlersHaveTasks'
<1> USE ServerOfType DEF NothingIsInvented
<1>1. \A o \in Op : task[o] # "none" => task'[o] # "none"
  <2>1. ASSUME NEW w \in Worker, Acknowledge(w) \/ Reject(w) \/ Crash(w)
        PROVE  \A o \in Op : task[o] # "none" => task'[o] # "none"
    BY <2>1 DEF Acknowledge, Reject, Crash, AfterError, TypeOK
  <2>2. ASSUME NEW w \in Worker, NEW p \in Op, Deliver(w, p) \/ Enqueue(p)
        PROVE  \A o \in Op : task[o] # "none" => task'[o] # "none"
    BY <2>2 DEF Deliver, Enqueue, TypeOK
  <2>3. \/ task' = task
        \/ \E w \in Worker : Acknowledge(w) \/ Reject(w) \/ Crash(w)
        \/ \E w \in Worker, p \in Op : Deliver(w, p)
        \/ \E p \in Op : Enqueue(p)
    BY DEF Next, Calls, Handler, Request, Admit, Refuse, Save, Check, Load, Begin,
           Report, Complete, Fail, DeleteConfig, vars
  <2>4. ASSUME NEW p \in Op, Enqueue(p)
        PROVE  \A o \in Op : task[o] # "none" => task'[o] # "none"
    BY <2>4 DEF Enqueue, TypeOK
  <2>5. QED BY <2>1, <2>2, <2>3, <2>4
<1> SUFFICES ASSUME NEW w \in Worker
             PROVE  /\ Busy(w)' => worker'[w].op \in Op /\ task'[worker'[w].op] # "none"
                    /\ worker'[w].pc = "tail" => DestroyAsked(Target(w))'
  BY DEF HandlersHaveTasks, Busy
<1>2. /\ Busy(w) => worker[w].op \in Op /\ task[worker[w].op] # "none"
      /\ worker[w].pc = "tail" => DestroyAsked(Target(w))
  BY DEF HandlersHaveTasks
<1>3. CASE worker'[w] = worker[w]
  <2>1. Target(w)' = Target(w)
    BY <1>3 DEF Target
  <2>2. QED BY <1>1, <1>2, <1>3, <2>1, AskedStays DEF Busy
<1>4. CASE worker'[w].pc = "idle"
  BY <1>4 DEF Busy
<1>5. CASE Taken(w)
  BY <1>1, <1>5 DEF Taken
<1>6. CASE Turned(w)
  BY <1>1, <1>2, <1>6 DEF Turned
<1>7. CASE Begun(w)
  BY <1>1, <1>2, <1>7 DEF Begun, Busy
<1>8. CASE Tailed(w)
  <2>1. worker[w].op \in Op /\ Target(w)' = Target(w)
    BY <1>2, <1>8 DEF Tailed, Running, Busy, Target
  <2>2. Asked(Target(w), worker[w].copy.id, "DESTROY")
    BY <1>8 DEF Tailed, RunsWhatWasAsked
  <2>3. DestroyAsked(Target(w))
    BY <2>2 DEF Asked, DestroyAsked
  <2>4. QED BY <1>1, <1>2, <1>8, <2>1, <2>3, AskedStays DEF Tailed, Running, Busy
<1>9. QED
  BY <1>3, <1>4, <1>5, <1>6, <1>7, <1>8, HandlerEffect

LEMMA RunsWhatWasAskedNext ==
    ASSUME TypeOK, NothingIsInvented, [Next]_vars PROVE RunsWhatWasAsked'
<1> USE ServerOfType DEF NothingIsInvented
<1> SUFFICES ASSUME NEW w \in Worker, worker'[w].pc = "running"
             PROVE  Asked(Target(w), worker[w].copy.id, worker[w].copy.kind)'
  BY DEF RunsWhatWasAsked, Running
<1>1. CASE worker'[w] = worker[w]
  <2>1. Asked(Target(w), worker[w].copy.id, worker[w].copy.kind)
    BY <1>1 DEF RunsWhatWasAsked, Running
  <2>2. PICK o \in Op : /\ ServerOf[o] = Target(w) /\ KindOf[o] = worker[w].copy.kind
                        /\ opID[o] = worker[w].copy.id /\ opID[o] # None
    BY <2>1 DEF Asked
  <2>3. opID'[o] = opID[o]
    BY <2>2, AskedStays
  <2>4. QED BY <1>1, <2>2, <2>3 DEF Asked, Target
<1>2. CASE Begun(w)
  <2>1. /\ worker[w].op \in Op /\ task[worker[w].op] # "none"
        /\ Target(w) \in Server /\ Target(w)' = Target(w)
    BY <1>2 DEF Begun, HandlersHaveTasks, Busy, Target
  <2>2. record[Target(w)].id # None
    BY <2>1 DEF CallsHaveIDs, Target
  <2>3. Asked(Target(w), record[Target(w)].id, record[Target(w)].kind)
    BY <2>1, <2>2 DEF RecordsAreAsked
  <2>4. QED BY <1>2, <2>1, <2>3 DEF Begun, Asked
<1>3. QED
  BY <1>1, <1>2, HandlerEffect DEF Taken, Turned, Tailed

LEMMA DeletedOnlyOnRequestNext ==
    ASSUME TypeOK, NothingIsInvented, [Next]_vars PROVE DeletedOnlyOnRequest'
<1> USE ServerOfType DEF NothingIsInvented
<1>1. ASSUME NEW w \in Worker, DeleteConfig(w) PROVE DeletedOnlyOnRequest'
  <2>1. DestroyAsked(Target(w)) /\ config' \in {config, config \ {Target(w)}}
    BY <1>1 DEF DeleteConfig, HandlersHaveTasks
  <2>2. QED BY <2>1, AskedStays DEF DeletedOnlyOnRequest
<1>2. config' = config \/ \E w \in Worker : DeleteConfig(w)
  BY DEF Next, Calls, Handler, Request, Admit, Refuse, Save, Enqueue, Deliver, Check, Load,
         Begin, Report, Complete, Fail, Acknowledge, Reject, Crash, vars
<1>3. QED
  BY <1>1, <1>2, AskedStays DEF DeletedOnlyOnRequest

LEMMA NothingIsInventedNext ==
    ASSUME TypeOK, NothingIsInvented, [Next]_vars PROVE NothingIsInvented'
BY CallsHaveIDsNext, RecordsAreAskedNext, HandlersHaveTasksNext, RunsWhatWasAskedNext,
   DeletedOnlyOnRequestNext
   DEF NothingIsInvented

-----------------------------------------------------------------------------
(***************************************************************************)
(* What holds in a quiet system: the record is a lock.  The store may fail *)
(* whenever it likes, except on the first read of StartOperation.          *)
(***************************************************************************)
LEMMA SaveInQuiet ==
    ASSUME Quiet, NEW o \in Op, Save(o)
    PROVE  /\ call[o] = "admitted" /\ call' = [call EXCEPT ![o] = "saved"]
           /\ opID' = [opID EXCEPT ![o] = o]
           /\ record' = [record EXCEPT ![ServerOf[o]] =
                             [id |-> o, kind |-> KindOf[o], state |-> "IN_PROGRESS"]]
           /\ UNCHANGED <<task, attempts, worker, config>>
  BY DEF Save, NewIDs, Quiet

\* The steps of a run change no record but the one it has locked: if they
\* change that, it is to unlock it.
RecordSteps(w) ==
    /\ worker[w].op \in Op
    /\ \A s \in Server : /\ record'[s].id = record[s].id
                         /\ record'[s] # record[s] => s = ServerOf[worker[w].op]

LEMMA RunSteps ==
    ASSUME IInv, Quiet, NEW w \in Worker, Report(w) \/ Complete(w) \/ Fail(w)
    PROVE  /\ worker[w].pc = "running" /\ Open(worker[w].op) /\ RecordSteps(w)
           /\ Target(w) = ServerOf[worker[w].op] /\ Target(w) \in Server
           /\ Report(w) => record' = record
           /\ Complete(w) \/ Fail(w) =>
                  \/ StoreFaults /\ record' = record
                  \/ \E state \in {"COMPLETED", "FAILED"} :
                         record' = [record EXCEPT ![Target(w)].state = state]
<1> USE ServerOfType DEF IInv, TypeOK
<1>1. /\ worker[w].pc = "running" /\ Open(worker[w].op) /\ worker[w].op \in Op
      /\ Target(w) \in Server /\ worker[w].copy = record[Target(w)]
      /\ Target(w) = ServerOf[worker[w].op]
  BY DEF Report, Complete, Fail, WorkIsOnOpenRecord, TasksInOrder, Engaged, Busy, Target
<1>2. record[Target(w)] \in Records
  BY <1>1
<1>3. Report(w) => record' = record
  BY <1>1, <1>2 DEF Report, UpdateStatus
<1>4. ASSUME Complete(w) \/ Fail(w)
      PROVE  \/ StoreFaults /\ record' = record
             \/ \E state \in {"COMPLETED", "FAILED"} :
                    record' = [record EXCEPT ![Target(w)].state = state]
  BY <1>1, <1>4 DEF Complete, Fail, StoreResult, UpdateStatus
<1>5. RecordSteps(w)
  BY <1>1, <1>2, <1>3, <1>4 DEF RecordSteps, Records
<1>6. QED BY <1>1, <1>3, <1>4, <1>5

LEMMA CallsInOrderNext ==
    ASSUME IInv, Quiet, [Next]_vars PROVE CallsInOrder'
<1> USE ServerOfType
<1> USE DEF IInv, TypeOK, CallsInOrder, Starting, InProgress
<1>1. ASSUME NEW o \in Op, Request(o) PROVE CallsInOrder'
  BY <1>1 DEF Request, Quiet
<1>2. ASSUME NEW o \in Op, Admit(o) PROVE CallsInOrder'
  BY <1>2 DEF Admit, Admissible, Quiet
<1>3. ASSUME NEW o \in Op, Refuse(o) \/ Enqueue(o) PROVE CallsInOrder'
  BY <1>3 DEF Refuse, Enqueue
<1>4. ASSUME NEW o \in Op, Save(o) PROVE CallsInOrder'
  <2>1. \A p \in Op : call'[p] = "admitted" => ServerOf[p] # ServerOf[o]
    BY <1>4, SaveInQuiet
  <2>2. QED BY <1>4, <2>1, SaveInQuiet
<1>5. ASSUME NEW w \in Worker, NEW o \in Op, Deliver(w, o) PROVE CallsInOrder'
  BY <1>5 DEF Deliver
<1>6. ASSUME NEW w \in Worker,
             \/ Check(w) \/ Load(w) \/ Begin(w) \/ DeleteConfig(w)
             \/ Acknowledge(w) \/ Reject(w) \/ Crash(w)
      PROVE  CallsInOrder'
  BY <1>6 DEF Check, Load, Begin, DeleteConfig, Acknowledge, Reject, Crash
<1>7. ASSUME NEW w \in Worker, Report(w) \/ Complete(w) \/ Fail(w) PROVE CallsInOrder'
  <2>1. Open(worker[w].op) /\ RecordSteps(w)
    BY <1>7, RunSteps
  <2>2. \A s \in Server : record'[s] # record[s] => InProgress(s)
    BY <2>1 DEF RecordSteps, Open
  <2>3. call' = call
    BY <1>7 DEF Report, Complete, Fail
  <2>4. QED BY <2>2, <2>3
<1>8. CASE UNCHANGED vars
  BY <1>8 DEF vars
<1>9. QED
  BY <1>1, <1>2, <1>3, <1>4, <1>5, <1>6, <1>7, <1>8 DEF Next, Calls, Handler

LEMMA IDsAreFreshNext ==
    ASSUME IInv, Quiet, [Next]_vars PROVE IDsAreFresh'
<1> USE ServerOfType, NoneIsNoOp
<1> USE DEF IInv, TypeOK, NothingIsInvented, CallsHaveIDs, IDsAreFresh
<1>1. ASSUME NEW o \in Op, Request(o) \/ Admit(o) \/ Refuse(o) \/ Enqueue(o)
      PROVE  IDsAreFresh'
  BY <1>1 DEF Request, Admit, Refuse, Enqueue
<1>2. ASSUME NEW o \in Op, Save(o) PROVE IDsAreFresh'
  <2>1. /\ opID[o] = None /\ opID'[o] = o
        /\ \A p \in Op \ {o} : opID'[p] = opID[p] /\ call'[p] = call[p]
    BY <1>2, SaveInQuiet
  <2>2. /\ record'[ServerOf[o]].id = o
        /\ \A s \in Server \ {ServerOf[o]} : record'[s] = record[s] /\ record[s].id # o
    BY <1>2, <2>1, SaveInQuiet
  <2>3. QED BY <2>1, <2>2 DEF Records
<1>3. ASSUME NEW w \in Worker, NEW o \in Op, Deliver(w, o) PROVE IDsAreFresh'
  BY <1>3 DEF Deliver
<1>4. ASSUME NEW w \in Worker,
             \/ Check(w) \/ Load(w) \/ Begin(w) \/ DeleteConfig(w)
             \/ Acknowledge(w) \/ Reject(w) \/ Crash(w)
      PROVE  IDsAreFresh'
  BY <1>4 DEF Check, Load, Begin, DeleteConfig, Acknowledge, Reject, Crash
<1>5. ASSUME NEW w \in Worker, Report(w) \/ Complete(w) \/ Fail(w) PROVE IDsAreFresh'
  <2>1. Open(worker[w].op) /\ RecordSteps(w)
    BY <1>5, RunSteps
  <2>2. \A s \in Server : /\ record'[s].id = record[s].id
                          /\ record[s].id = None => record'[s] = record[s]
    BY <2>1 DEF RecordSteps, Open
  <2>3. UNCHANGED <<call, opID>>
    BY <1>5 DEF Report, Complete, Fail
  <2>4. QED BY <2>2, <2>3
<1>6. CASE UNCHANGED vars
  BY <1>6 DEF vars
<1>7. QED
  BY <1>1, <1>2, <1>3, <1>4, <1>5, <1>6 DEF Next, Calls, Handler

LEMMA TasksInOrderNext ==
    ASSUME IInv, Quiet, [Next]_vars PROVE TasksInOrder'
<1> USE ServerOfType, NoneIsNoOp
<1> USE DEF IInv, TypeOK, TasksInOrder, Busy, Open, InProgress
<1>1. ASSUME NEW o \in Op, Request(o) \/ Admit(o) PROVE TasksInOrder'
  BY <1>1 DEF Request, Admit
<1>2. ASSUME NEW o \in Op, Refuse(o) PROVE TasksInOrder'
  BY <1>2 DEF Refuse
<1>3. ASSUME NEW o \in Op, Save(o) PROVE TasksInOrder'
  <2>1. \A p \in Op : p # o /\ Open(p)' => Open(p)
    BY <1>3, SaveInQuiet
  <2>2. task[o] = "none"
    BY <1>3, SaveInQuiet
  <2>3. QED BY <1>3, <2>1, <2>2, SaveInQuiet
<1>4. ASSUME NEW o \in Op, Enqueue(o) PROVE TasksInOrder'
  BY <1>4 DEF Enqueue
<1>5. ASSUME NEW w \in Worker, NEW o \in Op, Deliver(w, o) PROVE TasksInOrder'
  <2>1. /\ worker' = [worker EXCEPT ![w] = [Idle EXCEPT !.pc = "delivered", !.op = o]]
        /\ task[o] = "queued" /\ task' = [task EXCEPT ![o] = "leased"]
        /\ worker[w].pc = "idle"
    BY <1>5 DEF Deliver, Quiet
  <2>2. worker'[w].pc = "delivered" /\ worker'[w].op = o
    BY <2>1 DEF Idle
  <2>3. \A v \in Worker : v # w => worker'[v] = worker[v]
    BY <2>1
  <2>4. attempts[o] # MaxAttempts
    BY <1>5, MaxAttemptsType DEF Deliver
  <2>5. \A p \in Op : p # o => attempts'[p] = attempts[p]
    BY <1>5 DEF Deliver
  <2>6. QED BY <1>5, <2>1, <2>2, <2>3, <2>4, <2>5 DEF Deliver
<1>6. ASSUME NEW w \in Worker, Check(w) \/ Load(w) \/ Begin(w) \/ DeleteConfig(w)
      PROVE  TasksInOrder'
  <2>1. /\ worker[w].pc # "idle" /\ worker'[w].pc # "idle"
        /\ worker'[w].op = worker[w].op
        /\ \A v \in Worker : v # w => worker'[v] = worker[v]
    <3>1. CASE \E pc \in WorkerStates \ {"idle"} : Goto(w, pc)
      BY <1>6, <3>1, GotoMoves DEF Check, Load, Begin, DeleteConfig
    <3>2. CASE worker' = [worker EXCEPT ![w].pc = "running", ![w].copy = record[Target(w)]]
      BY <1>6, <3>2 DEF Check, Load, Begin, DeleteConfig, Handlers
    <3>3. QED BY <1>6, <3>1, <3>2 DEF Check, Load, Begin, DeleteConfig, WorkerStates
  <2>2. QED BY <1>6, <2>1 DEF Check, Load, Begin, DeleteConfig
<1>7. ASSUME NEW w \in Worker, Report(w) \/ Complete(w) \/ Fail(w) PROVE TasksInOrder'
  <2>1. worker[w].pc = "running" /\ Open(worker[w].op) /\ RecordSteps(w)
    BY <1>7, RunSteps
  <2>2. \A o \in Op : Open(o)' => Open(o)
    BY <2>1 DEF RecordSteps
  <2>3. \A v \in Worker : worker'[v].op = worker[v].op /\ (Busy(v)' <=> Busy(v))
    <3>1. worker' = worker \/ \E pc \in WorkerStates \ {"idle"} : Goto(w, pc)
      BY <1>7 DEF Report, Complete, Fail, AfterCompleted, WorkerStates
    <3>2. QED BY <2>1, <3>1, GotoMoves
  <2>4. QED BY <1>7, <2>2, <2>3 DEF Report, Complete, Fail
<1>8. ASSUME NEW w \in Worker, Acknowledge(w) \/ Reject(w) \/ Crash(w)
      PROVE  TasksInOrder'
  <2>1. /\ worker[w].op \in Op /\ task[worker[w].op] = "leased"
        /\ \A v \in Worker : Busy(v) /\ v # w => worker[v].op # worker[w].op
    BY <1>8 DEF Acknowledge, Reject, Crash
  <2>2. /\ ~Busy(w)'
        /\ \A v \in Worker : v # w => worker'[v] = worker[v]
    BY <1>8 DEF Acknowledge, Reject, Crash, Idle
  <2>3. \A o \in Op : o # worker[w].op => task'[o] = task[o]
    BY <1>8, <2>1 DEF Acknowledge, Reject, Crash
  <2>4. /\ task'[worker[w].op] # "none"
        /\ task'[worker[w].op] = "gone"
                => attempts[worker[w].op] = MaxAttempts \/ ~Open(worker[w].op) \/ StoreFaults
    BY <1>8, <2>1 DEF Acknowledge, Reject, Crash, AfterError, WorkIsOnOpenRecord
  <2>5. UNCHANGED <<call, attempts, record>>
    BY <1>8 DEF Acknowledge, Reject, Crash
  <2>6. QED BY <2>1, <2>2, <2>3, <2>4, <2>5
<1>9. CASE UNCHANGED vars
  BY <1>9 DEF vars
<1>10. QED
  BY <1>1, <1>2, <1>3, <1>4, <1>5, <1>6, <1>7, <1>8, <1>9 DEF Next, Calls, Handler

LEMMA WorkIsOnOpenRecordNext ==
    ASSUME IInv, Quiet, [Next]_vars PROVE WorkIsOnOpenRecord'
<1> USE ServerOfType, NoneIsNoOp
<1> USE DEF IInv, TypeOK, WorkIsOnOpenRecord, Engaged, Open, InProgress, Target
<1>1. ASSUME NEW o \in Op, Request(o) \/ Admit(o) \/ Refuse(o) \/ Enqueue(o)
      PROVE  WorkIsOnOpenRecord'
  BY <1>1 DEF Request, Admit, Refuse, Enqueue
<1>2. ASSUME NEW o \in Op, Save(o) PROVE WorkIsOnOpenRecord'
  <2>1. \A w \in Worker : Engaged(w) => ServerOf[worker[w].op] # ServerOf[o]
    BY <1>2, SaveInQuiet DEF CallsInOrder
  <2>2. \A w \in Worker : Busy(w) => worker[w].op \in Op /\ worker[w].op # o
    BY <1>2, SaveInQuiet DEF TasksInOrder
  <2>3. QED BY <1>2, <2>1, <2>2, SaveInQuiet DEF Busy
<1>3. ASSUME NEW w \in Worker, NEW o \in Op, Deliver(w, o) PROVE WorkIsOnOpenRecord'
  <2>1. worker'[w].pc = "delivered"
    BY <1>3 DEF Deliver, Idle
  <2>2. QED BY <1>3, <2>1 DEF Deliver
<1>4. ASSUME NEW w \in Worker, Check(w) PROVE WorkIsOnOpenRecord'
  <2>1. worker[w].op \in Op /\ call[worker[w].op] = "accepted"
    BY <1>4 DEF Check, TasksInOrder, Busy
  <2>2. Current(w) <=> Open(worker[w].op)
    BY <2>1 DEF Current, IDsAreFresh
  <2>3. PICK pc : Goto(w, pc) /\ \/ pc = "nack"
                                 \/ pc = IF Current(w) THEN "checked" ELSE "ack"
    BY <1>4 DEF Check
  <2>4. QED BY <1>4, <2>2, <2>3, GotoMoves DEF Check
<1>5. ASSUME NEW w \in Worker, Load(w) PROVE WorkIsOnOpenRecord'
  <2>1. worker[w].pc = "checked" /\ \E pc \in {"loaded", "nack"} : Goto(w, pc)
    BY <1>5 DEF Load
  <2>2. QED BY <1>5, <2>1, GotoMoves DEF Load
<1>6. ASSUME NEW w \in Worker, Begin(w) PROVE WorkIsOnOpenRecord'
  <2>1. CASE Goto(w, "nack")
    BY <1>6, <2>1, GotoMoves DEF Begin
  <2>2. CASE worker' = [worker EXCEPT ![w].pc = "running", ![w].copy = record[Target(w)]]
    BY <1>6, <2>2 DEF Begin, Handlers
  <2>3. QED BY <1>6, <2>1, <2>2 DEF Begin
<1>7. ASSUME NEW w \in Worker, Report(w) PROVE WorkIsOnOpenRecord'
  <2>1. record' = record
    BY <1>7, RunSteps
  <2>2. QED BY <1>7, <2>1 DEF Report
<1>8. ASSUME NEW w \in Worker, Complete(w) \/ Fail(w) PROVE WorkIsOnOpenRecord'
  <2>1. /\ worker[w].pc = "running" /\ Open(worker[w].op) /\ RecordSteps(w)
        /\ \/ StoreFaults /\ record' = record
           \/ \E state \in {"COMPLETED", "FAILED"} :
                  record' = [record EXCEPT ![Target(w)].state = state]
    BY <1>8, RunSteps
  <2>2. PICK pc \in {"tail", "ack", "nack"} : Goto(w, pc)
    BY <1>8 DEF Complete, Fail, AfterCompleted
  <2>3. ~Open(worker[w].op)' \/ StoreFaults
    <3>1. worker'[w].op = worker[w].op
      BY <2>2, GotoMoves
    <3>2. ServerOf[worker[w].op] \in Server /\ record[ServerOf[worker[w].op]] \in Records
      BY <2>1 DEF RecordSteps
    <3>3. CASE \E state \in {"COMPLETED", "FAILED"} :
                   record' = [record EXCEPT ![Target(w)].state = state]
      <4>1. record'[ServerOf[worker[w].op]].state \in {"COMPLETED", "FAILED"}
        BY <3>2, <3>3 DEF Records
      <4>2. QED BY <3>1, <4>1
    <3>4. QED BY <2>1, <3>3
  <2>4. \A v \in Worker : v # w =>
            /\ worker'[v] = worker[v]
            /\ Engaged(v) => /\ ServerOf[worker[v].op] # ServerOf[worker[w].op]
                             /\ ServerOf[worker[v].op] \in Server
    BY <2>1, <2>2, GotoMoves DEF RecordSteps, TasksInOrder, Busy
  <2>5. worker'[w].pc \in {"tail", "ack", "nack"} /\ worker'[w].op = worker[w].op
    BY <2>2, GotoMoves
  <2>6. \A o \in Op : ~Open(o) => ~Open(o)'
    BY <2>1 DEF RecordSteps
  <2>7. \A v \in Worker : v # w =>
            /\ Engaged(v)' => Open(worker[v].op)'
            /\ worker'[v].pc = "running" => worker'[v].copy = record'[Target(v)]
            /\ worker'[v].pc \in {"tail", "ack"} => ~Open(worker[v].op)' \/ StoreFaults
    BY <2>1, <2>4, <2>6 DEF RecordSteps, TasksInOrder, Busy
  <2>8. QED BY <2>3, <2>4, <2>5, <2>7
<1>9. ASSUME NEW w \in Worker, DeleteConfig(w) PROVE WorkIsOnOpenRecord'
  BY <1>9, GotoMoves DEF DeleteConfig
<1>10. ASSUME NEW w \in Worker, Acknowledge(w) \/ Reject(w) \/ Crash(w)
       PROVE  WorkIsOnOpenRecord'
  <2>1. worker'[w].pc = "idle"
    BY <1>10 DEF Acknowledge, Reject, Crash, Idle
  <2>2. QED BY <1>10, <2>1 DEF Acknowledge, Reject, Crash
<1>11. CASE UNCHANGED vars
  BY <1>11 DEF vars
<1>12. QED
  BY <1>1, <1>2, <1>3, <1>4, <1>5, <1>6, <1>7, <1>8, <1>9, <1>10, <1>11
     DEF Next, Calls, Handler

(***************************************************************************)
(* The inductive invariant.  In any system nothing is invented: records,   *)
(* tasks and runs say what a request has asked for.  With one user per     *)
(* server, no duplicate deliveries, distinct operation IDs and a           *)
(* StartOperation that can read the record, the record is a lock: whoever  *)
(* has passed the handler's check holds it, and nobody else changes it,    *)
(* even when other reads and writes of the store fail                      *)
(* (executor_cloudtasks.go:41-87, tasks/handler.go:50-66).                 *)
(***************************************************************************)
THEOREM TaskInvariant == Spec => []IInv
<1>1. IInv /\ [Next]_vars => IInv'
  <2> SUFFICES ASSUME IInv, [Next]_vars PROVE IInv'
    OBVIOUS
  <2>1. TypeOK' /\ NothingIsInvented'
    BY TypeOKNext, NothingIsInventedNext DEF IInv, NothingIsInvented
  <2>2. ASSUME Quiet
        PROVE  CallsInOrder' /\ IDsAreFresh' /\ TasksInOrder' /\ WorkIsOnOpenRecord'
    BY <2>2, CallsInOrderNext, IDsAreFreshNext, TasksInOrderNext, WorkIsOnOpenRecordNext
  <2>3. QED BY <2>1, <2>2 DEF IInv, Quiet
<1>2. QED
  BY IInvInit, <1>1, PTL DEF Spec

(***************************************************************************)
(* In any system a handler instance runs what was asked for, with an ID a  *)
(* request has generated: never a mix of two records, never an empty one   *)
(* (provisioning.go:466-513, tasks/handler.go:32-93).                      *)
(***************************************************************************)
THEOREM RunsAreAsked == Spec => []RunsWhatWasAsked
<1>1. IInv => RunsWhatWasAsked
  BY DEF IInv, NothingIsInvented
<1>2. QED
  BY <1>1, TaskInvariant, PTL

(***************************************************************************)
(* A server's config disappears only after its destruction was requested,  *)
(* whatever overlaps, repeats, coincides or fails                          *)
(* (provisioning.go:432-461, tasks/handler.go:32-93).                      *)
(***************************************************************************)
THEOREM OnlyOnRequest == Spec => []DeletedOnlyOnRequest
<1>1. IInv => DeletedOnlyOnRequest
  BY DEF IInv, NothingIsInvented
<1>2. QED
  BY <1>1, TaskInvariant, PTL

(***************************************************************************)
(* In a quiet system no two handler instances work on one server.          *)
(***************************************************************************)
LEMMA InvariantSerializes == IInv /\ Quiet => OneRunPerServer
<1> SUFFICES ASSUME IInv, Quiet, NEW v \in Worker, NEW w \in Worker,
                    Running(v), Running(w), Target(v) = Target(w)
             PROVE  v = w
  BY DEF OneRunPerServer
<1>1. Open(worker[v].op) /\ Open(worker[w].op)
  BY DEF IInv, WorkIsOnOpenRecord, Engaged, Running
<1>2. worker[v].op = worker[w].op
  BY <1>1 DEF Open, Target
<1>3. QED
  BY <1>2 DEF IInv, TasksInOrder, Busy, Running

(***************************************************************************)
(* In a quiet system the Pulumi stack of a server has one writer, even     *)
(* when the store loses results, reports and the answers to reads          *)
(* (tasks/handler.go:49-66).                                               *)
(***************************************************************************)
THEOREM OneRun == Quiet => (Spec => []OneRunPerServer)
<1> SUFFICES ASSUME Quiet PROVE Spec => []OneRunPerServer
  OBVIOUS
<1>1. IInv => OneRunPerServer
  BY InvariantSerializes
<1>2. QED
  BY <1>1, TaskInvariant, PTL

LEMMA RunIsOpen ==
    ASSUME IInv, Quiet, NEW w \in Worker, Running(w)
    PROVE  /\ worker[w].copy.id = opID[worker[w].op]
           /\ worker[w].copy.state = "IN_PROGRESS"
<1>1. /\ worker[w].op \in Op /\ Open(worker[w].op)
      /\ worker[w].copy = record[ServerOf[worker[w].op]]
  BY DEF IInv, TasksInOrder, WorkIsOnOpenRecord, Busy, Engaged, Running, Target
<1>2. worker[w].copy.id = worker[w].op
  BY <1>1 DEF Open
<1>3. opID[worker[w].op] = worker[w].op
  BY <1>1, <1>2, NoneIsNoOp, ServerOfType DEF IInv, TypeOK, IDsAreFresh, Open
<1>4. QED
  BY <1>1, <1>2, <1>3 DEF Open, InProgress

(***************************************************************************)
(* In a quiet system a task runs the operation it was created for          *)
(* (tasks/handler.go:49-66, provisioning.go:466-470).                      *)
(***************************************************************************)
THEOREM RightOperation == Quiet => (Spec => []RunsItsOwnOperation)
<1> SUFFICES ASSUME Quiet PROVE Spec => []RunsItsOwnOperation
  OBVIOUS
<1>1. IInv => RunsItsOwnOperation
  BY RunIsOpen DEF RunsItsOwnOperation
<1>2. QED
  BY <1>1, TaskInvariant, PTL

(***************************************************************************)
(* In a quiet system a task runs its operation only while the record says  *)
(* IN_PROGRESS: a second delivery does not run it again                    *)
(* (tasks/handler.go:49-66).                                               *)
(***************************************************************************)
THEOREM OpenOperation == Quiet => (Spec => []RunsOnlyOpenOperation)
<1> SUFFICES ASSUME Quiet PROVE Spec => []RunsOnlyOpenOperation
  OBVIOUS
<1>1. IInv => RunsOnlyOpenOperation
  BY RunIsOpen DEF RunsOnlyOpenOperation
<1>2. QED
  BY <1>1, TaskInvariant, PTL

(***************************************************************************)
(* In a quiet system the stored result of an operation is final: retries   *)
(* of its task are skipped (tasks/handler.go:61-66).                       *)
(***************************************************************************)
THEOREM FinalResult == Quiet => (Spec => TerminalIsFinal)
<1> SUFFICES ASSUME Quiet PROVE Spec => TerminalIsFinal
  OBVIOUS
<1>1. IInv /\ [Next]_vars => [ResultIsFinal]_vars
  <2> SUFFICES ASSUME IInv, Next, NEW s \in Server,
                      record[s].state \in {"COMPLETED", "FAILED"},
                      record'[s].id = record[s].id
               PROVE  record'[s].state = record[s].state
    BY DEF ResultIsFinal
  <2> USE ServerOfType
  <2>1. ASSUME NEW o \in Op, Save(o) PROVE record'[s] = record[s]
    <3>1. opID[o] = None
      BY <2>1 DEF Save, IInv, NothingIsInvented, CallsHaveIDs
    <3>2. record[s].id # o
      BY <3>1, NoneIsNoOp DEF IInv, IDsAreFresh
    <3>3. s # ServerOf[o]
      BY <2>1, <3>2, SaveInQuiet DEF IInv, TypeOK
    <3>4. QED BY <2>1, <3>3, SaveInQuiet DEF IInv, TypeOK
  <2>2. ASSUME NEW w \in Worker, Report(w) \/ Complete(w) \/ Fail(w)
        PROVE  record'[s] = record[s]
    BY <2>2, RunSteps DEF Open, RecordSteps, InProgress
  <2>3. QED
    BY <2>1, <2>2, IDsEffect DEF IInv, NothingIsInvented
<1>2. QED
  BY <1>1, TaskInvariant, PTL DEF Spec, TerminalIsFinal

(***************************************************************************)
(* In a quiet system with a store that answers, a server stays locked only *)
(* while somebody is going to end its operation, or after CreateTask       *)
(* failed or the task used up its attempts                                 *)
(* (executor_cloudtasks.go:55-83).                                         *)
(***************************************************************************)
THEOREM LockIsOwned == Quiet /\ ~StoreFaults => (Spec => []LockHasOwner)
<1> SUFFICES ASSUME Quiet, ~StoreFaults PROVE Spec => []LockHasOwner
  OBVIOUS
<1>1. IInv => LockHasOwner
  <2> SUFFICES ASSUME IInv, NEW s \in Server, InProgress(s)
               PROVE  \E o \in Op : /\ ServerOf[o] = s /\ opID[o] = record[s].id
                                    /\ HasOwner(o) \/ GivenUp(o)
    BY DEF LockHasOwner
  <2> USE DEF IInv, TypeOK
  <2>1. record[s].id \in Op
    BY DEF IDsAreFresh, InProgress, Records
  <2>2. PICK o \in Op : o = record[s].id
    BY <2>1
  <2>3. ServerOf[o] = s /\ opID[o] = o /\ Open(o)
    BY <2>2, NoneIsNoOp DEF IDsAreFresh, Open
  <2>4. call[o] \in {"saved", "accepted", "refused"}
    BY <2>3, NoneIsNoOp DEF NothingIsInvented, CallsHaveIDs, CallStates
  <2>5. HasOwner(o) \/ GivenUp(o)
    BY <2>3, <2>4 DEF HasOwner, GivenUp, TasksInOrder
  <2>6. QED
    BY <2>2, <2>3, <2>5
<1>2. QED
  BY <1>1, TaskInvariant, PTL

-----------------------------------------------------------------------------
(***************************************************************************)
(* In a quiet system the Cloud Tasks executor implements SerialOperations, *)
(* the specification the goroutine executor implements as well.            *)
(***************************************************************************)
phases == [o \in Op |-> Phase(o)]

records == [s \in Server |-> [op |-> record[s].id, state |-> record[s].state]]

LEMMA SaveAccepts ==
    ASSUME IInv, Quiet, NEW o \in Op, Save(o) PROVE Serial!Accept(o)
<1> USE ServerOfType, NoneIsNoOp
<1> USE DEF IInv, TypeOK, NothingIsInvented, CallsHaveIDs, IDsAreFresh, CallsInOrder,
            InProgress, Phase
<1>1. /\ opID' = [opID EXCEPT ![o] = o] /\ opID[o] = None
      /\ record' = [record EXCEPT ![ServerOf[o]] =
                        [id |-> o, kind |-> KindOf[o], state |-> "IN_PROGRESS"]]
      /\ ~InProgress(ServerOf[o])
  BY SaveInQuiet
<1>2. Phase(o) = "new" /\ Phase(o)' = "running"
  BY <1>1
<1>3. ASSUME NEW p \in Op, p # o PROVE Phase(p)' = Phase(p)
  <2>1. opID'[p] = opID[p] /\ opID[p] \in {None, p}
    BY <1>1, <1>3
  <2>2. CASE ServerOf[p] = ServerOf[o]
    BY <1>1, <1>3, <2>1, <2>2
  <2>3. CASE ServerOf[p] # ServerOf[o]
    BY <1>1, <2>1, <2>3
  <2>4. QED BY <2>2, <2>3
<1>4. \A p \in Op : ServerOf[p] = ServerOf[o] => Phase(p) # "running"
  BY <1>1
<1> HIDE DEF Phase, IInv, TypeOK, NothingIsInvented, CallsHaveIDs, IDsAreFresh, CallsInOrder,
             InProgress
<1>5. phases' = [phases EXCEPT ![o] = "running"] /\ phases[o] = "new"
  BY <1>2, <1>3 DEF phases
<1>6. \A s \in Server : records'[s] = IF s = ServerOf[o] THEN [op |-> o, state |-> "IN_PROGRESS"]
                                      ELSE records[s]
  BY <1>1 DEF records, IInv, TypeOK
<1>7. records' = [records EXCEPT ![ServerOf[o]] = [op |-> o, state |-> "IN_PROGRESS"]]
  BY <1>6 DEF records
<1>8. QED
  BY <1>4, <1>5, <1>7 DEF Serial!Accept, Serial!Running, Serial!Stored, phases, records

LEMMA ResultIsStored ==
    ASSUME IInv, Quiet, NEW w \in Worker, NEW state \in {"COMPLETED", "FAILED"},
           Complete(w) \/ Fail(w),
           record' = [record EXCEPT ![Target(w)].state = state]
    PROVE  \E o \in Op : Serial!Store(o, state)
<1> USE ServerOfType, NoneIsNoOp
<1>0. PICK o \in Op : o = worker[w].op
  BY RunSteps DEF RecordSteps
<1>1. /\ Open(o) /\ opID' = opID /\ Target(w) = ServerOf[o] /\ ServerOf[o] \in Server
  BY <1>0, RunSteps DEF Complete, Fail
<1>2. opID[o] = o
  BY <1>1 DEF Open, IInv, IDsAreFresh, TypeOK
<1>3. /\ record'[ServerOf[o]].id = o /\ record'[ServerOf[o]].state = state
      /\ \A s \in Server \ {ServerOf[o]} : record'[s] = record[s]
  BY <1>1 DEF Open, IInv, TypeOK, Records
<1>4. Phase(o) = "running" /\ Phase(o)' = "over"
  BY <1>1, <1>2, <1>3 DEF Phase, Open, InProgress
<1>5. ASSUME NEW p \in Op, p # o PROVE Phase(p)' = Phase(p)
  <2>1. CASE ServerOf[p] = ServerOf[o]
    <3>1. opID[p] # o
      BY <1>5 DEF IInv, IDsAreFresh
    <3>2. QED BY <1>1, <1>3, <2>1, <3>1 DEF Phase, Open
  <2>2. CASE ServerOf[p] # ServerOf[o]
    BY <1>1, <1>3, <2>2 DEF Phase, InProgress
  <2>3. QED BY <2>1, <2>2
<1>6. phases' = [phases EXCEPT ![o] = "over"] /\ phases[o] = "running"
  BY <1>4, <1>5 DEF phases
<1>7. \A s \in Server : records'[s] = IF s = ServerOf[o] THEN [op |-> o, state |-> state]
                                      ELSE records[s]
  BY <1>3 DEF records
<1>8. records' = [records EXCEPT ![ServerOf[o]] = [op |-> o, state |-> state]]
  BY <1>7 DEF records
<1>9. records[ServerOf[o]].op = o /\ records[ServerOf[o]].state = "IN_PROGRESS"
  BY <1>1 DEF records, Open, InProgress
<1>10. Serial!Store(o, state)
  BY <1>6, <1>8, <1>9 DEF Serial!Store, Serial!Stored, Serial!MayFollow, phases, records
<1>11. QED BY <1>10

(***************************************************************************)
(* In a quiet system the Cloud Tasks executor implements SerialOperations, *)
(* an operation running while the record says IN_PROGRESS with its ID:     *)
(* StartOperation's write accepts, a run's last write stores, and a write  *)
(* that is lost changes nothing                                            *)
(* (executor_cloudtasks.go:41-87, provisioning.go:609-613).                *)
(***************************************************************************)
THEOREM TasksRefineSerial == Quiet => (Spec => ImplementsSerial)
<1> SUFFICES ASSUME Quiet PROVE Spec => ImplementsSerial
  OBVIOUS
<1>1. Init => Serial!Init
  BY DEF Init, Serial!Init, Serial!NoRecord, NoRecord, Phase
<1>2. IInv /\ [Next]_vars => [Serial!Next]_<<phases, records>>
  <2> SUFFICES ASSUME IInv, [Next]_vars
               PROVE  Serial!Next \/ UNCHANGED <<phases, records>>
    OBVIOUS
  <2>1. ASSUME NEW o \in Op, Save(o) PROVE Serial!Next
    BY <2>1, SaveAccepts DEF Serial!Next
  <2>2. ASSUME opID' = opID, record' = record
        PROVE  UNCHANGED <<phases, records>>
    BY <2>2 DEF phases, records, Phase, InProgress
  <2>3. ASSUME NEW w \in Worker, Report(w) PROVE opID' = opID /\ record' = record
    BY <2>3, RunSteps DEF Report
  <2>4. ASSUME NEW w \in Worker, Complete(w) \/ Fail(w)
        PROVE  Serial!Next \/ UNCHANGED <<phases, records>>
    <3>1. CASE record' = record
      BY <2>2, <2>4, <3>1 DEF Complete, Fail
    <3>2. ASSUME NEW state \in {"COMPLETED", "FAILED"},
                 record' = [record EXCEPT ![Target(w)].state = state]
          PROVE  Serial!Next
      <4>1. state \in Serial!States
        BY DEF Serial!States
      <4>2. QED BY <2>4, <3>2, <4>1, ResultIsStored DEF Serial!Next
    <3>3. QED BY <2>4, <3>1, <3>2, RunSteps
  <2>5. QED
    BY <2>1, <2>2, <2>3, <2>4, IDsEffect DEF IInv, NothingIsInvented
<1>3. QED
  BY <1>1, <1>2, TaskInvariant, PTL
     DEF Spec, ImplementsSerial, Serial!Spec, Serial!vars, phases, records

\* What is proved about the contract, for the operations of this executor.
Contract == INSTANCE SerialOperations_proofs
              WITH phase <- [o \in Op |-> Phase(o)], NoOp <- None,
                   record <- [s \in Server |-> [op |-> record[s].id, state |-> record[s].state]]

\* The two instances of SerialOperations are the same specification.
LEMMA SameContract ==
    /\ Serial!Init => Contract!Init
    /\ [Serial!Next]_Serial!vars => [Contract!Next]_Contract!vars
BY DEF Serial!Init, Contract!Init, Serial!NoRecord, Contract!NoRecord,
       Serial!Next, Contract!Next, Serial!vars, Contract!vars,
       Serial!Accept, Contract!Accept, Serial!Store, Contract!Store,
       Serial!Finish, Contract!Finish, Serial!Running, Contract!Running,
       Serial!Stored, Contract!Stored, Serial!MayFollow, Contract!MayFollow,
       Serial!States, Contract!States

(***************************************************************************)
(* So in a quiet system an operation whose record has been concluded, or   *)
(* overwritten, never comes to life again, and the state it has left stays *)
(* until a later operation's: whoever polls the status may stop at a       *)
(* result (tasks/handler.go:49-66, executor_cloudtasks.go:41-66).          *)
(***************************************************************************)
THEOREM TasksOverIsOver == Quiet => (Spec => Serial!OverIsFinal)
<1> SUFFICES ASSUME Quiet PROVE Spec => Serial!OverIsFinal
  OBVIOUS
<1>1. Contract!Spec => Contract!OverIsFinal
  BY ServerOfType, NoneIsNoOp, Contract!OverStaysOver
<1>2. Spec => Serial!Spec
  BY TasksRefineSerial DEF ImplementsSerial
<1>3. Contract!OverIsFinal => Serial!OverIsFinal
  BY PTL DEF Contract!OverIsFinal, Serial!OverIsFinal, Contract!vars, Serial!vars
<1>4. QED
  BY <1>1, <1>2, <1>3, SameContract, PTL DEF Serial!Spec, Contract!Spec
=============================================================================
