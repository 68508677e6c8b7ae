---------------------------- MODULE TaskExecutor ----------------------------
(***************************************************************************)
(* The Cloud Tasks OperationExecutor and the handler its tasks call.       *)
(*                                                                         *)
(* StartOperation (internal/services/executor_cloudtasks.go) reads the     *)
(* provisioning record of the server, refuses when it is IN_PROGRESS,      *)
(* overwrites it, and creates a task that carries the new operation ID.    *)
(* HandleProvisioningTask (internal/handlers/tasks/handler.go) skips a     *)
(* task whose ID is not the record's or whose operation is over, and       *)
(* otherwise runs whatever operation the record holds when ExecuteOperation*)
(* (internal/services/provisioning.go) reads it again.  The record is the  *)
(* only lock there is, and the store offers single-key reads and writes    *)
(* without versions, so every access is a step of its own here.            *)
(*                                                                         *)
(* An element of Op is one API request that starts an operation.  The      *)
(* queue (max_attempts, redelivery after an error or a lost response) is   *)
(* external; its retry limit is MaxAttempts.                               *)
(***************************************************************************)
EXTENDS Naturals

CONSTANTS
    Server,         \* server IDs
    Op,             \* API requests that start an operation
    ServerOf,       \* the server a request is about
    KindOf,         \* the operation it asks for
    Worker,         \* task requests the controller serves at the same time
    None,           \* no operation ID, no task
    MaxAttempts,    \* max_attempts of the queue
    SingleUser,     \* requests about one server are made one after another
    Duplicates,     \* the queue delivers a task again before it has an answer
    SameSecond,     \* IDs of consecutive operations may coincide
    BlindStarts,    \* StartOperation may be unable to read the record
    StoreFaults     \* the other reads and writes of the store may fail

Kinds == {"UPDATE", "DESTROY"}  \* UPDATE stands for CREATE and RESTORE too

ASSUME ServerOfType == ServerOf \in [Op -> Server]
ASSUME KindOfType == KindOf \in [Op -> Kinds]
ASSUME NoneIsNoOp == None \notin Op
ASSUME MaxAttemptsType == MaxAttempts \in Nat \ {0}
ASSUME SwitchesType == {SingleUser, Duplicates, SameSecond, BlindStarts, StoreFaults} \subseteq BOOLEAN

VARIABLES
    call,       \* how far StartOperation has got for each request
    opID,       \* the operation ID each request generated
    record,     \* the provisioning record of each server
    task,       \* the task of each request: in the queue, delivered or gone
    attempts,   \* how often it has been delivered
    worker,     \* the handler instances: what they run and their status copy
    config      \* the servers whose serverconfig record exists

vars == <<call, opID, record, task, attempts, worker, config>>

States == {"IN_PROGRESS", "COMPLETED", "FAILED"}
Records == [id : Op \union {None}, kind : Kinds, state : States \union {"NONE"}]
NoRecord == [id |-> None, kind |-> "UPDATE", state |-> "NONE"]

CallStates == {"new", "requested", "admitted", "saved", "accepted", "refused"}
WorkerStates == {"idle", "delivered", "checked", "loaded", "running", "tail", "ack", "nack"}
Handlers == [pc : WorkerStates, op : Op \union {None}, copy : Records]
Idle == [pc |-> "idle", op |-> None, copy |-> NoRecord]

TypeOK ==
    /\ call \in [Op -> CallStates]
    /\ opID \in [Op -> Op \union {None}]
    /\ record \in [Server -> Records]
    /\ task \in [Op -> {"none", "queued", "leased", "gone"}]
    /\ attempts \in [Op -> 0..MaxAttempts]
    /\ worker \in [Worker -> Handlers]
    /\ config \in SUBSET Server

Init ==
    /\ call = [o \in Op |-> "new"]
    /\ opID = [o \in Op |-> None]
    /\ record = [s \in Server |-> NoRecord]
    /\ task = [o \in Op |-> "none"]
    /\ attempts = [o \in Op |-> 0]
    /\ worker = [w \in Worker |-> Idle]
    /\ config = Server

InProgress(s) == record[s].state = "IN_PROGRESS"

(***************************************************************************)
(* StartOperation                                                          *)
(***************************************************************************)
Request(o) ==
    \* The API handler has found the server's config.
    /\ call[o] = "new"
    /\ ServerOf[o] \in config
    /\ SingleUser => \A p \in Op :
                         ServerOf[p] = ServerOf[o]
                             => call[p] \notin {"requested", "admitted", "saved"}
    /\ call' = [call EXCEPT ![o] = "requested"]
    /\ UNCHANGED <<opID, record, task, attempts, worker, config>>

\* A slip for the properties to catch: the record is not looked at.
AdmitAny(s) == TRUE

\* The record does not stop a new operation, and neither does one that cannot be read.
Admissible(s) == ~InProgress(s) \/ BlindStarts

Admit(o) ==
    /\ call[o] = "requested"
    /\ Admissible(ServerOf[o])
    /\ call' = [call EXCEPT ![o] = "admitted"]
    /\ UNCHANGED <<opID, record, task, attempts, worker, config>>

Refuse(o) ==
    /\ \/ call[o] = "requested" /\ InProgress(ServerOf[o])
       \/ call[o] = "admitted" /\ StoreFaults
       \/ call[o] = "saved"     \* CreateTask fails; the record stays
    /\ call' = [call EXCEPT ![o] = "refused"]
    /\ UNCHANGED <<opID, record, task, attempts, worker, config>>

\* The ID is the server ID and the time in whole seconds.
NewIDs(o) == {o} \union IF SameSecond THEN {record[ServerOf[o]].id} \ {None} ELSE {}

Save(o) ==
    /\ call[o] = "admitted"
    /\ \E id \in NewIDs(o) :
           /\ opID' = [opID EXCEPT ![o] = id]
           /\ record' = [record EXCEPT ![ServerOf[o]] =
                            [id |-> id, kind |-> KindOf[o], state |-> "IN_PROGRESS"]]
    /\ call' = [call EXCEPT ![o] = "saved"]
    /\ UNCHANGED <<task, attempts, worker, config>>

Enqueue(o) ==
    /\ call[o] = "saved"
    /\ call' = [call EXCEPT ![o] = "accepted"]
    /\ task' = [task EXCEPT ![o] = "queued"]
    /\ UNCHANGED <<opID, record, attempts, worker, config>>

(***************************************************************************)
(* The queue                                                               *)
(***************************************************************************)
Deliver(w, o) ==
    /\ worker[w].pc = "idle"
    /\ attempts[o] < MaxAttempts
    /\ task[o] = "queued" \/ (Duplicates /\ task[o] = "leased")
    /\ task' = [task EXCEPT ![o] = "leased"]
    /\ attempts' = [attempts EXCEPT ![o] = @ + 1]
    /\ worker' = [worker EXCEPT ![w] = [Idle EXCEPT !.pc = "delivered", !.op = o]]
    /\ UNCHANGED <<call, opID, record, config>>

\* The task is tried again unless it has used up its attempts.
AfterError(o) ==
    IF task[o] = "gone" \/ attempts[o] = MaxAttempts THEN "gone" ELSE "queued"

\* The handler answers 200.
Acknowledge(w) ==
    /\ worker[w].pc = "ack"
    /\ task' = [task EXCEPT ![worker[w].op] = "gone"]
    /\ worker' = [worker EXCEPT ![w] = Idle]
    /\ UNCHANGED <<call, opID, record, attempts, config>>

\* The handler answers 404 or 500.
Reject(w) ==
    /\ worker[w].pc = "nack"
    /\ task' = [task EXCEPT ![worker[w].op] = AfterError(worker[w].op)]
    /\ worker' = [worker EXCEPT ![w] = Idle]
    /\ UNCHANGED <<call, opID, record, attempts, config>>

\* The instance dies, or the dispatch deadline cancels the request context.
Crash(w) ==
    /\ worker[w].pc # "idle"
    /\ task' = [task EXCEPT ![worker[w].op] = AfterError(worker[w].op)]
    /\ worker' = [worker EXCEPT ![w] = Idle]
    /\ UNCHANGED <<call, opID, record, attempts, config>>

(***************************************************************************)
(* HandleProvisioningTask                                                  *)
(***************************************************************************)
Goto(w, pc) == worker' = [worker EXCEPT ![w].pc = pc]

Target(w) == ServerOf[worker[w].op]

\* Slips for the properties to catch: only one half of the check is made.
CurrentByID(w) == record[Target(w)].id = opID[worker[w].op]

CurrentByState(w) == InProgress(Target(w))

Current(w) ==
    /\ record[Target(w)].id = opID[worker[w].op]
    /\ InProgress(Target(w))

Check(w) ==
    /\ worker[w].pc = "delivered"
    /\ \/ Goto(w, IF Current(w) THEN "checked" ELSE "ack")
       \/ StoreFaults /\ Goto(w, "nack")
    /\ UNCHANGED <<call, opID, record, task, attempts, config>>

Load(w) ==
    /\ worker[w].pc = "checked"
    /\ \/ Goto(w, IF Target(w) \in config THEN "loaded" ELSE "nack")
       \/ StoreFaults /\ Goto(w, "nack")
    /\ UNCHANGED <<call, opID, record, task, attempts, config>>

(***************************************************************************)
(* ExecuteOperation: the record is read again and its operation is run.    *)
(* The run writes its own copy of the status back (updateStatus; an error  *)
(* of the store is only logged) and ends COMPLETED or FAILED.  A task runs *)
(* every update in place (update type 0), so COMPLETED is the last word    *)
(* except for a destroy, which deletes the server config after it.         *)
(***************************************************************************)
Begin(w) ==
    /\ worker[w].pc = "loaded"
    /\ \/ worker' = [worker EXCEPT ![w].pc = "running", ![w].copy = record[Target(w)]]
       \/ StoreFaults /\ Goto(w, "nack")
    /\ UNCHANGED <<call, opID, record, task, attempts, config>>

UpdateStatus(w, status) ==
    \/ record' = [record EXCEPT ![Target(w)] = status]
    \/ StoreFaults /\ UNCHANGED record

Report(w) ==
    /\ worker[w].pc = "running"
    /\ UpdateStatus(w, worker[w].copy)
    /\ UNCHANGED <<call, opID, task, attempts, worker, config>>

\* A slip for the properties to catch: every operation takes a destroy's tail.
TailAlways(kind) == "tail"

AfterCompleted(kind) == IF kind = "DESTROY" THEN "tail" ELSE "ack"

\* A slip for the properties to catch: the result is not stored.
LoseResult(w, state) == UNCHANGED record

StoreResult(w, state) == UpdateStatus(w, [worker[w].copy EXCEPT !.state = state])

Complete(w) ==
    /\ worker[w].pc = "running"
    /\ StoreResult(w, "COMPLETED")
    /\ Goto(w, AfterCompleted(worker[w].copy.kind))
    /\ UNCHANGED <<call, opID, task, attempts, config>>

Fail(w) ==
    /\ worker[w].pc = "running"
    /\ StoreResult(w, "FAILED")     \* handleError
    /\ Goto(w, "nack")
    /\ UNCHANGED <<call, opID, task, attempts, config>>

DeleteConfig(w) ==
    /\ worker[w].pc = "tail"
    /\ Goto(w, "ack")
    /\ \/ config' = config \ {Target(w)}
       \/ StoreFaults /\ UNCHANGED config
    /\ UNCHANGED <<call, opID, record, task, attempts>>

Calls(o) == Request(o) \/ Admit(o) \/ Refuse(o) \/ Save(o) \/ Enqueue(o)

Handler(w) ==
    \/ Check(w) \/ Load(w) \/ Begin(w)
    \/ Complete(w) \/ Fail(w) \/ DeleteConfig(w)
    \/ Acknowledge(w) \/ Reject(w)

Next ==
    \/ \E o \in Op : Calls(o)
    \/ \E w \in Worker : \/ \E o \in Op : Deliver(w, o)
                         \/ Handler(w)
                         \/ Report(w)
                         \/ Crash(w)

Spec == Init /\ [][Next]_vars

(***************************************************************************)
(* The queue dispatches what it holds and Cloud Run serves the request:    *)
(* a worker that can take a step other than one more Report takes one, and *)
(* a task that stays deliverable is delivered.                             *)
(***************************************************************************)
Fairness ==
    /\ \A w \in Worker : WF_vars(Handler(w))
    /\ \A o \in Op : WF_vars(\E w \in Worker : Deliver(w, o))

FairSpec == Spec /\ Fairness

-----------------------------------------------------------------------------
(***************************************************************************)
(* The inductive invariant.  Some of it holds in any system, and some in a *)
(* quiet one: one user per server, no duplicate delivery, distinct IDs, and*)
(* a StartOperation that can read the record.                              *)
(***************************************************************************)
Quiet == SingleUser /\ ~Duplicates /\ ~SameSecond /\ ~BlindStarts

Starting(o) == call[o] \in {"requested", "admitted", "saved"}

\* The record is locked by request o.
Open(o) == record[ServerOf[o]].id = o /\ InProgress(ServerOf[o])

Busy(w) == worker[w].pc # "idle"

\* The handler has passed the check of the operation ID.
Engaged(w) == worker[w].pc \in {"checked", "loaded", "running"}

CallsInOrder ==
    /\ \A o, p \in Op :
           Starting(o) /\ Starting(p) /\ ServerOf[o] = ServerOf[p] => o = p
    /\ \A o \in Op : call[o] = "admitted" => ~InProgress(ServerOf[o])

IDsAreFresh ==
    /\ \A o \in Op : /\ opID[o] \in {None, o}
                     /\ call[o] \in {"saved", "accepted"} => opID[o] = o
    /\ \A s \in Server :
           IF record[s].id = None THEN record[s].state = "NONE"
           ELSE ServerOf[record[s].id] = s /\ opID[record[s].id] = record[s].id

TasksInOrder ==
    /\ \A o \in Op : (task[o] # "none") <=> (call[o] = "accepted")
    /\ \A w \in Worker : Busy(w) => worker[w].op \in Op /\ task[worker[w].op] = "leased"
    /\ \A v, w \in Worker :
           Busy(v) /\ Busy(w) /\ worker[v].op = worker[w].op => v = w
    /\ \A o \in Op : task[o] = "gone" => attempts[o] = MaxAttempts \/ ~Open(o) \/ StoreFaults

WorkIsOnOpenRecord ==
    \A w \in Worker :
        /\ Engaged(w) => Open(worker[w].op)
        /\ worker[w].pc = "running" => worker[w].copy = record[Target(w)]
        /\ worker[w].pc \in {"tail", "ack"} => ~Open(worker[w].op) \/ StoreFaults

Running(w) == worker[w].pc = "running"

\* A request about server s for an operation of this kind has generated this ID.
Asked(s, id, kind) ==
    id # None /\ \E o \in Op : ServerOf[o] = s /\ opID[o] = id /\ KindOf[o] = kind

(***************************************************************************)
(* What a handler instance runs on a server is what a request has asked    *)
(* for on that server: neither a mix of two records nor an empty one is    *)
(* ever executed, whatever operations overlap, repeat or fail.             *)
(***************************************************************************)
RunsWhatWasAsked ==
    \A w \in Worker :
        Running(w) => Asked(Target(w), worker[w].copy.id, worker[w].copy.kind)

DestroyAsked(s) == \E o \in Op : ServerOf[o] = s /\ KindOf[o] = "DESTROY" /\ opID[o] # None

(***************************************************************************)
(* A server's config disappears only when somebody has asked for its       *)
(* destruction, whatever operations overlap, repeat or fail.               *)
(***************************************************************************)
DeletedOnlyOnRequest == \A s \in Server \ config : DestroyAsked(s)

\* A call generates one ID, stores it in the record, and then creates its task.
CallsHaveIDs ==
    \A o \in Op : /\ call[o] \in {"new", "requested", "admitted"} => opID[o] = None
                  /\ call[o] \in {"saved", "accepted"} => opID[o] # None
                  /\ task[o] # "none" => call[o] = "accepted"
                  /\ opID[o] # None => record[ServerOf[o]].id # None

RecordsAreAsked ==
    \A s \in Server : record[s].id # None => Asked(s, record[s].id, record[s].kind)

HandlersHaveTasks ==
    \A w \in Worker :
        /\ Busy(w) => worker[w].op \in Op /\ task[worker[w].op] # "none"
        /\ worker[w].pc = "tail" => DestroyAsked(Target(w))

NothingIsInvented ==
    /\ CallsHaveIDs /\ RecordsAreAsked /\ HandlersHaveTasks
    /\ RunsWhatWasAsked /\ DeletedOnlyOnRequest

IInv ==
    /\ TypeOK /\ NothingIsInvented
    /\ Quiet => CallsInOrder /\ IDsAreFresh /\ TasksInOrder /\ WorkIsOnOpenRecord

-----------------------------------------------------------------------------

(***************************************************************************)
(* No two handler instances do infrastructure work on one server at the    *)
(* same time: the Pulumi stack of a server has one writer.                 *)
(***************************************************************************)
OneRunPerServer ==
    \A v, w \in Worker :
        Running(v) /\ Running(w) /\ Target(v) = Target(w) => v = w

(***************************************************************************)
(* A task runs the operation it was created for, never the operation that  *)
(* has replaced it in the record.                                          *)
(***************************************************************************)
RunsItsOwnOperation ==
    \A w \in Worker : Running(w) => worker[w].copy.id = opID[worker[w].op]

(***************************************************************************)
(* A task whose operation is over is not executed: the run starts from a   *)
(* record that is still IN_PROGRESS.                                       *)
(***************************************************************************)
RunsOnlyOpenOperation ==
    \A w \in Worker : Running(w) => worker[w].copy.state = "IN_PROGRESS"

(***************************************************************************)
(* COMPLETED and FAILED are final: a retry of the task, or a delivery that *)
(* was under way, never takes an operation's stored result back.           *)
(***************************************************************************)
ResultIsFinal ==
    \A s \in Server :
        record[s].state \in {"COMPLETED", "FAILED"} /\ record'[s].id = record[s].id
            => record'[s].state = record[s].state

TerminalIsFinal == [][ResultIsFinal]_vars

(***************************************************************************)
(* A record IN_PROGRESS has somebody who will end it (the StartOperation   *)
(* that is about to create its task, or the task), unless CreateTask       *)
(* failed or the task has used up its attempts.  Those two leave the       *)
(* server locked.                                                          *)
(***************************************************************************)
HasOwner(o) == call[o] = "saved" \/ task[o] \in {"queued", "leased"}

GivenUp(o) == call[o] = "refused" \/ attempts[o] = MaxAttempts

LockHasOwner ==
    \A s \in Server :
        InProgress(s) => \E o \in Op : /\ ServerOf[o] = s
                                       /\ opID[o] = record[s].id
                                       /\ HasOwner(o) \/ GivenUp(o)

(***************************************************************************)
(* Every accepted operation is resolved: its result is stored, or its task *)
(* has been delivered MaxAttempts times.                                   *)
(***************************************************************************)
Resolved(o) ==
    \/ record[ServerOf[o]].id # opID[o]
    \/ ~InProgress(ServerOf[o])
    \/ attempts[o] = MaxAttempts /\ task[o] = "gone"

AcceptedIsResolved == \A o \in Op : (call[o] = "accepted") ~> Resolved(o)

(***************************************************************************)
(* The record as a lock: the executor implements SerialOperations, an      *)
(* operation running while the record says IN_PROGRESS with its ID.        *)
(***************************************************************************)
Phase(o) ==
    IF opID[o] = None THEN "new"
    ELSE IF record[ServerOf[o]].id = opID[o] /\ InProgress(ServerOf[o]) THEN "running"
    ELSE "over"

Serial == INSTANCE SerialOperations
              WITH phase <- [o \in Op |-> Phase(o)], NoOp <- None,
                   record <- [s \in Server |-> [op |-> record[s].id, state |-> record[s].state]]

ImplementsSerial == Serial!Spec
=============================================================================
