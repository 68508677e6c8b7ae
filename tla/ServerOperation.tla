-------------------------- MODULE ServerOperation --------------------------
(***************************************************************************)
(* The provisioning operations of one server, call by call                 *)
(* (internal/services/provisioning.go), with the Pulumi program they       *)
(* deploy (internal/pulumi) and the machine that comes of it.              *)
(*                                                                         *)
(* An accepted request runs one flow: a fixed order of calls, each of      *)
(* which may fail.  pc is the call under way.  The goroutine executor runs *)
(* the program config the request was made with; a Cloud Task builds it    *)
(* again from the stored config when it is delivered, and runs every       *)
(* update in place.                                                        *)
(*                                                                         *)
(* The user-data of the machine is a record of what it is rendered from;   *)
(* changing any of it replaces the machine, deleting the old one first.    *)
(***************************************************************************)
EXTENDS Naturals

CONSTANTS
    Machine,        \* machine types
    Game,           \* Minecraft versions and modpacks
    Backup,         \* backup settings
    Default,        \* the backup settings of a server without an override
    Created,        \* the machine type and game a server is created with
    Executors,      \* the executors to look at: "local", "cloud"
    RetryAttempts,  \* ProvisioningService.retryAttempts
    MaxRequests,    \* bound on the accepted requests
    MaxDeliveries,  \* max_attempts of the queue
    MaxRelease      \* bound on the infrastructure version

ASSUME DefaultIsBackup == Default \in Backup
ASSUME CreatedType == Created \in [machine : Machine, game : Game]
ASSUME ExecutorsType == Executors \subseteq {"local", "cloud"}
ASSUME BoundsType == {RetryAttempts, MaxRequests, MaxDeliveries, MaxRelease} \subseteq Nat \ {0}

VARIABLES
    executor,   \* which executor the controller uses
    release,    \* CurrentInfraVersion of the controller
    config,     \* the stored server config
    stack,      \* the Pulumi stack: does it exist, machine type, user-data
    vm,         \* the machine: "none", "off" or "on"
    world,      \* the data disk
    record,     \* the provisioning record: which operation, which state
    op,         \* the operation under way, or the last one
    pc,         \* its call under way; "idle" when there is none
    tries,      \* attempts of the retry loop so far
    live,       \* the operation's context has not expired
    forgetting, \* a task that destroyed the server has yet to delete its config
    asked,      \* accepted requests so far
    deliveries, \* of the operation's task
    saved,      \* the agent has acknowledged this operation's world save
    owed,       \* this operation has stopped the machine and not restarted it
    drifted     \* a refused request has changed the config since acceptance

server == <<config, stack, vm, world>>
progress == <<record, op, pc, tries, live, forgetting, deliveries>>
history == <<saved, owed, drifted>>
vars == <<executor, release, server, progress, asked, history>>

Absent == [present |-> FALSE]
Configs == [present : {TRUE}, machine : Machine, game : Game, backup : Backup,
            infra : 0..MaxRelease]

NoVM == [vm |-> FALSE]
UserData == [vm : {TRUE}, game : Game, backup : Backup, release : 1..MaxRelease,
             token : {"old", "new"}, restore : BOOLEAN]
NoStack == [exists |-> FALSE, machine |-> Created.machine, data |-> NoVM]
EmptyStack == [NoStack EXCEPT !.exists = TRUE]
Stacks == [exists : BOOLEAN, machine : Machine, data : UserData \union {NoVM}]

Changes == {"inplace", "resize", "recreate", "agent"}
Kinds == Changes \union {"create", "destroy", "restore"}
Flows == {"create", "inplace", "resize", "recreate", "destroy", "restore"}

Programs == [machine : Machine, game : Game, backup : Backup, restore : BOOLEAN]
Operations == [kind : Kinds, flow : Flows, wanted : Configs, restore : BOOLEAN,
               program : Programs]

Calls == {"list", "upsert", "refresh", "up", "stamp", "stop", "start", "recover", "save",
          "restore", "health", "destroy", "forget"}
States == {"NONE", "IN_PROGRESS", "COMPLETED", "FAILED"}

TypeOK ==
    /\ executor \in {"local", "cloud"} /\ release \in 1..MaxRelease
    /\ config \in Configs \union {Absent}
    /\ stack \in Stacks
    /\ vm \in {"none", "off", "on"}
    /\ world \in {"none", "empty", "own", "restored"}
    /\ record \in [by : 0..MaxRequests, state : States]
    /\ op \in Operations
    /\ pc \in Calls \union {"idle", "queued"}
    /\ tries \in 0..RetryAttempts /\ live \in BOOLEAN /\ forgetting \in BOOLEAN
    /\ asked \in 0..MaxRequests /\ deliveries \in 0..MaxDeliveries
    /\ saved \in BOOLEAN /\ owed \in BOOLEAN /\ drifted \in BOOLEAN

(***************************************************************************)
(* The program config and what it renders to                               *)
(***************************************************************************)
\* A slip for the properties to catch: the settings are never passed on.
NoBackup(c, kind) == Default

\* HandleUpdateAgent assembles a program config of its own, without settings.
BackupOf(c, kind) == IF kind = "agent" /\ executor = "local" THEN Default ELSE c.backup

Program(c, kind, restore) ==
    [machine |-> c.machine, game |-> c.game, backup |-> BackupOf(c, kind),
     restore |-> restore]

\* MintToken makes a new token for every operation: the machine's is an old one.
MintToken == stack' = IF stack.data.vm THEN [stack EXCEPT !.data.token = "old"] ELSE stack

Render(p) ==
    [vm |-> TRUE, game |-> p.game, backup |-> p.backup, release |-> release,
     token |-> "new", restore |-> p.restore]

(***************************************************************************)
(* What a boot makes of the data disk.  The restore unit runs until it has *)
(* succeeded once, and Minecraft waits for it; without the unit Minecraft  *)
(* starts and generates a world when there is none.                        *)
(***************************************************************************)
Boots(w, data) ==
    IF data.restore /\ w # "restored" THEN {w, "restored"}
    ELSE IF w = "empty" THEN {"own"}
    ELSE {w}

Disk == IF world = "none" THEN "empty" ELSE world

(***************************************************************************)
(* The flows                                                               *)
(***************************************************************************)
Flow(kind) ==
    IF kind \notin Changes THEN kind
    ELSE IF executor = "cloud" \/ kind = "agent" THEN "inplace"
    ELSE kind

\* Every flow but an update in place first lists its steps in the record.
First(flow) == IF flow = "inplace" THEN "upsert" ELSE "list"

AfterCall(flow, call) ==
    CASE call = "list" -> CASE flow = "create" -> "upsert"
                            [] flow = "resize" -> "stop"
                            [] flow = "destroy" -> "destroy"
                            [] OTHER -> "save"
      [] call = "stop" -> "upsert"
      [] call = "save" -> IF flow = "restore" THEN "restore" ELSE "upsert"
      [] call = "upsert" -> IF flow = "create" THEN "up" ELSE "refresh"
      [] call = "refresh" -> "up"
      [] call = "up" -> "stamp"
      [] call = "stamp" -> IF flow = "resize" THEN "start"
                           ELSE IF flow = "recreate" THEN "health" ELSE "idle"
      [] call \in {"start", "restore"} -> "health"
      [] OTHER -> "idle"

\* Slips for the properties to catch: an error ends every flow at once, or a save
\* that failed does not.
NoRecovery(call) == "idle"

SaveOrNot(call) == IF call = "save" THEN AfterCall(op.flow, call) ELSE "idle"

\* A resize that has stopped the machine starts it again when it fails; a
\* failed task is delivered again.
AfterError(call) ==
    IF op.flow = "resize" /\ call \in {"upsert", "up", "stamp"} THEN "recover"
    ELSE IF executor = "cloud" /\ deliveries < MaxDeliveries THEN "queued"
    ELSE "idle"

(***************************************************************************)
(* updateStatus: an error of the store is only logged.                     *)
(***************************************************************************)
UpdateStatus(state) ==
    \/ live /\ record' = [by |-> asked, state |-> state]
    \/ UNCHANGED record

\* A slip for the properties to catch: the restart of a resize is progress again.
ProgressAgain(call) ==
    IF call \in {"stamp", "health", "destroy"} THEN "COMPLETED" ELSE "IN_PROGRESS"

\* An update is COMPLETED once it is deployed and stamped, a restore with its
\* health check.
StateAfter(call) ==
    IF call \in {"stamp", "start", "health", "destroy"} THEN "COMPLETED" ELSE "IN_PROGRESS"

\* The call succeeded and the next one is made.
Advance(call) ==
    /\ UpdateStatus(StateAfter(call))
    /\ pc' = AfterCall(op.flow, call)

\* handleError
Fail(call) ==
    /\ UpdateStatus("FAILED")
    /\ pc' = AfterError(call)

Init ==
    /\ executor \in Executors /\ release = 1
    /\ config = Absent /\ stack = NoStack /\ vm = "none" /\ world = "none"
    /\ record = [by |-> 0, state |-> "NONE"]
    /\ LET c == [present |-> TRUE, machine |-> Created.machine, game |-> Created.game,
                 backup |-> Default, infra |-> 0]
       IN op = [kind |-> "create", flow |-> "create", wanted |-> c, restore |-> FALSE,
                program |-> [machine |-> c.machine, game |-> c.game, backup |-> Default,
                             restore |-> FALSE]]
    /\ pc = "idle" /\ tries = 0 /\ live = TRUE /\ forgetting = FALSE
    /\ asked = 0 /\ deliveries = 0
    /\ saved = FALSE /\ owed = FALSE /\ drifted = FALSE

(***************************************************************************)
(* Requests.  The executor admits one operation at a time.                 *)
(***************************************************************************)
Admits == pc = "idle" /\ (executor = "cloud" => record.state # "IN_PROGRESS")

\* A slip for the properties to catch: nothing is left for the task to read.
NoRestoreOutputs(restore) == FALSE

\* CreateServerFromBackup puts the snapshot into the status outputs, from where
\* ExecuteOperation takes it; the goroutine has it in its program config.
RestoreOutputs(restore) == restore

Accept(kind, wanted, restore) ==
    /\ asked < MaxRequests /\ Admits
    /\ asked' = asked + 1
    /\ op' = [kind |-> kind, flow |-> Flow(kind), wanted |-> wanted, restore |-> restore,
              program |-> Program(wanted, kind, restore)]
    /\ MintToken
    /\ IF executor = "local"
       THEN pc' = First(Flow(kind)) /\ UNCHANGED record
       ELSE pc' = "queued" /\ record' = [by |-> asked + 1, state |-> "IN_PROGRESS"]
    /\ config' = wanted
    /\ tries' = 0 /\ live' = TRUE /\ deliveries' = 0
    /\ saved' = FALSE /\ owed' = FALSE /\ drifted' = FALSE
    /\ UNCHANGED <<executor, release, vm, world, forgetting>>

\* CreateServer and CreateServerFromBackup.
Create ==
    /\ asked = 0
    /\ \E restore \in BOOLEAN :
           Accept("create", [present |-> TRUE, machine |-> Created.machine,
                             game |-> Created.game, backup |-> Default, infra |-> 0], restore)

\* The config a PATCH, the backup settings or the agent update ask for, and the
\* update type classifyUpdate derives from the fields of the request.
Wanted(kind) ==
    CASE kind = "recreate" -> {c \in Configs : c.backup = config.backup /\ c.infra = config.infra}
      [] kind = "resize" -> {[config EXCEPT !.machine = m] : m \in Machine}
      [] kind = "inplace" -> {[config EXCEPT !.backup = b] : b \in Backup}
      [] kind = "agent" -> {config}

Update ==
    /\ config # Absent
    /\ \E kind \in Changes : \E wanted \in Wanted(kind) : Accept(kind, wanted, FALSE)

DestroyServer == config # Absent /\ Accept("destroy", config, FALSE)

RestoreServer == config # Absent /\ Accept("restore", config, FALSE)

\* A PATCH that is refused with 409 has stored the new config by then.  One per
\* operation is enough to change either field.
Refused ==
    /\ ~Admits /\ config # Absent /\ ~drifted
    /\ \E kind \in {"recreate", "resize"} : config' \in Wanted(kind) \ {config}
    /\ drifted' = TRUE
    /\ UNCHANGED <<executor, release, stack, vm, world, progress, asked, saved, owed>>

(***************************************************************************)
(* HandleProvisioningTask and ExecuteOperation.  A task whose operation is *)
(* over, or whose server has no config, does nothing.                      *)
(***************************************************************************)
Skip ==
    /\ pc = "queued"
    /\ record.state # "IN_PROGRESS" \/ config = Absent
    /\ pc' = "idle"
    /\ UNCHANGED <<executor, release, server, record, op, tries, live, forgetting,
                   asked, deliveries, history>>

Deliver ==
    /\ pc = "queued" /\ record.state = "IN_PROGRESS" /\ config # Absent
    /\ deliveries' = deliveries + 1
    /\ MintToken
    /\ op' = [op EXCEPT !.program = Program(config, op.kind, RestoreOutputs(op.restore))]
    /\ pc' = First(op.flow)
    /\ tries' = 0 /\ live' = TRUE
    /\ saved' = FALSE /\ owed' = FALSE
    /\ UNCHANGED <<executor, release, config, vm, world, record, forgetting, asked, drifted>>

(***************************************************************************)
(* The calls.  With an expired context every call fails.                   *)
(***************************************************************************)
Context == <<executor, release, op, live, forgetting, asked, deliveries, drifted>>

\* Calls whose failure is only logged.
Ignored ==
    /\ pc \in {"list", "refresh", "health"}
    /\ Advance(pc)
    /\ UNCHANGED <<Context, server, tries, saved, owed>>

UpsertStack ==
    /\ pc = "upsert"
    /\ \/ live /\ stack' = [stack EXCEPT !.exists = TRUE] /\ Advance(pc)
       \/ UNCHANGED stack /\ Fail(pc)
    /\ UNCHANGED <<Context, config, vm, world, tries, saved, owed>>

\* TriggerWorldSave or TriggerRestore, and WaitForCommandAck.
SaveWorld ==
    /\ pc = "save"
    /\ \/ live /\ saved' = TRUE /\ Advance(pc)
       \/ UNCHANGED saved /\ Fail(pc)
    /\ UNCHANGED <<Context, server, tries, owed>>

RestoreWorld ==
    /\ pc = "restore"
    /\ \/ live /\ vm = "on" /\ world' = "restored" /\ Advance(pc)
       \/ world' \in {world, "restored"} /\ (vm # "on" => UNCHANGED world) /\ Fail(pc)
    /\ UNCHANGED <<Context, config, stack, vm, tries, saved, owed>>

\* The answer of compute may be lost: the machine stops, the call has failed.
StopInstance ==
    /\ pc = "stop"
    /\ \/ live /\ vm # "none" /\ vm' = "off" /\ owed' = TRUE /\ Advance(pc)
       \/ vm' \in {vm, IF vm = "on" THEN "off" ELSE vm} /\ UNCHANGED owed /\ Fail(pc)
    /\ UNCHANGED <<Context, config, stack, world, tries, saved>>

Boot == vm' = "on" /\ world' \in Boots(world, stack.data)

\* Called when the update is done, and when it has failed.
StartInstance ==
    /\ pc \in {"start", "recover"}
    /\ owed' = FALSE
    /\ \/ live /\ vm = "off" /\ Boot
       \/ UNCHANGED <<vm, world>>
    /\ \/ pc = "start" /\ live /\ vm' = "on" /\ Advance(pc)
       \/ pc = "start" /\ Fail(pc)
       \/ pc = "recover" /\ pc' = "idle" /\ UNCHANGED record
    /\ UNCHANGED <<Context, config, stack, tries, saved>>

(***************************************************************************)
(* One attempt of the retry loop around Pulumi.  Up replaces the machine   *)
(* when the user-data differs, deleting before creating, and can fail      *)
(* before, between and after the two.                                      *)
(***************************************************************************)
Deploy ==
    LET data == Render(op.program)
    IN IF stack.data = data
       THEN stack' = [stack EXCEPT !.machine = op.program.machine] /\ UNCHANGED <<vm, world>>
       ELSE /\ stack' = [exists |-> TRUE, machine |-> op.program.machine, data |-> data]
            /\ vm' = "on"
            /\ world' \in Boots(Disk, data)

DeleteMachine ==
    /\ stack' = [stack EXCEPT !.data = NoVM]
    /\ vm' = "none"
    /\ UNCHANGED world

TearDown ==
    /\ stack.exists
    /\ stack' = NoStack /\ vm' = "none" /\ world' = "none"

CanTry == live /\ tries < RetryAttempts

\* A slip for the properties to catch: the loop starts over after its last attempt.
StartOver == (tries + 1) % RetryAttempts

CountTry == tries + 1

\* A transient error: the loop goes on.
TryAgain == tries' = CountTry /\ UNCHANGED <<pc, record>>

UpStack ==
    /\ pc = "up" /\ CanTry
    /\ \/ Deploy /\ Advance(pc) /\ tries' = 0
       \/ /\ \/ Deploy
             \/ stack.data # Render(op.program) /\ DeleteMachine
             \/ UNCHANGED <<stack, vm, world>>
          /\ TryAgain \/ (Fail(pc) /\ tries' = 0)
    \* The machine runs again once it has been replaced.
    /\ owed' = (owed /\ vm' = "off")
    /\ UNCHANGED <<Context, config, saved>>

\* A slip for the properties to catch: an error does not end the destruction.
ForgetAnyway(call) ==
    /\ UpdateStatus("FAILED")
    /\ pc' = "forget"

FailDestroy(call) == Fail(call)

\* DestroyStack cannot select a stack that is gone, and fails.
DestroyStack ==
    /\ pc = "destroy" /\ CanTry
    /\ \/ /\ TearDown /\ UpdateStatus(StateAfter(pc)) /\ tries' = 0
          /\ pc' = IF executor = "local" THEN "forget" ELSE "idle"
          /\ forgetting' = (executor = "cloud")
       \/ /\ TearDown \/ DeleteMachine \/ UNCHANGED <<stack, vm, world>>
          /\ TryAgain \/ (FailDestroy(pc) /\ tries' = 0)
          /\ UNCHANGED forgetting
    /\ UNCHANGED <<executor, release, op, live, asked, deliveries, drifted,
                   config, saved, owed>>

GiveUp ==
    /\ pc \in {"up", "destroy"} /\ ~CanTry
    /\ Fail(pc) /\ tries' = 0
    /\ UNCHANGED <<Context, server, saved, owed>>

\* DeleteServerConfig, after COMPLETED has been stored.
Forget ==
    /\ pc = "forget" \/ forgetting
    /\ config' \in {config, Absent}
    /\ pc' = IF pc = "forget" THEN "idle" ELSE pc
    /\ forgetting' = FALSE
    /\ UNCHANGED <<executor, release, stack, vm, world, record, op, tries, live,
                   asked, deliveries, history>>

\* A slip for the properties to catch: the wrong version is stamped.
StampNext == release + 1

Stamped == release

\* stampServerConfig.  A resize is COMPLETED here, before the machine is started.
StampServerConfig ==
    /\ pc = "stamp"
    /\ \/ /\ live /\ config # Absent
          /\ config' = [config EXCEPT !.infra = Stamped]
          /\ Advance(pc)
       \/ UNCHANGED config /\ Fail(pc)
    /\ UNCHANGED <<Context, stack, vm, world, tries, saved, owed>>

Step ==
    \/ Ignored \/ UpsertStack \/ SaveWorld \/ RestoreWorld \/ StopInstance \/ StartInstance
    \/ UpStack \/ DestroyStack \/ GiveUp \/ StampServerConfig \/ Forget

(***************************************************************************)
(* The surroundings                                                        *)
(***************************************************************************)
Others == <<executor, asked, saved, drifted, config, op, record>>

\* The operation timeout, or the dispatch deadline of the task.
Timeout ==
    /\ pc \notin {"idle", "queued"} /\ live
    /\ live' = FALSE
    /\ UNCHANGED <<Others, release, stack, vm, world, pc, tries, forgetting, deliveries, owed>>

\* The controller dies.  The queue delivers its task again.
Crash ==
    /\ pc \notin {"idle", "queued"} \/ forgetting
    /\ pc' = IF pc \in {"idle", "queued"} THEN pc
             ELSE IF executor = "cloud" /\ deliveries < MaxDeliveries THEN "queued"
             ELSE "idle"
    /\ forgetting' = FALSE /\ owed' = FALSE /\ saved' = FALSE
    /\ tries' = 0 /\ live' = TRUE
    /\ UNCHANGED <<executor, release, server, record, op, asked, deliveries, drifted>>

\* A new controller is installed.
Upgrade ==
    /\ pc \in {"idle", "queued"} /\ ~forgetting /\ release < MaxRelease
    /\ release' = release + 1
    /\ UNCHANGED <<Others, stack, vm, world, pc, tries, live, forgetting, deliveries, owed>>

\* Preemption, the shutdown policy, StopServerByID.
VMStops ==
    /\ vm = "on" /\ vm' = "off"
    /\ UNCHANGED <<Others, release, stack, world, pc, tries, live, forgetting, deliveries, owed>>

\* StartServerByID
VMStarts ==
    /\ vm = "off" /\ Boot
    /\ UNCHANGED <<Others, release, stack, pc, tries, live, forgetting, deliveries, owed>>

\* tools/pulumi-cleanup: the stack of a failed operation is removed by hand.
OperatorCleansUp ==
    /\ pc = "idle" /\ record.state = "FAILED"
    /\ TearDown
    /\ UNCHANGED <<Others, release, pc, tries, live, forgetting, deliveries, owed>>

Requests == Create \/ Update \/ DestroyServer \/ RestoreServer \/ Refused

Surroundings == Timeout \/ Crash \/ Upgrade \/ VMStops \/ VMStarts \/ OperatorCleansUp

Next == Requests \/ Skip \/ Deliver \/ Step \/ Surroundings

Spec == Init /\ [][Next]_vars

(***************************************************************************)
(* Every call returns, and the queue dispatches what it holds.             *)
(***************************************************************************)
Fairness == WF_vars(Step) /\ WF_vars(Skip \/ Deliver)

FairSpec == Spec /\ Fairness

-----------------------------------------------------------------------------
(***************************************************************************)
(* The inductive invariant                                                 *)
(***************************************************************************)
Running == pc \notin {"idle", "queued"}

Deploys == op.kind \in Changes \union {"create"}

CallsOf(flow) ==
    CASE flow = "create" -> {"list", "upsert", "up", "stamp"}
      [] flow = "inplace" -> {"upsert", "refresh", "up", "stamp"}
      [] flow = "resize" -> {"list", "stop", "upsert", "refresh", "up", "stamp", "start",
                             "recover", "health"}
      [] flow = "recreate" -> {"list", "save", "upsert", "refresh", "up", "stamp", "health"}
      [] flow = "destroy" -> {"list", "destroy", "forget"}
      [] flow = "restore" -> {"list", "save", "restore", "health"}

CallBelongsToFlow ==
    /\ op.flow = Flow(op.kind)
    /\ Running => pc \in CallsOf(op.flow)
    /\ pc = "queued" \/ forgetting => executor = "cloud"
    /\ pc = "forget" => executor = "local"

\* The machine exists exactly when the stack has it.
MachineIsInStack ==
    /\ stack.data.vm <=> vm # "none"
    /\ stack.data.vm => stack.exists
    /\ pc = "forget" => ~stack.exists

Bounded == pc = "queued" => deliveries < MaxDeliveries

SavedBefore ==
    /\ op.flow = "recreate" /\ pc \in {"upsert", "refresh", "up", "stamp", "health"} => saved
    /\ op.flow = "restore" /\ pc \in {"restore", "health"} => saved

OwedDuringResize ==
    owed => /\ op.flow = "resize"
            /\ pc \in {"upsert", "refresh", "up", "stamp", "start", "recover"}

Same(c, d) == c.machine = d.machine /\ c.game = d.game /\ c.backup = d.backup

ConfigIsWanted ==
    /\ asked > 0 /\ config # Absent /\ ~drifted => Same(config, op.wanted)
    /\ Running /\ ~drifted => op.program = Program(op.wanted, op.kind, op.program.restore)

VersionsInOrder ==
    /\ config # Absent => config.infra <= release
    /\ stack.data.vm => stack.data.release <= release
    /\ pc = "stamp" => stack.data.vm /\ stack.data.release = release

RestoreInOrder ==
    /\ asked = 0 => pc = "idle" /\ vm = "none" /\ world = "none"
    /\ asked = 1 /\ op.restore => /\ op.kind = "create"
                                 /\ (Running => op.program.restore)
                                 /\ (stack.data.vm => stack.data.restore)

(***************************************************************************)
(* A recreate or a restore does not touch the machine or its world before  *)
(* the agent has acknowledged the world save of this very operation.       *)
(***************************************************************************)
Overwrites ==
    \/ (op.flow = "recreate" /\ pc = "up" /\ stack' # stack)
    \/ (pc = "restore" /\ world' = "restored" /\ world # "restored")

SavesFirst == [][Overwrites => saved]_vars

(***************************************************************************)
(* A resize that has stopped the machine tries to start it again before it *)
(* ends, however it ends, unless the controller dies.                      *)
(***************************************************************************)
RestartIsTried == owed => pc \notin {"idle", "queued"}

(***************************************************************************)
(* When a create or an update is COMPLETED, what is deployed is what was   *)
(* asked for; except the settings after an agent update of the goroutine   *)
(* executor, and a queued update that picked up a refused request's config.*)
(***************************************************************************)
Deployed(c) ==
    /\ stack.machine = c.machine
    /\ stack.data.vm
    /\ stack.data.game = c.game
    /\ (op.kind = "agent" /\ executor = "local") \/ stack.data.backup = c.backup

CompletedIsWanted ==
    record.by = asked /\ record.state = "COMPLETED" /\ Deploys
        => drifted \/ Deployed(op.wanted)

(***************************************************************************)
(* The server created from a backup boots with the restore, on both        *)
(* executors and after every retry: Minecraft does not start without it.   *)
(***************************************************************************)
FirstBootRestores == asked = 1 /\ op.restore => world # "own"

(***************************************************************************)
(* A config is stamped with an infrastructure version only when the        *)
(* machine has been deployed by a controller of at least that version:     *)
(* a server is never shown as up to date when it is not.                   *)
(***************************************************************************)
StampedIsDeployed ==
    config # Absent /\ stack.data.vm => config.infra <= stack.data.release

(***************************************************************************)
(* The config of a server, the only handle on its infrastructure, is not   *)
(* deleted while the infrastructure exists (goroutine executor; a task     *)
(* deletes it after it has given up the lock).                             *)
(***************************************************************************)
DeletedLeavesNothing ==
    [][executor = "local" /\ config # Absent /\ config' = Absent => ~stack.exists]_vars

(***************************************************************************)
(* The strengthening under which the invariants above are inductive: what  *)
(* is COMPLETED is not deployed any more, and a deployed program is stamped*)
(* before anything else happens to it.                                     *)
(***************************************************************************)
RecordInOrder ==
    /\ record.by <= asked
    /\ asked = 0 => pc = "idle" /\ record.state = "NONE"
    /\ record.by = asked /\ record.state = "COMPLETED" /\ Deploys
           => pc \in {"idle", "start", "health"}
    /\ Deploys /\ pc \in {"stamp", "start", "health"} => drifted \/ Deployed(op.wanted)

\* Once a result is stored, the calls left store no lesser one.
ResultsInOrder ==
    /\ record.state = "NONE" => record.by = 0
    /\ record.by = asked =>
           /\ record.state = "COMPLETED" => pc \in {"idle", "queued", "start", "health", "forget"}
           /\ record.state = "FAILED" => pc \in {"idle", "queued", "recover"}

\* Attempts are counted within one run of the retry loop.
TriesInOrder == tries > 0 => pc \in {"up", "destroy"}

IInv ==
    /\ TypeOK /\ Bounded /\ CallBelongsToFlow /\ MachineIsInStack /\ SavedBefore /\ OwedDuringResize
    /\ ConfigIsWanted /\ VersionsInOrder /\ RestoreInOrder /\ RecordInOrder /\ ResultsInOrder
    /\ TriesInOrder
    /\ CompletedIsWanted /\ StampedIsDeployed /\ FirstBootRestores

(***************************************************************************)
(* Every operation ends, whatever its calls return.                        *)
(***************************************************************************)
OperationEnds == (pc # "idle") ~> (pc = "idle")

(***************************************************************************)
(* Whatever happens to an operation under way (a call returns, an attempt  *)
(* fails, the controller dies, the task is delivered again) brings it      *)
(* nearer to its end: there are fewer deliveries left, or fewer calls in   *)
(* this one, or fewer attempts of the call.                                *)
(***************************************************************************)
CallsLeft(call) ==
    CASE call = "list" -> 9 [] call \in {"stop", "save"} -> 8 [] call = "upsert" -> 7
      [] call = "refresh" -> 6 [] call \in {"up", "destroy"} -> 5
      [] call \in {"stamp", "restore"} -> 4 [] call \in {"start", "recover"} -> 3
      [] call \in {"health", "forget"} -> 2 [] call = "queued" -> 1 [] call = "idle" -> 0

Nearer ==
    \/ deliveries' > deliveries
    \/ /\ deliveries' = deliveries
       /\ \/ CallsLeft(pc') < CallsLeft(pc)
          \/ pc' = pc /\ tries' > tries

ComesToAnEnd ==
    [][pc # "idle" /\ <<pc, tries, deliveries>>' # <<pc, tries, deliveries>> => Nearer]_vars

(***************************************************************************)
(* One operation after another: what the executors promise their callers   *)
(* (SerialOperations) is what the operation seen from inside does, on      *)
(* either executor.  Operations are numbered as they are accepted.         *)
(***************************************************************************)
Phase(n) ==
    IF n > asked THEN "new" ELSE IF n = asked /\ pc # "idle" THEN "running" ELSE "over"

Serial == INSTANCE SerialOperations
              WITH Server <- {"server"}, Op <- 1..MaxRequests, NoOp <- 0,
                   ServerOf <- [n \in 1..MaxRequests |-> "server"],
                   phase <- [n \in 1..MaxRequests |-> Phase(n)],
                   record <- [s \in {"server"} |-> [op |-> record.by, state |-> record.state]]

ImplementsSerial == Serial!Spec

(***************************************************************************)
(* version.go:14-16: user-data does not depend on the machine type, "so    *)
(* machine-type changes remain a resize rather than a recreate".  It does  *)
(* depend on the agent token, which is minted anew for every update: the   *)
(* resize replaces the machine, and no world save has preceded it.         *)
(***************************************************************************)
ResizeKeepsMachine ==
    [][op.flow = "resize" /\ pc = "up" => vm' # "none" /\ stack'.data = stack.data]_vars

(***************************************************************************)
(* tools/pulumi-cleanup/README.md:57: once the stack has been removed by   *)
(* hand, DELETE is idempotent and removes the server's record.  So every   *)
(* attempt at a destruction must be able to succeed.  DestroyStack fails   *)
(* on a stack that is gone, and the config stays for ever.                 *)
(***************************************************************************)
DeleteIsIdempotent ==
    pc = "destroy" /\ CanTry => ENABLED (DestroyStack /\ pc' = "forget")
=============================================================================
