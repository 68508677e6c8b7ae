----------------------- MODULE ServerOperation_proofs -----------------------
(***************************************************************************)
(* The invariants and action properties of ServerOperation, for any number *)
(* of machine types, games, requests, retries, deliveries and releases.    *)
(* Each part of IInv has a lemma that says every step preserves it, from   *)
(* the parts before it; the theorems at the end put them together.         *)
(***************************************************************************)
EXTENDS ServerOperation, TLAPS

USE DEF Absent, NoVM

\* The type invariant in two halves, for the two kinds of prover.
Plain ==
    /\ executor \in {"local", "cloud"} /\ release \in 1..MaxRelease
    /\ config \in Configs \union {Absent}
    /\ stack \in Stacks
    /\ vm \in {"none", "off", "on"}
    /\ world \in {"none", "empty", "own", "restored"}
    /\ record \in [by : 0..MaxRequests, state : States]
    /\ op \in Operations
    /\ pc \in Calls \union {"idle", "queued"}
    /\ tries \in 0..RetryAttempts
    /\ asked \in 0..MaxRequests /\ deliveries \in 0..MaxDeliveries

Flags ==
    /\ live \in BOOLEAN /\ forgetting \in BOOLEAN
    /\ saved \in BOOLEAN /\ owed \in BOOLEAN /\ drifted \in BOOLEAN

LEMMA TypeHalves == TypeOK <=> Plain /\ Flags
<1>1. TypeOK => Plain
  BY DEF TypeOK, Plain
<1>2. TypeOK => Flags
  BY Zenon DEF TypeOK, Flags
<1>3. Plain /\ Flags => TypeOK
  <2>1. SUFFICES ASSUME Plain, Flags PROVE TypeOK
    OBVIOUS
  <2>2. QED BY <2>1 DEF TypeOK, Plain, Flags
<1>4. QED BY <1>1, <1>2, <1>3

LEMMA InitType == ASSUME Init PROVE TypeOK
<1>0. /\ Created.machine \in Machine /\ Created.game \in Game /\ Default \in Backup
      /\ 0 \in 0..MaxRelease /\ 1 \in 1..MaxRelease /\ 0 \in 0..MaxRequests
      /\ 0 \in 0..RetryAttempts /\ 0 \in 0..MaxDeliveries
  BY DefaultIsBackup, CreatedType, BoundsType
<1>1. op \in Operations
  BY <1>0 DEF Init, Operations, Configs, Programs, Kinds, Flows, Changes
<1>2. stack \in Stacks
  BY <1>0 DEF Init, NoStack, Stacks
<1>3. executor \in {"local", "cloud"}
  BY ExecutorsType DEF Init
<1>4. record \in [by : 0..MaxRequests, state : States]
  BY <1>0 DEF Init, States
<1>5. QED BY <1>0, <1>1, <1>2, <1>3, <1>4 DEF Init, TypeOK

LEMMA ProgramType ==
    ASSUME NEW c \in Configs, NEW kind, NEW restore \in BOOLEAN
    PROVE  Program(c, kind, restore) \in Programs
  BY DefaultIsBackup DEF Program, BackupOf, Programs, Configs

LEMMA FlowType == ASSUME NEW kind \in Kinds PROVE Flow(kind) \in Flows
  BY DEF Flow, Kinds, Changes, Flows

LEMMA MintType == ASSUME TypeOK, MintToken PROVE stack' \in Stacks
  BY DEF TypeOK, MintToken, Stacks, UserData

LEMMA AcceptType ==
    ASSUME TypeOK, NEW kind \in Kinds, NEW wanted \in Configs, NEW restore \in BOOLEAN,
           Accept(kind, wanted, restore)
    PROVE  TypeOK'
<1>1. op' \in Operations
  BY ProgramType, FlowType DEF Accept, Operations
<1>2. stack' \in Stacks
  BY MintType DEF Accept
<1>3. pc' \in Calls \union {"idle", "queued"} /\ record' \in [by : 0..MaxRequests, state : States]
  BY BoundsType DEF Accept, TypeOK, First, Calls, States
<1>4. asked' \in 0..MaxRequests /\ tries' \in 0..RetryAttempts /\ deliveries' \in 0..MaxDeliveries
  BY BoundsType DEF Accept, TypeOK
<1>5. /\ config' \in Configs \union {Absent} /\ executor' \in {"local", "cloud"}
      /\ release' \in 1..MaxRelease /\ vm' \in {"none", "off", "on"}
      /\ world' \in {"none", "empty", "own", "restored"}
  BY DEF Accept, TypeOK
<1>6. /\ live' \in BOOLEAN /\ forgetting' \in BOOLEAN /\ saved' \in BOOLEAN
      /\ owed' \in BOOLEAN /\ drifted' \in BOOLEAN
  BY Zenon DEF Accept, TypeOK
<1>7. QED
  BY <1>1, <1>2, <1>3, <1>4, <1>5, <1>6 DEF TypeOK

LEMMA UpdateStatusType ==
    ASSUME TypeOK, NEW state \in States, UpdateStatus(state)
    PROVE  record' \in [by : 0..MaxRequests, state : States]
  BY DEF TypeOK, UpdateStatus

LEMMA AdvanceType ==
    ASSUME TypeOK, Advance(pc)
    PROVE  record' \in [by : 0..MaxRequests, state : States] /\ pc' \in Calls \union {"idle", "queued"}
<1>1. StateAfter(pc) \in States
  BY DEF StateAfter, States
<1>2. QED BY <1>1, UpdateStatusType DEF Advance, AfterCall, Calls

LEMMA FailType ==
    ASSUME TypeOK, Fail(pc)
    PROVE  record' \in [by : 0..MaxRequests, state : States] /\ pc' \in Calls \union {"idle", "queued"}
  BY UpdateStatusType DEF Fail, AfterError, Calls, States

LEMMA WantedType ==
    ASSUME config \in Configs, NEW kind, NEW wanted \in Wanted(kind), kind \in Changes
    PROVE  wanted \in Configs
  BY DEF Wanted, Changes, Configs

LEMMA RefusedType == ASSUME TypeOK, Refused PROVE TypeOK'
<1>1. Flags'
  BY Zenon, TypeHalves DEF Refused, Flags, Context, progress, history, Others
<1>2. config' \in Configs
  BY WantedType DEF Refused, TypeOK, Changes
<1>3. Plain'
  BY <1>2 DEF Refused, Plain, TypeOK, progress
<1>4. QED BY <1>1, <1>3 DEF TypeOK, Plain, Flags

LEMMA SkipType == ASSUME TypeOK, Skip PROVE TypeOK'
<1>1. Flags'
  BY Zenon, TypeHalves DEF Skip, Flags, Context, progress, history, Others
<1>2. Plain'
  BY DEF Skip, Plain, TypeOK, Context, server, progress, Others, Calls
<1>3. QED BY <1>1, <1>2 DEF TypeOK, Plain, Flags

LEMMA DeliverType == ASSUME TypeOK, Bounded, Deliver PROVE TypeOK'
<1>1. Flags'
  BY Zenon, TypeHalves DEF Deliver, Flags
<1>2. Program(config, op.kind, RestoreOutputs(op.restore)) \in Programs
  BY ProgramType DEF Deliver, TypeOK, Operations, RestoreOutputs
<1>3. op' \in Operations
  BY <1>2 DEF Deliver, TypeOK, Operations
<1>4. deliveries' \in 0..MaxDeliveries
  <2>1. deliveries \in Nat /\ deliveries < MaxDeliveries /\ MaxDeliveries \in Nat
    BY BoundsType DEF Deliver, TypeOK, Bounded
  <2>2. QED BY <2>1 DEF Deliver
<1>5. stack' \in Stacks
  BY MintType DEF Deliver
<1>6. Plain'
  BY <1>3, <1>4, <1>5, BoundsType DEF Deliver, Plain, TypeOK, First, Calls
<1>7. QED BY <1>1, <1>6 DEF TypeOK, Plain, Flags

LEMMA IgnoredType == ASSUME TypeOK, Ignored PROVE TypeOK'
<1>1. Flags'
  BY Zenon, TypeHalves DEF Ignored, Flags, Context, progress, history, Others
<1>2. Plain'
  BY AdvanceType DEF Ignored, Plain, TypeOK, Context, server, progress, Others, Calls
<1>3. QED BY <1>1, <1>2 DEF TypeOK, Plain, Flags

LEMMA UpsertStackType == ASSUME TypeOK, UpsertStack PROVE TypeOK'
<1>1. Flags'
  BY Zenon, TypeHalves DEF UpsertStack, Flags, Context, progress, history, Others
<1>2. Plain'
  BY AdvanceType, FailType DEF UpsertStack, Plain, TypeOK, Context, server, progress, Others, Calls, Stacks
<1>3. QED BY <1>1, <1>2 DEF TypeOK, Plain, Flags

LEMMA SaveWorldType == ASSUME TypeOK, SaveWorld PROVE TypeOK'
<1>1. Flags'
  BY Zenon, TypeHalves DEF SaveWorld, Flags, Context, progress, history, Others
<1>2. Plain'
  BY AdvanceType, FailType DEF SaveWorld, Plain, TypeOK, Context, server, progress, Others, Calls
<1>3. QED BY <1>1, <1>2 DEF TypeOK, Plain, Flags

LEMMA RestoreWorldType == ASSUME TypeOK, RestoreWorld PROVE TypeOK'
<1>1. Flags'
  BY Zenon, TypeHalves DEF RestoreWorld, Flags, Context, progress, history, Others
<1>2. Plain'
  BY AdvanceType, FailType DEF RestoreWorld, Plain, TypeOK, Context, server, progress, Others, Calls
<1>3. QED BY <1>1, <1>2 DEF TypeOK, Plain, Flags

LEMMA StopInstanceType == ASSUME TypeOK, StopInstance PROVE TypeOK'
<1>1. Flags'
  BY Zenon, TypeHalves DEF StopInstance, Flags, Context, progress, history, Others
<1>2. Plain'
  BY AdvanceType, FailType DEF StopInstance, Plain, TypeOK, Context, server, progress, Others, Calls
<1>3. QED BY <1>1, <1>2 DEF TypeOK, Plain, Flags

LEMMA StartInstanceType == ASSUME TypeOK, StartInstance PROVE TypeOK'
<1>1. Flags'
  BY Zenon, TypeHalves DEF StartInstance, Flags, Context, progress, history, Others
<1>2. Plain'
  BY AdvanceType, FailType DEF StartInstance, Plain, TypeOK, Context, server, progress, Others, Calls, Boot, Boots
<1>3. QED BY <1>1, <1>2 DEF TypeOK, Plain, Flags

LEMMA GiveUpType == ASSUME TypeOK, GiveUp PROVE TypeOK'
<1>1. Flags'
  BY Zenon, TypeHalves DEF GiveUp, Flags, Context, progress, history, Others
<1>2. Plain'
  BY FailType, BoundsType DEF GiveUp, Plain, TypeOK, Context, server, progress, Others, Calls
<1>3. QED BY <1>1, <1>2 DEF TypeOK, Plain, Flags

LEMMA ForgetType == ASSUME TypeOK, Forget PROVE TypeOK'
<1>1. Flags'
  BY Zenon, TypeHalves DEF Forget, Flags, Context, progress, history, Others
<1>2. Plain'
  BY DEF Forget, Plain, TypeOK, Context, server, progress, Others, Calls
<1>3. QED BY <1>1, <1>2 DEF TypeOK, Plain, Flags

LEMMA StampServerConfigType == ASSUME TypeOK, StampServerConfig PROVE TypeOK'
<1>1. Flags'
  BY Zenon, TypeHalves DEF StampServerConfig, Flags, Context
<1>2. config' \in Configs \union {Absent}
  <2>1. CASE UNCHANGED config
    BY <2>1 DEF TypeOK
  <2>2. CASE config # Absent /\ config' = [config EXCEPT !.infra = Stamped]
    <3>1. config \in Configs /\ release \in 0..MaxRelease
      BY <2>2, BoundsType DEF TypeOK
    <3>2. QED BY <2>2, <3>1 DEF Configs, Stamped
  <2>3. QED BY <2>1, <2>2 DEF StampServerConfig
<1>3. Plain'
  BY <1>2, AdvanceType, FailType DEF StampServerConfig, Plain, TypeOK, Context
<1>4. QED BY <1>1, <1>3 DEF TypeOK, Plain, Flags

LEMMA TimeoutType == ASSUME TypeOK, Timeout PROVE TypeOK'
<1>1. Flags'
  BY Zenon, TypeHalves DEF Timeout, Flags, Context, progress, history, Others
<1>2. Plain'
  BY DEF Timeout, Plain, TypeOK, Context, server, progress, Others, Calls
<1>3. QED BY <1>1, <1>2 DEF TypeOK, Plain, Flags

LEMMA CrashType == ASSUME TypeOK, Crash PROVE TypeOK'
<1>1. Flags'
  BY Zenon, TypeHalves DEF Crash, Flags, Context, progress, history, Others
<1>2. Plain'
  BY BoundsType DEF Crash, Plain, TypeOK, Context, server, progress, Others, Calls
<1>3. QED BY <1>1, <1>2 DEF TypeOK, Plain, Flags

LEMMA UpgradeType == ASSUME TypeOK, Upgrade PROVE TypeOK'
<1>1. Flags'
  BY Zenon, TypeHalves DEF Upgrade, Flags, Context, progress, history, Others
<1>2. Plain'
  BY BoundsType DEF Upgrade, Plain, TypeOK, Context, server, progress, Others, Calls
<1>3. QED BY <1>1, <1>2 DEF TypeOK, Plain, Flags

LEMMA VMStopsType == ASSUME TypeOK, VMStops PROVE TypeOK'
<1>1. Flags'
  BY Zenon, TypeHalves DEF VMStops, Flags, Context, progress, history, Others
<1>2. Plain'
  BY DEF VMStops, Plain, TypeOK, Context, server, progress, Others, Calls
<1>3. QED BY <1>1, <1>2 DEF TypeOK, Plain, Flags

LEMMA VMStartsType == ASSUME TypeOK, VMStarts PROVE TypeOK'
<1>1. Flags'
  BY Zenon, TypeHalves DEF VMStarts, Flags, Context, progress, history, Others
<1>2. Plain'
  BY DEF VMStarts, Plain, TypeOK, Context, server, progress, Others, Calls, Boot, Boots
<1>3. QED BY <1>1, <1>2 DEF TypeOK, Plain, Flags

LEMMA DeployType ==
    ASSUME TypeOK, Deploy
    PROVE  stack' \in Stacks /\ vm' \in {"none", "off", "on"}
           /\ world' \in {"none", "empty", "own", "restored"}
<1>1. op.program \in Programs
  BY DEF TypeOK, Operations
<1>2. Render(op.program) \in UserData
  BY <1>1 DEF Render, Programs, UserData, TypeOK
<1>3. stack' \in Stacks
  <2>1. CASE stack.data = Render(op.program)
    <3>1. stack' = [stack EXCEPT !.machine = op.program.machine]
      BY <2>1 DEF Deploy
    <3>2. QED BY <3>1, <1>1 DEF TypeOK, Stacks, Programs
  <2>2. CASE stack.data # Render(op.program)
    <3>1. stack' = [exists |-> TRUE, machine |-> op.program.machine,
                    data |-> Render(op.program)]
      BY <2>2 DEF Deploy
    <3>2. QED BY <3>1, <1>1, <1>2 DEF Stacks, Programs
  <2>3. QED BY <2>1, <2>2
<1>4. vm' \in {"none", "off", "on"} /\ world' \in {"none", "empty", "own", "restored"}
  BY DEF Deploy, Boots, Disk, TypeOK
<1>5. QED BY <1>3, <1>4

LEMMA DeleteMachineType == ASSUME TypeOK, DeleteMachine PROVE stack' \in Stacks
  BY DEF DeleteMachine, TypeOK, Stacks

LEMMA TearDownType == ASSUME TypeOK, TearDown PROVE stack' \in Stacks
  BY CreatedType DEF TearDown, NoStack, Stacks

LEMMA TryType == ASSUME TypeOK, CanTry, tries' = CountTry PROVE tries' \in 0..RetryAttempts
  BY BoundsType DEF TypeOK, CanTry, CountTry

LEMMA UpStackType == ASSUME TypeOK, UpStack PROVE TypeOK'
<1>1. Flags'
  <2>1. owed' \in BOOLEAN
    BY Zenon DEF UpStack
  <2>2. QED BY <2>1, Zenon, TypeHalves DEF UpStack, Flags, Context
<1>2. /\ stack' \in Stacks /\ vm' \in {"none", "off", "on"}
      /\ world' \in {"none", "empty", "own", "restored"}
  BY DeployType, DeleteMachineType DEF UpStack, DeleteMachine, TypeOK
<1>3. record' \in [by : 0..MaxRequests, state : States] /\ pc' \in Calls \union {"idle", "queued"}
  BY AdvanceType, FailType DEF UpStack, TryAgain, TypeOK
<1>4. tries' \in 0..RetryAttempts
  BY TryType, BoundsType DEF UpStack, TryAgain
<1>5. Plain'
  BY <1>2, <1>3, <1>4 DEF UpStack, Plain, TypeOK, Context
<1>6. QED BY <1>1, <1>5 DEF TypeOK, Plain, Flags

LEMMA DestroyStackType == ASSUME TypeOK, DestroyStack PROVE TypeOK'
<1>1. Flags'
  <2>1. forgetting' \in BOOLEAN
    BY Zenon DEF DestroyStack, TypeOK
  <2>2. QED BY <2>1, Zenon, TypeHalves DEF DestroyStack, Flags
<1>2. /\ stack' \in Stacks /\ vm' \in {"none", "off", "on"}
      /\ world' \in {"none", "empty", "own", "restored"}
  BY TearDownType, DeleteMachineType DEF DestroyStack, TearDown, DeleteMachine, TypeOK
<1>3. record' \in [by : 0..MaxRequests, state : States] /\ pc' \in Calls \union {"idle", "queued"}
  <2>1. StateAfter(pc) \in States
    BY DEF StateAfter, States
  <2>2. QED BY <2>1, FailType, UpdateStatusType DEF DestroyStack, TryAgain, FailDestroy, TypeOK, Calls
<1>4. tries' \in 0..RetryAttempts
  BY TryType, BoundsType DEF DestroyStack, TryAgain
<1>5. Plain'
  BY <1>2, <1>3, <1>4 DEF DestroyStack, Plain, TypeOK
<1>6. QED BY <1>1, <1>5 DEF TypeOK, Plain, Flags

LEMMA OperatorCleansUpType == ASSUME TypeOK, OperatorCleansUp PROVE TypeOK'
<1>1. Flags'
  BY Zenon, TypeHalves DEF OperatorCleansUp, Flags, Others
<1>2. Plain'
  BY TearDownType DEF OperatorCleansUp, TearDown, Plain, TypeOK, Others
<1>3. QED BY <1>1, <1>2 DEF TypeOK, Plain, Flags

LEMMA CreateType == ASSUME TypeOK, Create PROVE TypeOK'
<1>1. [present |-> TRUE, machine |-> Created.machine, game |-> Created.game,
       backup |-> Default, infra |-> 0] \in Configs
  BY DefaultIsBackup, CreatedType, BoundsType DEF Configs
<1>2. QED BY <1>1, AcceptType DEF Create, Kinds

LEMMA UpdateType == ASSUME TypeOK, Update PROVE TypeOK'
<1>1. config \in Configs
  BY DEF Update, TypeOK
<1>2. QED BY <1>1, WantedType, AcceptType DEF Update, Kinds

LEMMA DestroyServerType == ASSUME TypeOK, DestroyServer PROVE TypeOK'
  BY AcceptType DEF DestroyServer, Kinds, TypeOK

LEMMA RestoreServerType == ASSUME TypeOK, RestoreServer PROVE TypeOK'
  BY AcceptType DEF RestoreServer, Kinds, TypeOK

LEMMA StutterType == ASSUME TypeOK, UNCHANGED vars PROVE TypeOK'
<1>1. Flags'
  BY Zenon, TypeHalves DEF vars, progress, history, Flags
<1>2. Plain'
  BY DEF vars, server, progress, history, Plain, TypeOK
<1>3. QED BY <1>1, <1>2 DEF TypeOK, Plain, Flags

LEMMA BoundedStep == ASSUME TypeOK, Bounded, [Next]_vars PROVE Bounded'
<1>1. CASE Requests
  <2>1. CASE deliveries' = 0
    <3>1. MaxDeliveries \in Nat \ {0}
      BY BoundsType
    <3>2. QED BY <2>1, <3>1 DEF Bounded
  <2>2. CASE Refused
    BY <2>2 DEF Refused, progress, Bounded
  <2>3. QED BY <1>1, <2>1, <2>2 DEF Requests, Create, Update, DestroyServer, RestoreServer, Accept
<1>2. CASE Skip \/ Deliver
  <2>1. pc' # "queued"
    BY <1>2 DEF Skip, Deliver, First
  <2>2. QED BY <2>1 DEF Bounded
<1>3. CASE Step
  <2>1. ASSUME Advance(pc) \/ Fail(pc), UNCHANGED deliveries PROVE Bounded'
    BY <2>1 DEF Advance, Fail, AfterCall, AfterError, Bounded
  <2>2. ASSUME pc' # "queued" PROVE Bounded'
    BY <2>2 DEF Bounded
  <2>3. ASSUME UNCHANGED <<pc, deliveries>> PROVE Bounded'
    BY <2>3 DEF Bounded
  <2>4. CASE Ignored \/ UpsertStack \/ SaveWorld \/ RestoreWorld \/ StopInstance \/ GiveUp
             \/ StampServerConfig
    BY <2>4, <2>1 DEF Ignored, UpsertStack, SaveWorld, RestoreWorld, StopInstance, GiveUp,
       StampServerConfig, Context
  <2>5. CASE StartInstance
    BY <2>5, <2>1, <2>2 DEF StartInstance, Context
  <2>6. CASE UpStack
    BY <2>6, <2>1, <2>3 DEF UpStack, TryAgain, Context
  <2>7. CASE DestroyStack
    BY <2>7, <2>1, <2>2, <2>3 DEF DestroyStack, TryAgain, FailDestroy
  <2>8. CASE Forget
    BY <2>8, <2>2, <2>3 DEF Forget
  <2>9. QED BY <1>3, <2>4, <2>5, <2>6, <2>7, <2>8 DEF Step
<1>4. CASE Surroundings
  BY <1>4 DEF Surroundings, Timeout, Crash, Upgrade, VMStops, VMStarts, OperatorCleansUp, Others,
     Bounded
<1>5. CASE UNCHANGED vars
  BY <1>5 DEF vars, progress, Bounded
<1>6. QED BY <1>1, <1>2, <1>3, <1>4, <1>5 DEF Next

LEMMA TypeStep == ASSUME TypeOK, Bounded, [Next]_vars PROVE TypeOK'
<1>1. CASE Requests
  BY <1>1, CreateType, UpdateType, DestroyServerType, RestoreServerType, RefusedType DEF Requests
<1>2. CASE Skip \/ Deliver
  BY <1>2, SkipType, DeliverType
<1>3. CASE Step
  BY <1>3, IgnoredType, UpsertStackType, SaveWorldType, RestoreWorldType, StopInstanceType,
     StartInstanceType, UpStackType, DestroyStackType, GiveUpType, StampServerConfigType,
     ForgetType DEF Step
<1>4. CASE Surroundings
  BY <1>4, TimeoutType, CrashType, UpgradeType, VMStopsType, VMStartsType,
     OperatorCleansUpType DEF Surroundings
<1>5. CASE UNCHANGED vars
  BY <1>5, StutterType
<1>6. QED BY <1>1, <1>2, <1>3, <1>4, <1>5 DEF Next

-----------------------------------------------------------------------------
\* A call is followed by a call of the same flow, or by none.
LEMMA NextCall ==
    ASSUME op.flow \in Flows, pc \in CallsOf(op.flow)
    PROVE  AfterCall(op.flow, pc) \in CallsOf(op.flow) \union {"idle"}
  BY DEF Flows, CallsOf, AfterCall

LEMMA ErrorCall ==
    ASSUME op.flow \in Flows
    PROVE  /\ AfterError(pc) \in CallsOf(op.flow) \union {"idle", "queued"}
           /\ AfterError(pc) = "queued" => executor = "cloud"
           /\ AfterError(pc) # "forget"
  BY DEF Flows, CallsOf, AfterError

LEMMA NotForget ==
    ASSUME op.flow \in Flows, pc \in CallsOf(op.flow)
    PROVE  AfterCall(op.flow, pc) # "forget"
  BY DEF Flows, CallsOf, AfterCall

LEMMA CallFollows ==
    ASSUME TypeOK, CallBelongsToFlow, Running,
           op' = op, executor' = executor, forgetting' = forgetting,
           Advance(pc) \/ Fail(pc) \/ pc' \in {pc, "idle"}
    PROVE  CallBelongsToFlow'
<1>1. op.flow \in Flows /\ pc \in CallsOf(op.flow)
  BY DEF TypeOK, Operations, CallBelongsToFlow
<1>2. op'.flow = Flow(op.kind)' /\ executor' = executor
  BY DEF CallBelongsToFlow, Flow
<1>3. pc' \in CallsOf(op.flow) \union {"idle", "queued"}
  <2>1. CASE Advance(pc)
    BY <2>1, <1>1, NextCall DEF Advance
  <2>2. CASE Fail(pc)
    BY <2>2, <1>1, ErrorCall DEF Fail
  <2>3. CASE pc' \in {pc, "idle"}
    BY <2>3, <1>1
  <2>4. QED BY <2>1, <2>2, <2>3
<1>4. pc' = "queued" => executor = "cloud"
  <2>1. "queued" \notin CallsOf(op.flow)
    BY <1>1 DEF Flows, CallsOf
  <2>2. QED BY <1>1, <2>1, NextCall, ErrorCall DEF Advance, Fail, Running
<1>5. pc' = "forget" => executor = "local"
  BY <1>1, NotForget, ErrorCall DEF Advance, Fail, CallBelongsToFlow
<1>6. forgetting' => executor = "cloud"
  BY Zenon DEF CallBelongsToFlow
<1>7. Running' => pc' \in CallsOf(op.flow)'
  BY <1>3 DEF Running, CallsOf
<1>8. QED
  BY Zenon, <1>2, <1>4, <1>5, <1>6, <1>7 DEF CallBelongsToFlow

LEMMA AcceptFollows ==
    ASSUME TypeOK, CallBelongsToFlow, NEW kind \in Kinds, NEW wanted, NEW restore,
           Accept(kind, wanted, restore)
    PROVE  CallBelongsToFlow'
<1>1. op'.kind = kind /\ op'.flow = Flow(kind) /\ executor' = executor
  BY DEF Accept
<1>2. op'.flow = Flow(op.kind)'
  BY <1>1 DEF Flow
<1>3. Flow(kind) \in Flows
  BY FlowType
<1>4. pc' \in {"queued", First(Flow(kind))}
  BY Zenon DEF Accept
<1>5. First(Flow(kind)) \in CallsOf(Flow(kind)) /\ First(Flow(kind)) \notin {"forget", "queued"}
  BY <1>3 DEF First, CallsOf, Flows
<1>6. Running' => pc' \in CallsOf(op.flow)'
  BY <1>1, <1>4, <1>5 DEF Running, CallsOf
<1>7. pc' = "queued" => executor' = "cloud"
  BY <1>1, <1>5 DEF Accept, TypeOK
<1>8. forgetting' => executor' = "cloud"
  BY Zenon, <1>1 DEF Accept, CallBelongsToFlow
<1>9. pc' # "forget"
  BY <1>4, <1>5
<1>10. QED BY Zenon, <1>2, <1>6, <1>7, <1>8, <1>9 DEF CallBelongsToFlow

LEMMA FlowStep ==
    ASSUME TypeOK, CallBelongsToFlow, [Next]_vars PROVE CallBelongsToFlow'
<1>a. ASSUME pc' = pc, op' = op, executor' = executor, forgetting' = forgetting
      PROVE  CallBelongsToFlow'
  BY <1>a, Zenon DEF CallBelongsToFlow, Flow, Running, CallsOf
<1>b. op.flow \in Flows
  BY DEF TypeOK, Operations
<1>1. CASE Requests
  <2>1. CASE Refused
    BY <2>1, <1>a DEF Refused, progress
  <2>2. QED
    BY <1>1, <2>1, AcceptFollows DEF Requests, Create, Update, DestroyServer, RestoreServer, Kinds
<1>2. CASE Skip
  BY <1>2, Zenon DEF Skip, CallBelongsToFlow, Flow, Running
<1>3. CASE Deliver
  <2>1. op'.flow = op.flow /\ op'.kind = op.kind /\ executor' = executor /\ pc' = First(op.flow)
    BY <1>3 DEF Deliver, TypeOK, Operations
  <2>2. op'.flow = Flow(op.kind)'
    BY <2>1 DEF CallBelongsToFlow, Flow
  <2>3. pc' \in CallsOf(op.flow) /\ pc' # "forget" /\ pc' # "queued"
    BY <2>1, <1>b DEF First, CallsOf, Flows
  <2>4. Running' => pc' \in CallsOf(op.flow)'
    BY <2>1, <2>3 DEF CallsOf
  <2>5. forgetting' => executor' = "cloud"
    BY Zenon, <1>3 DEF Deliver, CallBelongsToFlow
  <2>6. QED BY Zenon, <2>2, <2>3, <2>4, <2>5 DEF CallBelongsToFlow
<1>4. CASE Step
  <2>1. CASE Ignored \/ UpsertStack \/ SaveWorld \/ RestoreWorld \/ StopInstance \/ StartInstance
             \/ UpStack \/ GiveUp \/ StampServerConfig
    <3>1. op' = op /\ executor' = executor /\ forgetting' = forgetting
      BY <2>1 DEF Ignored, UpsertStack, SaveWorld, RestoreWorld, StopInstance, StartInstance,
         UpStack, GiveUp, StampServerConfig, Context
    <3>2. Running
      BY <2>1 DEF Ignored, UpsertStack, SaveWorld, RestoreWorld, StopInstance, StartInstance,
         UpStack, GiveUp, StampServerConfig, Running
    <3>3. Advance(pc) \/ Fail(pc) \/ pc' \in {pc, "idle"}
      BY <2>1 DEF Ignored, UpsertStack, SaveWorld, RestoreWorld, StopInstance, StartInstance,
         UpStack, GiveUp, StampServerConfig, TryAgain
    <3>4. QED BY <3>1, <3>2, <3>3, CallFollows
  <2>2. CASE DestroyStack
    <3>1. op' = op /\ executor' = executor /\ Running /\ pc = "destroy"
      BY <2>2 DEF DestroyStack, Running
    <3>2. op.flow = "destroy"
      BY <3>1, <1>b DEF CallBelongsToFlow, CallsOf, Flows
    <3>3. CASE Fail(pc) \/ pc' = pc
      <4>1. forgetting' = TRUE => executor = "cloud"
        BY <2>2, Zenon DEF DestroyStack, CallBelongsToFlow
      <4>2. pc' \in {"destroy", "idle", "queued"} /\ (pc' = "queued" => executor = "cloud")
        BY <3>1, <3>2, <3>3, <1>b, ErrorCall DEF Fail, AfterError
      <4>3. forgetting' \in BOOLEAN
        BY <2>2, Zenon DEF DestroyStack, TypeOK
      <4>4. QED BY <3>1, <3>2, <4>1, <4>2, <4>3, Zenon DEF CallBelongsToFlow, Running, CallsOf, Flow
    <3>4. CASE pc' = (IF executor = "local" THEN "forget" ELSE "idle")
               /\ forgetting' = (executor = "cloud")
      <4>1. pc' \in {"forget", "idle"} /\ (pc' = "forget" => executor = "local")
        BY <3>4
      <4>2. forgetting' => executor = "cloud"
        BY <3>4, Zenon
      <4>3. pc' # "queued"
        BY <4>1
      <4>4. Running' => pc' \in CallsOf(op.flow)'
        BY <3>1, <3>2, <4>1 DEF Running, CallsOf
      <4>5. op'.flow = Flow(op.kind)'
        BY <3>1 DEF CallBelongsToFlow, Flow
      <4>6. QED BY <3>1, <4>1, <4>2, <4>3, <4>4, <4>5, Zenon DEF CallBelongsToFlow
    <3>5. QED BY <2>2, <3>3, <3>4, Zenon DEF DestroyStack, TryAgain, FailDestroy
  <2>3. CASE Forget
    <3>1. op' = op /\ executor' = executor /\ pc' \in {pc, "idle"}
      BY <2>3 DEF Forget
    <3>2. ~forgetting'
      BY <2>3, Zenon DEF Forget
    <3>3. op'.flow = Flow(op.kind)'
      BY <3>1 DEF CallBelongsToFlow, Flow
    <3>4. Running' => pc' \in CallsOf(op.flow)'
      BY <3>1 DEF CallBelongsToFlow, Running, CallsOf
    <3>5. (pc' = "queued" => executor = "cloud") /\ (pc' = "forget" => executor = "local")
      BY <3>1 DEF CallBelongsToFlow
    <3>6. QED BY <3>1, <3>2, <3>3, <3>4, <3>5, Zenon DEF CallBelongsToFlow
  <2>4. QED BY <1>4, <2>1, <2>2, <2>3 DEF Step
<1>5. CASE Surroundings
  <2>1. CASE Timeout \/ Upgrade \/ VMStops \/ VMStarts \/ OperatorCleansUp
    BY <2>1, <1>a DEF Timeout, Upgrade, VMStops, VMStarts, OperatorCleansUp, Others
  <2>2. CASE Crash
    <3>1. op' = op /\ executor' = executor /\ ~Running'
      BY <2>2 DEF Crash, Running
    <3>2. ~forgetting'
      BY <2>2, Zenon DEF Crash
    <3>3. pc' = "queued" => executor = "cloud"
      BY <2>2 DEF Crash, CallBelongsToFlow
    <3>4. op'.flow = Flow(op.kind)' /\ pc' # "forget"
      BY <3>1 DEF CallBelongsToFlow, Flow, Running
    <3>5. QED BY <3>1, <3>2, <3>3, <3>4, Zenon DEF CallBelongsToFlow
  <2>3. QED BY <1>5, <2>1, <2>2 DEF Surroundings
<1>6. CASE UNCHANGED vars
  BY <1>6, <1>a DEF vars, progress
<1>7. QED BY <1>1, <1>2, <1>3, <1>4, <1>5, <1>6 DEF Next

-----------------------------------------------------------------------------
\* The calls that may not be reached without a world save.
NeedsSave ==
    \/ op.flow = "recreate" /\ pc \in {"upsert", "refresh", "up", "stamp", "health"}
    \/ op.flow = "restore" /\ pc \in {"restore", "health"}

\* The calls of a resize between the stop and the start.
MayOwe ==
    op.flow = "resize" /\ pc \in {"upsert", "refresh", "up", "stamp", "start", "recover"}

LEMMA SavedMeaning == SavedBefore <=> (NeedsSave => saved)
  BY Zenon DEF SavedBefore, NeedsSave

LEMMA OwedMeaning == OwedDuringResize <=> (owed => MayOwe)
  BY Zenon DEF OwedDuringResize, MayOwe

LEMMA AdvanceNeeds ==
    ASSUME op.flow \in Flows, pc \in CallsOf(op.flow), Advance(pc), op' = op
    PROVE  /\ NeedsSave' => NeedsSave \/ pc = "save"
           /\ MayOwe => MayOwe' \/ pc \in {"start", "recover"}
  BY DEF Advance, AfterCall, Flows, CallsOf, NeedsSave, MayOwe

LEMMA FailNeeds ==
    ASSUME op.flow \in Flows, pc \in CallsOf(op.flow), Fail(pc), op' = op
    PROVE  /\ ~NeedsSave'
           /\ MayOwe => MayOwe' \/ pc \in {"start", "recover", "refresh"}
  BY DEF Fail, AfterError, Flows, CallsOf, NeedsSave, MayOwe

LEMMA AcceptNeeds ==
    ASSUME NEW kind \in Kinds, NEW wanted, NEW restore, Accept(kind, wanted, restore)
    PROVE  ~NeedsSave' /\ ~owed'
<1>1. op'.flow = Flow(kind) /\ Flow(kind) \in Flows
  BY FlowType DEF Accept
<1>2. pc' \in {"queued", First(Flow(kind))}
  BY Zenon DEF Accept
<1>3. ~NeedsSave'
  BY <1>1, <1>2 DEF First, Flows, NeedsSave
<1>4. ~owed'
  BY Zenon DEF Accept
<1>5. QED BY <1>3, <1>4

LEMMA SavedStep ==
    ASSUME TypeOK, CallBelongsToFlow, SavedBefore, [Next]_vars PROVE SavedBefore'
<1>s. SUFFICES ASSUME NeedsSave' PROVE saved'
  BY SavedMeaning, Zenon DEF SavedBefore, NeedsSave
<1>a. ASSUME pc' = pc, op' = op, saved' = saved PROVE saved'
  BY <1>a, <1>s, SavedMeaning, Zenon DEF NeedsSave
<1>b. op.flow \in Flows /\ (Running => pc \in CallsOf(op.flow))
  BY DEF TypeOK, Operations, CallBelongsToFlow
<1>c. pc' \notin {"idle", "queued"}
  BY <1>s DEF NeedsSave
<1>d. ASSUME Running, Advance(pc) \/ Fail(pc), pc # "save", op' = op, saved' = saved PROVE saved'
  <2>1. NeedsSave
    BY <1>d, <1>b, <1>s, AdvanceNeeds, FailNeeds
  <2>2. QED BY <2>1, <1>d, SavedMeaning, Zenon
<1>1. CASE Requests
  <2>1. CASE Refused
    BY <2>1, <1>a DEF Refused, progress
  <2>2. QED
    BY <1>1, <1>s, <2>1, AcceptNeeds DEF Requests, Create, Update, DestroyServer, RestoreServer, Kinds
<1>2. CASE Skip
  BY <1>2, <1>c DEF Skip
<1>3. CASE Deliver
  <2>1. op'.flow = op.flow /\ pc' = First(op.flow)
    BY <1>3 DEF Deliver, TypeOK, Operations
  <2>2. QED BY <2>1, <1>b, <1>s DEF First, Flows, NeedsSave
<1>4. CASE Step
  <2>1. CASE SaveWorld
    <3>1. CASE saved' = TRUE
      BY <3>1
    <3>2. CASE Fail(pc) /\ op' = op /\ pc = "save"
      BY <3>2, <1>b, <1>s, FailNeeds DEF Running
    <3>3. op' = op /\ pc = "save"
      BY <2>1 DEF SaveWorld, Context
    <3>4. QED BY <2>1, <3>1, <3>2, <3>3, Zenon DEF SaveWorld
  <2>2. CASE Ignored \/ UpsertStack \/ RestoreWorld \/ StopInstance \/ StartInstance
             \/ UpStack \/ GiveUp \/ StampServerConfig
    <3>1. op' = op /\ saved' = saved
      BY <2>2 DEF Ignored, UpsertStack, RestoreWorld, StopInstance, StartInstance,
         UpStack, GiveUp, StampServerConfig, Context
    <3>2. Running /\ pc # "save"
      BY <2>2 DEF Ignored, UpsertStack, RestoreWorld, StopInstance, StartInstance,
         UpStack, GiveUp, StampServerConfig, Running
    <3>3. Advance(pc) \/ Fail(pc) \/ pc' \in {pc, "idle"}
      BY <2>2 DEF Ignored, UpsertStack, RestoreWorld, StopInstance, StartInstance,
         UpStack, GiveUp, StampServerConfig, TryAgain
    <3>4. QED BY <3>1, <3>2, <3>3, <1>a, <1>c, <1>d
  <2>3. CASE DestroyStack
    <3>1. op.flow = "destroy" /\ op' = op
      BY <2>3, <1>b DEF DestroyStack, Running, CallsOf, Flows
    <3>2. QED BY <3>1, <1>s DEF NeedsSave
  <2>4. CASE Forget
    BY <2>4, <1>a, <1>c DEF Forget, history
  <2>5. QED BY <1>4, <2>1, <2>2, <2>3, <2>4 DEF Step
<1>5. CASE Surroundings
  <2>1. CASE Timeout \/ Upgrade \/ VMStops \/ VMStarts \/ OperatorCleansUp
    BY <2>1, <1>a DEF Timeout, Upgrade, VMStops, VMStarts, OperatorCleansUp, Others
  <2>2. CASE Crash
    BY <2>2, <1>c DEF Crash
  <2>3. QED BY <1>5, <2>1, <2>2 DEF Surroundings
<1>6. CASE UNCHANGED vars
  BY <1>6, <1>a DEF vars, progress, history
<1>7. QED BY <1>1, <1>2, <1>3, <1>4, <1>5, <1>6 DEF Next

LEMMA OwedStep ==
    ASSUME TypeOK, CallBelongsToFlow, OwedDuringResize, [Next]_vars PROVE OwedDuringResize'
<1>s. SUFFICES ASSUME owed' PROVE MayOwe'
  BY OwedMeaning, Zenon DEF OwedDuringResize, MayOwe
<1>a. ASSUME pc' = pc, op' = op, owed' = owed PROVE MayOwe'
  <2>1. MayOwe
    BY <1>a, <1>s, OwedMeaning, Zenon
  <2>2. QED BY <2>1, <1>a DEF MayOwe
<1>b. op.flow \in Flows /\ (Running => pc \in CallsOf(op.flow))
  BY DEF TypeOK, Operations, CallBelongsToFlow
<1>c. owed' # FALSE
  BY <1>s, Zenon
<1>d. ASSUME owed' = owed PROVE MayOwe
  BY <1>d, <1>s, OwedMeaning, Zenon
<1>e. ASSUME Advance(pc) \/ Fail(pc), op' = op, MayOwe, pc \in {"upsert", "up", "stamp"} PROVE MayOwe'
  BY <1>e, <1>b, AdvanceNeeds, FailNeeds DEF MayOwe, Running
<1>1. CASE Requests
  <2>1. CASE Refused
    BY <2>1, <1>a DEF Refused, progress
  <2>2. QED
    BY <1>1, <1>s, <2>1, AcceptNeeds DEF Requests, Create, Update, DestroyServer, RestoreServer, Kinds
<1>2. CASE Skip
  BY <1>2, <1>d DEF Skip, history, MayOwe
<1>3. CASE Deliver
  BY <1>3, <1>c, Zenon DEF Deliver
<1>4. CASE Step
  <2>1. CASE SaveWorld \/ RestoreWorld \/ DestroyStack
    BY <2>1, <1>d DEF SaveWorld, RestoreWorld, DestroyStack, MayOwe
  <2>2. CASE StartInstance
    BY <2>2, <1>c, Zenon DEF StartInstance
  <2>3. CASE StopInstance
    <3>1. op' = op /\ pc = "stop" /\ op.flow = "resize"
      BY <2>3, <1>b DEF StopInstance, Context, Running, CallsOf, Flows
    <3>2. CASE Advance(pc)
      BY <3>1, <3>2 DEF Advance, AfterCall, MayOwe
    <3>3. CASE owed' = owed
      BY <3>1, <3>3, <1>d DEF MayOwe
    <3>4. QED BY <2>3, <3>2, <3>3, Zenon DEF StopInstance
  <2>4. CASE UpsertStack \/ StampServerConfig \/ GiveUp
    <3>1. op' = op /\ owed' = owed /\ (Advance(pc) \/ Fail(pc))
      BY <2>4 DEF UpsertStack, StampServerConfig, GiveUp, Context
    <3>2. MayOwe
      BY <3>1, <1>d
    <3>3. pc \in {"upsert", "up", "stamp"}
      BY <2>4, <3>2 DEF UpsertStack, StampServerConfig, GiveUp, MayOwe
    <3>4. QED BY <3>1, <3>2, <3>3, <1>e
  <2>5. CASE Ignored
    <3>1. op' = op /\ owed' = owed /\ Advance(pc)
      BY <2>5 DEF Ignored, Context
    <3>2. MayOwe /\ pc = "refresh"
      BY <2>5, <3>1, <1>d DEF Ignored, MayOwe
    <3>3. QED BY <3>1, <3>2, <1>b, AdvanceNeeds DEF Running
  <2>6. CASE UpStack
    <3>1. owed
      BY <2>6, <1>s, Zenon DEF UpStack
    <3>2. MayOwe /\ pc = "up" /\ op' = op
      BY <2>6, <3>1, OwedMeaning DEF UpStack, Context
    <3>3. Advance(pc) \/ Fail(pc) \/ pc' = pc
      BY <2>6 DEF UpStack, TryAgain
    <3>4. QED BY <3>2, <3>3, <1>e DEF MayOwe
  <2>7. CASE Forget
    <3>1. op' = op /\ owed' = owed /\ (pc' = pc \/ pc = "forget")
      BY <2>7 DEF Forget, history
    <3>2. QED BY <3>1, <1>a, <1>d DEF MayOwe
  <2>8. QED BY <1>4, <2>1, <2>2, <2>3, <2>4, <2>5, <2>6, <2>7 DEF Step
<1>5. CASE Surroundings
  <2>1. CASE Timeout \/ Upgrade \/ VMStops \/ VMStarts \/ OperatorCleansUp
    BY <2>1, <1>a DEF Timeout, Upgrade, VMStops, VMStarts, OperatorCleansUp, Others
  <2>2. CASE Crash
    BY <2>2, <1>c, Zenon DEF Crash
  <2>3. QED BY <1>5, <2>1, <2>2 DEF Surroundings
<1>6. CASE UNCHANGED vars
  BY <1>6, <1>a DEF vars, progress, history
<1>7. QED BY <1>1, <1>2, <1>3, <1>4, <1>5, <1>6 DEF Next

-----------------------------------------------------------------------------
\* What a step can do to the stack and the machine.
LEMMA StackStep ==
    ASSUME TypeOK, [Next]_vars
    PROVE  \/ stack' = stack /\ (vm' = "none" <=> vm = "none")
           \/ MintToken /\ vm' = vm /\ pc \in {"idle", "queued"} /\ pc' # "forget"
           \/ pc = "upsert" /\ stack' = [stack EXCEPT !.exists = TRUE] /\ vm' = vm
           \/ pc = "up" /\ Deploy
           \/ pc \in {"up", "destroy"} /\ DeleteMachine
           \/ (pc = "destroy" \/ (pc = "idle" /\ record.state = "FAILED")) /\ TearDown
<1>1. CASE Requests
  <2>1. ASSUME NEW kind, NEW wanted, NEW restore, Accept(kind, wanted, restore)
        PROVE  MintToken /\ vm' = vm /\ pc \in {"idle", "queued"} /\ pc' # "forget"
    BY <2>1 DEF Accept, Admits, First
  <2>2. CASE Refused
    BY <2>2 DEF Refused
  <2>3. QED BY <1>1, <2>1, <2>2 DEF Requests, Create, Update, DestroyServer, RestoreServer
<1>2. CASE Skip \/ Deliver
  BY <1>2 DEF Skip, Deliver, server, First
<1>3. CASE Ignored \/ SaveWorld \/ RestoreWorld \/ StopInstance \/ StartInstance \/ GiveUp
           \/ Forget \/ StampServerConfig
  <2>1. stack' = stack
    BY <1>3 DEF Ignored, SaveWorld, RestoreWorld, StopInstance, StartInstance, GiveUp, Forget,
       StampServerConfig, server
  <2>2. vm' = "none" <=> vm = "none"
    <3>1. CASE StopInstance
      BY <3>1 DEF StopInstance
    <3>2. CASE StartInstance
      BY <3>2 DEF StartInstance, Boot
    <3>3. CASE Ignored \/ SaveWorld \/ RestoreWorld \/ GiveUp \/ Forget \/ StampServerConfig
      BY <3>3 DEF Ignored, SaveWorld, RestoreWorld, GiveUp, Forget, StampServerConfig, server
    <3>4. QED BY <1>3, <3>1, <3>2, <3>3
  <2>3. QED BY <2>1, <2>2
<1>4. CASE UpsertStack
  BY <1>4 DEF UpsertStack
<1>5. CASE UpStack
  BY <1>5 DEF UpStack
<1>6. CASE DestroyStack
  BY <1>6 DEF DestroyStack
<1>7. CASE Surroundings
  BY <1>7 DEF Surroundings, Timeout, Crash, Upgrade, VMStops, VMStarts, OperatorCleansUp, Boot, server
<1>8. CASE UNCHANGED vars
  BY <1>8 DEF vars, server
<1>9. QED BY <1>1, <1>2, <1>3, <1>4, <1>5, <1>6, <1>7, <1>8 DEF Next, Step

\* A machine's user-data is either there in full or not at all.
LEMMA DataType ==
    ASSUME TypeOK
    PROVE  stack.data = NoVM \/ (stack.data \in UserData /\ stack.data.vm = TRUE)
  BY DEF TypeOK, Stacks, UserData

LEMMA MintKeeps ==
    ASSUME TypeOK, MintToken
    PROVE  /\ stack'.exists = stack.exists /\ (stack'.data.vm <=> stack.data.vm)
           /\ stack.data \in UserData => /\ stack'.data.release = stack.data.release
                                       /\ (stack.data.restore => stack'.data.restore)
                                       /\ stack'.data.game = stack.data.game
                                       /\ stack'.data.backup = stack.data.backup
           /\ stack'.machine = stack.machine
  BY DataType DEF MintToken, TypeOK, Stacks, UserData

LEMMA DeployData ==
    ASSUME TypeOK, Deploy
    PROVE  stack'.data = Render(op.program) /\ stack'.machine = op.program.machine
<1>1. CASE stack.data = Render(op.program)
  BY <1>1 DEF Deploy, TypeOK, Stacks
<1>2. CASE stack.data # Render(op.program)
  BY <1>2 DEF Deploy
<1>3. QED BY <1>1, <1>2

LEMMA ForgetComes ==
    ASSUME [Next]_vars, pc' = "forget", CallBelongsToFlow, TypeOK
    PROVE  pc = "forget" \/ (pc = "destroy" /\ TearDown)
<1>b. op.flow \in Flows /\ (Running => pc \in CallsOf(op.flow))
  BY DEF TypeOK, Operations, CallBelongsToFlow
<1>1. CASE Requests
  BY <1>1 DEF Requests, Create, Update, DestroyServer, RestoreServer, Accept, Refused, First, progress
<1>2. CASE Skip \/ Deliver
  BY <1>2 DEF Skip, Deliver, First
<1>3. CASE Ignored \/ UpsertStack \/ SaveWorld \/ RestoreWorld \/ StopInstance \/ StartInstance
           \/ UpStack \/ GiveUp \/ StampServerConfig
  <2>1. Running
    BY <1>3 DEF Ignored, UpsertStack, SaveWorld, RestoreWorld, StopInstance, StartInstance,
       UpStack, GiveUp, StampServerConfig, Running
  <2>2. Advance(pc) \/ Fail(pc) \/ pc' \in {pc, "idle"}
    BY <1>3 DEF Ignored, UpsertStack, SaveWorld, RestoreWorld, StopInstance, StartInstance,
       UpStack, GiveUp, StampServerConfig, TryAgain
  <2>3. QED BY <2>1, <2>2, <1>b, NotForget, ErrorCall DEF Advance, Fail
<1>4. CASE DestroyStack
  BY <1>4, <1>b, ErrorCall DEF DestroyStack, TryAgain, FailDestroy, Fail
<1>5. CASE Forget
  BY <1>5 DEF Forget
<1>6. CASE Surroundings
  BY <1>6 DEF Surroundings, Timeout, Crash, Upgrade, VMStops, VMStarts, OperatorCleansUp
<1>7. CASE UNCHANGED vars
  BY <1>7 DEF vars, progress
<1>8. QED BY <1>1, <1>2, <1>3, <1>4, <1>5, <1>6, <1>7 DEF Next, Step

LEMMA MachineStep ==
    ASSUME TypeOK, CallBelongsToFlow, MachineIsInStack, [Next]_vars PROVE MachineIsInStack'
<1>1. (stack'.data.vm <=> vm' # "none") /\ (stack'.data.vm => stack'.exists)
  <2>1. CASE stack' = stack /\ (vm' = "none" <=> vm = "none")
    BY <2>1 DEF MachineIsInStack
  <2>2. CASE MintToken /\ vm' = vm
    BY <2>2, MintKeeps DEF MachineIsInStack
  <2>3. CASE stack' = [stack EXCEPT !.exists = TRUE] /\ vm' = vm
    BY <2>3 DEF MachineIsInStack, TypeOK, Stacks
  <2>4. CASE Deploy
    BY <2>4 DEF MachineIsInStack, Deploy, Render, TypeOK, Stacks
  <2>5. CASE DeleteMachine
    BY <2>5 DEF DeleteMachine, TypeOK, Stacks
  <2>6. CASE TearDown
    BY <2>6 DEF TearDown, NoStack
  <2>7. QED BY <2>1, <2>2, <2>3, <2>4, <2>5, <2>6, StackStep
<1>2. pc' = "forget" => ~stack'.exists
  <2>1. SUFFICES ASSUME pc' = "forget" PROVE ~stack'.exists
    OBVIOUS
  <2>2. CASE pc = "forget"
    BY <2>1, <2>2, StackStep DEF MachineIsInStack
  <2>3. CASE TearDown
    BY <2>3 DEF TearDown, NoStack
  <2>4. QED BY <2>1, <2>2, <2>3, ForgetComes
<1>3. QED BY <1>1, <1>2 DEF MachineIsInStack

-----------------------------------------------------------------------------
\* Where the version of a stored config comes from.
LEMMA ConfigStep ==
    ASSUME TypeOK, [Next]_vars, config' # Absent
    PROVE  \/ config # Absent /\ config'.infra = config.infra
           \/ config'.infra = 0
           \/ pc = "stamp" /\ config'.infra = release
<1>1. CASE Create
  BY <1>1 DEF Create, Accept
<1>2. ASSUME NEW kind \in Changes, config' \in Wanted(kind), config # Absent
      PROVE  config # Absent /\ config'.infra = config.infra
  <2>1. config \in Configs
    BY <1>2 DEF TypeOK
  <2>2. QED BY <1>2, <2>1 DEF Wanted, Changes, Configs
<1>3. CASE Update
  BY <1>3, <1>2 DEF Update, Accept
<1>4. CASE Refused
  BY <1>4, <1>2 DEF Refused, Changes
<1>5. CASE StampServerConfig
  <2>1. CASE config # Absent /\ config' = [config EXCEPT !.infra = Stamped] /\ pc = "stamp"
    <3>1. config \in Configs
      BY <2>1 DEF TypeOK
    <3>2. QED BY <2>1, <3>1 DEF Configs, Stamped
  <2>2. QED BY <1>5, <2>1 DEF StampServerConfig
<1>6. CASE config' \in {config, Absent}
  BY <1>6
<1>7. ASSUME ~Create, ~Update, ~Refused, ~StampServerConfig PROVE config' \in {config, Absent}
  <2>1. CASE DestroyServer \/ RestoreServer
    BY <2>1 DEF DestroyServer, RestoreServer, Accept
  <2>2. CASE Skip \/ Deliver
    BY <2>2 DEF Skip, Deliver, server
  <2>3. CASE Step
    BY <2>3, <1>7 DEF Step, Ignored, UpsertStack, SaveWorld, RestoreWorld, StopInstance, StartInstance,
       UpStack, DestroyStack, GiveUp, Forget, server
  <2>4. CASE Surroundings
    BY <2>4 DEF Surroundings, Timeout, Crash, Upgrade, VMStops, VMStarts, OperatorCleansUp, Others,
       server
  <2>5. CASE UNCHANGED vars
    BY <2>5 DEF vars, server
  <2>6. QED BY <1>7, <2>1, <2>2, <2>3, <2>4, <2>5 DEF Next, Requests
<1>8. QED BY <1>1, <1>3, <1>4, <1>5, <1>6, <1>7

\* The controller is replaced only between calls.
LEMMA ReleaseStep ==
    ASSUME TypeOK, [Next]_vars
    PROVE  \/ release' = release
           \/ release' = release + 1 /\ pc' = pc /\ stack' = stack /\ pc \in {"idle", "queued"}
<1>1. CASE Requests
  BY <1>1 DEF Requests, Create, Update, DestroyServer, RestoreServer, Accept, Refused
<1>2. CASE Skip \/ Deliver
  BY <1>2 DEF Skip, Deliver
<1>3. CASE Step
  BY <1>3 DEF Step, Ignored, UpsertStack, SaveWorld, RestoreWorld, StopInstance, StartInstance,
     UpStack, DestroyStack, GiveUp, Forget, StampServerConfig, Context
<1>4. CASE Surroundings
  BY <1>4 DEF Surroundings, Timeout, Crash, Upgrade, VMStops, VMStarts, OperatorCleansUp, Others
<1>5. CASE UNCHANGED vars
  BY <1>5 DEF vars
<1>6. QED BY <1>1, <1>2, <1>3, <1>4, <1>5 DEF Next

LEMMA StampFollowsUp ==
    ASSUME op.flow \in Flows, pc \in CallsOf(op.flow), Advance(pc) \/ Fail(pc), pc' = "stamp"
    PROVE  Advance(pc) /\ pc = "up"
  BY DEF Advance, Fail, AfterCall, AfterError, CallsOf, Flows

LEMMA StampComes ==
    ASSUME TypeOK, CallBelongsToFlow, [Next]_vars, pc' = "stamp"
    PROVE  (pc = "stamp" /\ stack' = stack) \/ (pc = "up" /\ Deploy)
<1>b. op.flow \in Flows /\ (Running => pc \in CallsOf(op.flow))
  BY DEF TypeOK, Operations, CallBelongsToFlow
<1>1. CASE Requests
  BY <1>1 DEF Requests, Create, Update, DestroyServer, RestoreServer, Accept, Refused, First, progress
<1>2. CASE Skip \/ Deliver
  BY <1>2 DEF Skip, Deliver, First
<1>3. CASE Ignored \/ UpsertStack \/ SaveWorld \/ RestoreWorld \/ StopInstance \/ StartInstance
           \/ GiveUp \/ StampServerConfig
  <2>1. Running /\ pc # "idle"
    BY <1>3 DEF Ignored, UpsertStack, SaveWorld, RestoreWorld, StopInstance, StartInstance,
       GiveUp, StampServerConfig, Running
  <2>2. Advance(pc) \/ Fail(pc) \/ pc' = "idle"
    BY <1>3 DEF Ignored, UpsertStack, SaveWorld, RestoreWorld, StopInstance, StartInstance,
       GiveUp, StampServerConfig
  <2>3. pc = "up" /\ Advance(pc)
    BY <2>1, <2>2, <1>b, StampFollowsUp
  <2>4. GiveUp /\ Fail(pc)
    BY <2>3, <1>3 DEF Ignored, UpsertStack, SaveWorld, RestoreWorld, StopInstance, StartInstance,
       GiveUp, StampServerConfig
  <2>5. QED BY <2>3, <2>4 DEF Fail, AfterError
<1>4. CASE UpStack
  <2>1. CASE Fail(pc)
    BY <2>1, <1>4 DEF UpStack, Fail, AfterError
  <2>2. CASE pc' = pc
    BY <2>2, <1>4 DEF UpStack
  <2>3. QED BY <1>4, <2>1, <2>2 DEF UpStack, TryAgain
<1>5. CASE DestroyStack
  <2>1. pc = "destroy" /\ op.flow = "destroy"
    BY <1>5, <1>b DEF DestroyStack, Running, CallsOf, Flows
  <2>2. QED BY <1>5, <2>1 DEF DestroyStack, TryAgain, FailDestroy, Fail, AfterError
<1>6. CASE Forget
  BY <1>6 DEF Forget
<1>7. CASE Surroundings
  BY <1>7 DEF Surroundings, Timeout, Crash, Upgrade, VMStops, VMStarts, OperatorCleansUp
<1>8. CASE UNCHANGED vars
  BY <1>8 DEF vars, progress, server
<1>9. QED BY <1>1, <1>2, <1>3, <1>4, <1>5, <1>6, <1>7, <1>8 DEF Next, Step

LEMMA DataRelease ==
    ASSUME NEW data \in UserData PROVE data.release \in Nat
<1>1. MaxRelease \in Nat
  BY BoundsType
<1>2. data.release \in 1..MaxRelease
  BY DEF UserData
<1>3. QED BY <1>1, <1>2

LEMMA ConfigInfra ==
    ASSUME NEW c \in Configs PROVE c.infra \in Nat
<1>1. MaxRelease \in Nat
  BY BoundsType
<1>2. c.infra \in 0..MaxRelease
  BY DEF Configs
<1>3. QED BY <1>1, <1>2

LEMMA VersionStep ==
    ASSUME TypeOK, TypeOK', CallBelongsToFlow, VersionsInOrder, [Next]_vars
    PROVE  VersionsInOrder'
<1>0. release \in Nat /\ release' \in Nat /\ release <= release'
  BY BoundsType, ReleaseStep DEF TypeOK
<1>1. config' # Absent => config'.infra <= release'
  <2>1. SUFFICES ASSUME config' # Absent PROVE config'.infra <= release'
    OBVIOUS
  <2>2. CASE config # Absent /\ config'.infra = config.infra
    <3>1. config.infra \in Nat /\ config.infra <= release
      BY <2>2, ConfigInfra DEF TypeOK, VersionsInOrder
    <3>2. QED BY <2>2, <3>1, <1>0
  <2>3. CASE config'.infra \in {0, release}
    BY <2>3, <1>0
  <2>4. QED BY <2>1, <2>2, <2>3, ConfigStep
<1>2. stack'.data.vm => stack'.data.release <= release'
  <2>1. SUFFICES ASSUME stack'.data.vm PROVE stack'.data.release <= release'
    OBVIOUS
  <2>2. CASE stack.data \in UserData /\ stack.data.vm /\ stack'.data.release = stack.data.release
    <3>1. stack.data.release \in Nat /\ stack.data.release <= release
      BY <2>2, DataRelease DEF VersionsInOrder
    <3>2. QED BY <2>2, <3>1, <1>0
  <2>3. CASE Deploy
    BY <2>3, DeployData, <1>0 DEF Render
  <2>4. CASE stack' = stack
    BY <2>4, <2>1, <2>2, DataType
  <2>5. CASE MintToken
    <3>1. stack.data.vm
      BY <2>5, <2>1, MintKeeps
    <3>2. stack.data \in UserData
      BY <3>1, DataType
    <3>3. stack'.data.release = stack.data.release
      BY <2>5, <3>2, MintKeeps
    <3>4. QED BY <3>1, <3>2, <3>3, <2>2
  <2>6. CASE stack' = [stack EXCEPT !.exists = TRUE]
    <3>1. stack'.data = stack.data
      BY <2>6 DEF TypeOK, Stacks
    <3>2. QED BY <3>1, <2>1, <2>2, DataType
  <2>7. CASE DeleteMachine
    BY <2>7, <2>1 DEF DeleteMachine, TypeOK, Stacks
  <2>8. CASE TearDown
    BY <2>8, <2>1 DEF TearDown, NoStack
  <2>9. QED BY <2>3, <2>4, <2>5, <2>6, <2>7, <2>8, StackStep
<1>3. pc' = "stamp" => stack'.data.vm /\ stack'.data.release = release'
  <2>1. SUFFICES ASSUME pc' = "stamp" PROVE stack'.data.vm /\ stack'.data.release = release'
    OBVIOUS
  <2>2. release' = release
    BY <2>1, ReleaseStep
  <2>3. CASE pc = "stamp" /\ stack' = stack
    BY <2>2, <2>3 DEF VersionsInOrder
  <2>4. CASE Deploy
    BY <2>2, <2>4, DeployData DEF Render
  <2>5. QED BY <2>1, <2>3, <2>4, StampComes
<1>4. QED BY <1>1, <1>2, <1>3 DEF VersionsInOrder

LEMMA StampedStep ==
    ASSUME TypeOK, TypeOK', CallBelongsToFlow, VersionsInOrder, StampedIsDeployed, [Next]_vars
    PROVE  StampedIsDeployed'
<1>1. SUFFICES ASSUME config' # Absent, stack'.data.vm PROVE config'.infra <= stack'.data.release
  BY DEF StampedIsDeployed
<1>0. release \in Nat /\ release' \in Nat
  BY BoundsType, ReleaseStep DEF TypeOK
<1>2. CASE stack.data \in UserData /\ stack.data.vm /\ stack'.data.release = stack.data.release
  <2>1. stack.data.release \in Nat
    BY <1>2, DataRelease
  <2>2. CASE config # Absent /\ config'.infra = config.infra
    BY <1>2, <2>2 DEF StampedIsDeployed
  <2>3. CASE config'.infra = 0
    BY <1>2, <2>1, <2>3
  <2>4. CASE pc = "stamp" /\ config'.infra = release
    BY <1>2, <2>1, <2>4, <1>0 DEF VersionsInOrder
  <2>5. QED BY <1>1, <2>2, <2>3, <2>4, ConfigStep
<1>3. CASE pc = "up" /\ Deploy
  <2>1. stack'.data.release = release
    BY <1>3, DeployData DEF Render
  <2>2. CASE config # Absent /\ config'.infra = config.infra
    BY <2>1, <2>2 DEF VersionsInOrder
  <2>3. CASE config'.infra = 0
    BY <2>1, <2>3, <1>0
  <2>4. QED BY <1>1, <1>3, <2>2, <2>3, ConfigStep
<1>4. CASE stack' = stack
  BY <1>4, <1>1, <1>2, DataType
<1>5. CASE MintToken
  <2>1. stack.data.vm
    BY <1>5, <1>1, MintKeeps
  <2>2. stack.data \in UserData
    BY <2>1, DataType
  <2>3. stack'.data.release = stack.data.release
    BY <1>5, <2>2, MintKeeps
  <2>4. QED BY <2>1, <2>2, <2>3, <1>2
<1>6. CASE stack' = [stack EXCEPT !.exists = TRUE]
  <2>1. stack'.data = stack.data
    BY <1>6 DEF TypeOK, Stacks
  <2>2. QED BY <2>1, <1>1, <1>2, DataType
<1>7. CASE DeleteMachine
  BY <1>7, <1>1 DEF DeleteMachine, TypeOK, Stacks
<1>8. CASE TearDown
  BY <1>8, <1>1 DEF TearDown, NoStack
<1>9. QED BY <1>3, <1>4, <1>5, <1>6, <1>7, <1>8, StackStep

-----------------------------------------------------------------------------
\* What a step can do to the data disk.
LEMMA WorldStep ==
    ASSUME TypeOK, [Next]_vars
    PROVE  \/ world' = world
           \/ world' \in {"none", "restored"}
           \/ vm = "off" /\ world' \in Boots(world, stack.data)
           \/ pc = "up" /\ world' \in Boots(Disk, Render(op.program))
<1>1. CASE Requests
  BY <1>1 DEF Requests, Create, Update, DestroyServer, RestoreServer, Accept, Refused
<1>2. CASE Skip \/ Deliver
  BY <1>2 DEF Skip, Deliver, server
<1>3. CASE Ignored \/ UpsertStack \/ SaveWorld \/ StopInstance \/ GiveUp \/ StampServerConfig \/ Forget
  BY <1>3 DEF Ignored, UpsertStack, SaveWorld, StopInstance, GiveUp, StampServerConfig, Forget, server
<1>4. CASE RestoreWorld
  BY <1>4 DEF RestoreWorld
<1>5. CASE StartInstance
  BY <1>5 DEF StartInstance, Boot
<1>6. CASE UpStack
  BY <1>6 DEF UpStack, Deploy, DeleteMachine
<1>7. CASE DestroyStack
  BY <1>7 DEF DestroyStack, TearDown, DeleteMachine
<1>8. CASE Surroundings
  BY <1>8 DEF Surroundings, Timeout, Crash, Upgrade, VMStops, VMStarts, OperatorCleansUp, Boot,
     TearDown, server
<1>9. CASE UNCHANGED vars
  BY <1>9 DEF vars, server
<1>10. QED BY <1>1, <1>2, <1>3, <1>4, <1>5, <1>6, <1>7, <1>8, <1>9 DEF Next, Step

LEMMA BootsRestored ==
    ASSUME NEW w, NEW data, data.restore, w # "own", NEW x \in Boots(w, data)
    PROVE  x # "own"
  BY DEF Boots

\* Which request the operation came from, and how its program came about.
LEMMA OperationStep ==
    ASSUME TypeOK, [Next]_vars
    PROVE  \/ asked' = asked /\ op' = op /\ (Running' => Running)
           \/ asked' = asked /\ Deliver
           \/ asked' = asked + 1 /\ ~op'.restore
           \/ asked = 0 /\ asked' = 1 /\ Create
<1>1. CASE Refused \/ Skip
  BY <1>1 DEF Refused, Skip, progress, Running
<1>a. ASSUME NEW kind, NEW wanted, NEW restore, Accept(kind, wanted, restore)
      PROVE  asked' = asked + 1 /\ op'.restore = restore
  BY <1>a DEF Accept
<1>2. CASE Create
  <2>1. asked = 0 /\ asked' = asked + 1
    BY <1>2, <1>a DEF Create
  <2>2. QED BY <2>1, <1>2
<1>3. CASE Update \/ DestroyServer \/ RestoreServer
  BY <1>3, <1>a DEF Update, DestroyServer, RestoreServer
<1>4. CASE Deliver
  BY <1>4 DEF Deliver
<1>5. CASE Step
  <2>1. asked' = asked /\ op' = op
    BY <1>5 DEF Step, Ignored, UpsertStack, SaveWorld, RestoreWorld, StopInstance, StartInstance,
       UpStack, DestroyStack, GiveUp, Forget, StampServerConfig, Context
  <2>2. Running' => Running
    BY <1>5 DEF Step, Ignored, UpsertStack, SaveWorld, RestoreWorld, StopInstance, StartInstance,
       UpStack, DestroyStack, GiveUp, Forget, StampServerConfig, Running
  <2>3. QED BY <2>1, <2>2
<1>6. CASE Surroundings
  BY <1>6 DEF Surroundings, Timeout, Crash, Upgrade, VMStops, VMStarts, OperatorCleansUp, Others,
     Running
<1>7. CASE UNCHANGED vars
  BY <1>7 DEF vars, progress, Running
<1>8. QED BY <1>1, <1>2, <1>3, <1>4, <1>5, <1>6, <1>7 DEF Next, Requests

LEMMA FreshStep ==
    ASSUME TypeOK, MachineIsInStack, RestoreInOrder, [Next]_vars, asked' = 0
    PROVE  pc' = "idle" /\ vm' = "none" /\ world' = "none"
<1>0. asked = 0 /\ pc = "idle" /\ vm = "none" /\ world = "none" /\ ~stack.data.vm
  BY OperationStep DEF RestoreInOrder, TypeOK, MachineIsInStack
<1>1. CASE Requests
  BY <1>0, <1>1 DEF Requests, Create, Update, DestroyServer, RestoreServer, Accept, Refused, progress
<1>2. CASE Step
  BY <1>0, <1>2 DEF Step, Ignored, UpsertStack, SaveWorld, RestoreWorld, StopInstance, StartInstance,
       UpStack, DestroyStack, GiveUp, Forget, StampServerConfig
<1>3. CASE Skip \/ Deliver
  BY <1>0, <1>3 DEF Skip, Deliver
<1>4. CASE Surroundings
  BY <1>0, <1>4 DEF Surroundings, Timeout, Crash, Upgrade, VMStops, VMStarts, OperatorCleansUp, Others,
     TearDown, server
<1>5. CASE UNCHANGED vars
  BY <1>0, <1>5 DEF vars, progress, server
<1>6. QED BY <1>1, <1>2, <1>3, <1>4, <1>5 DEF Next

LEMMA RestoreStep ==
    ASSUME TypeOK, MachineIsInStack, RestoreInOrder, FirstBootRestores, [Next]_vars
    PROVE  RestoreInOrder' /\ FirstBootRestores'
<1>1. SUFFICES ASSUME asked' = 1, op'.restore
               PROVE  /\ op'.kind = "create" /\ (Running' => op'.program.restore)
                      /\ (stack'.data.vm => stack'.data.restore)
                      /\ world' # "own"
  BY FreshStep DEF RestoreInOrder, FirstBootRestores
<1>2. CASE asked = 0 /\ Create
  <2>1. vm = "none" /\ world = "none" /\ ~stack.data.vm
    BY <1>2 DEF RestoreInOrder, MachineIsInStack
  <2>2. PICK restore \in BOOLEAN : Accept("create", [present |-> TRUE, machine |-> Created.machine,
             game |-> Created.game, backup |-> Default, infra |-> 0], restore)
    BY <1>2 DEF Create
  <2>3. op'.kind = "create" /\ op'.restore = restore /\ op'.program.restore = restore
    BY <2>2 DEF Accept, Program
  <2>4. ~stack'.data.vm /\ world' # "own"
    BY <2>1, <2>2 DEF Accept, MintToken
  <2>5. QED BY <1>1, <2>3, <2>4
<1>3. CASE asked' = asked /\ op'.restore = op.restore
  <2>1. op.kind = "create" /\ (Running => op.program.restore) /\ (stack.data.vm => stack.data.restore)
        /\ world # "own"
    BY <1>1, <1>3 DEF RestoreInOrder, FirstBootRestores
  <2>2. op'.kind = "create" /\ (Running' => op'.program.restore)
    <3>1. CASE op' = op /\ (Running' => Running)
      BY <2>1, <3>1
    <3>2. CASE Deliver
      BY <2>1, <1>1, <1>3, <3>2 DEF Deliver, Program, RestoreOutputs, TypeOK, Operations
    <3>3. QED BY <1>1, <1>3, <3>1, <3>2, OperationStep DEF TypeOK
  <2>3. stack'.data.vm => stack'.data.restore
    <3>1. CASE stack' = stack
      BY <2>1, <3>1
    <3>2. CASE MintToken
      <4>1. SUFFICES ASSUME stack'.data.vm PROVE stack'.data.restore
        OBVIOUS
      <4>2. stack.data.vm
        BY <3>2, <4>1, MintKeeps
      <4>3. stack.data \in UserData /\ stack.data.restore
        BY <2>1, <4>2, DataType
      <4>4. QED BY <3>2, <4>3, MintKeeps
    <3>3. CASE stack' = [stack EXCEPT !.exists = TRUE]
      BY <2>1, <3>3 DEF TypeOK, Stacks
    <3>4. CASE pc = "up" /\ Deploy
      BY <2>1, <3>4, DeployData DEF Render, Running
    <3>5. CASE DeleteMachine
      BY <3>5 DEF DeleteMachine, TypeOK, Stacks
    <3>6. CASE TearDown
      BY <3>6 DEF TearDown, NoStack
    <3>7. QED BY <3>1, <3>2, <3>3, <3>4, <3>5, <3>6, StackStep
  <2>4. world' # "own"
    <3>1. CASE vm = "off" /\ world' \in Boots(world, stack.data)
      BY <2>1, <3>1, BootsRestored DEF MachineIsInStack
    <3>2. CASE pc = "up" /\ world' \in Boots(Disk, Render(op.program))
      <4>1. Render(op.program).restore /\ Disk # "own"
        BY <2>1, <3>2 DEF Render, Running, Disk
      <4>2. QED BY <4>1, <3>2, BootsRestored
    <3>3. QED BY <2>1, <3>1, <3>2, WorldStep
  <2>5. QED BY <2>2, <2>3, <2>4
<1>4. CASE Deliver
  BY <1>4, <1>3 DEF Deliver, TypeOK, Operations
<1>5. QED BY <1>1, <1>2, <1>3, <1>4, OperationStep

-----------------------------------------------------------------------------
\* A new operation begins, or the old one goes on.
LEMMA AcceptOrGoOn ==
    ASSUME TypeOK, [Next]_vars
    PROVE  \/ \E kind \in Kinds, wanted \in Configs, restore \in BOOLEAN :
                  Accept(kind, wanted, restore)
           \/ /\ asked' = asked /\ op'.kind = op.kind /\ op'.wanted = op.wanted
              /\ op'.flow = op.flow /\ executor' = executor
              /\ (drifted => drifted')
<1>1. CASE Create
  <2>1. [present |-> TRUE, machine |-> Created.machine, game |-> Created.game,
         backup |-> Default, infra |-> 0] \in Configs
    BY DefaultIsBackup, CreatedType, BoundsType DEF Configs
  <2>2. QED BY <1>1, <2>1 DEF Create, Kinds
<1>2. CASE Update
  <2>1. config \in Configs
    BY <1>2 DEF Update, TypeOK
  <2>2. QED BY <1>2, <2>1, WantedType DEF Update, Kinds
<1>3. CASE DestroyServer \/ RestoreServer
  BY <1>3 DEF DestroyServer, RestoreServer, Kinds, TypeOK
<1>4. CASE Refused
  <2>1. drifted' = TRUE
    BY <1>4, Zenon DEF Refused
  <2>2. drifted => drifted'
    BY <2>1, Zenon
  <2>3. QED BY <1>4, <2>2 DEF Refused, progress
<1>5. CASE Deliver
  BY <1>5 DEF Deliver, TypeOK, Operations
<1>6. ASSUME drifted' = drifted, op' = op, asked' = asked, executor' = executor
      PROVE  /\ asked' = asked /\ op'.kind = op.kind /\ op'.wanted = op.wanted
             /\ op'.flow = op.flow /\ executor' = executor /\ (drifted => drifted')
  BY <1>6
<1>7. CASE Skip
  BY <1>6, <1>7 DEF Skip, history
<1>8. CASE Step
  <2>1. CASE DestroyStack
    BY <2>1, <1>6 DEF DestroyStack
  <2>2. CASE Forget
    BY <2>2, <1>6 DEF Forget, history
  <2>3. CASE Ignored \/ UpsertStack \/ SaveWorld \/ RestoreWorld \/ StopInstance \/ StartInstance
             \/ UpStack \/ GiveUp \/ StampServerConfig
    BY <2>3, <1>6 DEF Ignored, UpsertStack, SaveWorld, RestoreWorld, StopInstance, StartInstance,
       UpStack, GiveUp, StampServerConfig, Context
  <2>4. QED BY <1>8, <2>1, <2>2, <2>3 DEF Step
<1>9. CASE Surroundings
  <2>1. CASE Crash
    BY <2>1, <1>6 DEF Crash
  <2>2. CASE Timeout \/ Upgrade \/ VMStops \/ VMStarts \/ OperatorCleansUp
    BY <2>2, <1>6 DEF Timeout, Upgrade, VMStops, VMStarts, OperatorCleansUp, Others
  <2>3. QED BY <1>9, <2>1, <2>2 DEF Surroundings
<1>10. CASE UNCHANGED vars
  BY <1>10, <1>6 DEF vars, progress, history
<1>11. QED BY <1>1, <1>2, <1>3, <1>4, <1>5, <1>7, <1>8, <1>9, <1>10 DEF Next, Requests

\* What happens to the fields of the config an operation is about.
LEMMA ConfigKept ==
    ASSUME TypeOK, [Next]_vars, config' # Absent, asked' = asked, ~drifted'
    PROVE  config # Absent /\ Same(config', config)
<1>1. CASE Requests
  <2>1. ASSUME NEW kind, NEW wanted, NEW restore, Accept(kind, wanted, restore) PROVE FALSE
    BY <2>1 DEF Accept, TypeOK
  <2>2. CASE Refused
    BY <2>2, Zenon DEF Refused
  <2>3. QED
    BY <1>1, <2>1, <2>2 DEF Requests, Create, Update, DestroyServer, RestoreServer
<1>2. CASE StampServerConfig
  <2>1. CASE config # Absent /\ config' = [config EXCEPT !.infra = Stamped]
    <3>1. config \in Configs
      BY <2>1 DEF TypeOK
    <3>2. QED BY <2>1, <3>1 DEF Configs, Same
  <2>2. CASE config' = config
    BY <2>2 DEF Same
  <2>3. QED BY <1>2, <2>1, <2>2 DEF StampServerConfig
<1>3. CASE config' \in {config, Absent}
  BY <1>3 DEF Same
<1>4. ASSUME ~Requests, ~StampServerConfig PROVE config' \in {config, Absent}
  <2>1. CASE Skip \/ Deliver
    BY <2>1 DEF Skip, Deliver, server
  <2>2. CASE Step
    BY <2>2, <1>4 DEF Step, Ignored, UpsertStack, SaveWorld, RestoreWorld, StopInstance, StartInstance,
       UpStack, DestroyStack, GiveUp, Forget, server
  <2>3. CASE Surroundings
    BY <2>3 DEF Surroundings, Timeout, Crash, Upgrade, VMStops, VMStarts, OperatorCleansUp, Others,
       server
  <2>4. CASE UNCHANGED vars
    BY <2>4 DEF vars, server
  <2>5. QED BY <1>4, <2>1, <2>2, <2>3, <2>4 DEF Next
<1>5. QED BY <1>1, <1>2, <1>3, <1>4

LEMMA ProgramOfSame ==
    ASSUME NEW c, NEW d, Same(c, d), NEW kind, NEW restore
    PROVE  Program(c, kind, restore) = Program(d, kind, restore)
  BY DEF Same, Program, BackupOf

LEMMA ConfigIsWantedStep ==
    ASSUME TypeOK, RestoreInOrder, ConfigIsWanted, [Next]_vars PROVE ConfigIsWanted'
<1>1. ASSUME NEW kind \in Kinds, NEW wanted \in Configs, NEW restore \in BOOLEAN,
             Accept(kind, wanted, restore)
      PROVE  ConfigIsWanted'
  <2>1. config' = wanted /\ op'.wanted = wanted /\ op'.kind = kind
        /\ op'.program = Program(wanted, kind, restore) /\ executor' = executor
    BY <1>1 DEF Accept
  <2>2. Same(config', op'.wanted)
    BY <2>1 DEF Same
  <2>3. op'.program = Program(op.wanted, op.kind, op.program.restore)'
    BY <2>1 DEF Program, BackupOf
  <2>4. QED BY <2>2, <2>3 DEF ConfigIsWanted, Same
<1>2. ASSUME asked' = asked, op'.kind = op.kind, op'.wanted = op.wanted, executor' = executor,
             drifted => drifted'
      PROVE  ConfigIsWanted'
  <2>1. ASSUME asked' > 0, config' # Absent, ~drifted' PROVE Same(config, op.wanted)'
    <3>1. config # Absent /\ Same(config', config)
      BY <1>2, <2>1, ConfigKept
    <3>2. Same(config, op.wanted)
      BY <1>2, <2>1, <3>1 DEF ConfigIsWanted
    <3>3. QED BY <1>2, <3>1, <3>2 DEF Same
  <2>2. ASSUME Running', ~drifted' PROVE (op.program = Program(op.wanted, op.kind, op.program.restore))'
    <3>1. CASE op' = op /\ Running
      BY <1>2, <2>2, <3>1 DEF ConfigIsWanted, Program, BackupOf
    <3>2. CASE Deliver
      <4>1. asked # 0 /\ config # Absent
        BY <3>2 DEF Deliver, RestoreInOrder
      <4>2. asked > 0
        BY <4>1 DEF TypeOK
      <4>3. Same(config, op.wanted)
        BY <1>2, <2>2, <4>1, <4>2 DEF ConfigIsWanted
      <4>4. op'.program = Program(config, op.kind, RestoreOutputs(op.restore))
        BY <3>2 DEF Deliver, TypeOK, Operations
      <4>5. op'.program = Program(op.wanted, op.kind, RestoreOutputs(op.restore))
        BY <4>3, <4>4, ProgramOfSame
      <4>6. op'.program.restore = RestoreOutputs(op.restore)
        BY <4>5 DEF Program
      <4>7. op'.program = Program(op.wanted, op.kind, op'.program.restore)
        BY <4>5, <4>6
      <4>8. QED BY <1>2, <4>7 DEF Program, BackupOf
    <3>3. QED BY <1>2, <2>2, <3>1, <3>2, OperationStep DEF TypeOK
  <2>3. QED BY <2>1, <2>2 DEF ConfigIsWanted
<1>3. QED BY <1>1, <1>2, AcceptOrGoOn

-----------------------------------------------------------------------------
\* The calls after the deployment of a create or an update.
Late == pc \in {"stamp", "start", "health"}

LEMMA AfterDeployment ==
    ASSUME TypeOK, CallBelongsToFlow, Deploys, pc \in {"start", "health"}
    PROVE  op.flow \in {"resize", "recreate"} /\ executor = "local"
<1>1. op.flow \in Flows /\ pc \in CallsOf(op.flow)
  BY DEF TypeOK, Operations, CallBelongsToFlow, Running
<1>2. op.flow = Flow(op.kind) /\ executor \in {"local", "cloud"}
  BY DEF CallBelongsToFlow, TypeOK
<1>3. op.flow \in {"resize", "recreate"}
  BY <1>1, <1>2 DEF CallsOf, Flows, Flow, Deploys, Changes
<1>4. executor # "cloud"
  BY <1>2, <1>3 DEF Flow, Deploys, Changes
<1>5. QED BY <1>2, <1>3, <1>4

LEMMA LateCalls ==
    ASSUME TypeOK, CallBelongsToFlow, Deploys, [Next]_vars, asked' = asked
    PROVE  /\ pc \in {"idle", "start", "health"} => pc' \in {"idle", "start", "health"}
           /\ pc' \in {"start", "health"} => Late
<1>b. op.flow \in Flows /\ (Running => pc \in CallsOf(op.flow))
  BY DEF TypeOK, Operations, CallBelongsToFlow
<1>k. op.flow = Flow(op.kind) /\ op.flow \notin {"destroy", "restore"}
  BY DEF CallBelongsToFlow, Flow, Deploys, Changes
<1>1. CASE pc' = pc
  BY <1>1 DEF Late
<1>2. CASE Requests
  <2>1. ASSUME NEW kind, NEW wanted, NEW restore, Accept(kind, wanted, restore) PROVE FALSE
    BY <2>1 DEF Accept, TypeOK
  <2>2. CASE Refused
    BY <1>1, <2>2 DEF Refused, progress
  <2>3. QED
    BY <1>2, <2>1, <2>2 DEF Requests, Create, Update, DestroyServer, RestoreServer
<1>3. CASE Skip \/ Deliver
  BY <1>3 DEF Skip, Deliver, First
<1>4. CASE Ignored \/ UpsertStack \/ SaveWorld \/ RestoreWorld \/ StopInstance \/ StartInstance
           \/ UpStack \/ GiveUp \/ StampServerConfig
  <2>1. Running /\ pc # "idle"
    BY <1>4 DEF Ignored, UpsertStack, SaveWorld, RestoreWorld, StopInstance, StartInstance,
       UpStack, GiveUp, StampServerConfig, Running
  <2>2. Advance(pc) \/ Fail(pc) \/ pc' = "idle" \/ pc' = pc
    BY <1>4 DEF Ignored, UpsertStack, SaveWorld, RestoreWorld, StopInstance, StartInstance,
       UpStack, GiveUp, StampServerConfig, TryAgain
  <2>3. CASE Advance(pc)
    BY <2>1, <2>3, <1>b, <1>k DEF Advance, AfterCall, CallsOf, Flows, Late
  <2>4. CASE Fail(pc)
    <3>1. pc \in {"start", "health"} => pc' = "idle"
      BY <2>4, AfterDeployment DEF Fail, AfterError
    <3>2. pc' \notin {"start", "health"}
      BY <2>4 DEF Fail, AfterError
    <3>3. QED BY <2>1, <3>1, <3>2
  <2>5. CASE pc' = "idle"
    BY <2>5
  <2>6. QED BY <2>2, <2>3, <2>4, <2>5, <1>1
<1>5. CASE DestroyStack
  BY <1>5, <1>b, <1>k DEF DestroyStack, Running, CallsOf, Flows
<1>6. CASE Forget
  BY <1>6, <1>1 DEF Forget
<1>7. CASE Surroundings
  <2>1. CASE Crash
    BY <2>1, AfterDeployment DEF Crash
  <2>2. CASE Timeout \/ Upgrade \/ VMStops \/ VMStarts \/ OperatorCleansUp
    BY <2>2, <1>1 DEF Timeout, Upgrade, VMStops, VMStarts, OperatorCleansUp
  <2>3. QED BY <1>7, <2>1, <2>2 DEF Surroundings
<1>8. CASE UNCHANGED vars
  BY <1>8, <1>1 DEF vars, progress
<1>9. QED BY <1>2, <1>3, <1>4, <1>5, <1>6, <1>7, <1>8 DEF Next, Step

\* What a step can do to the record.
LEMMA RecordStep ==
    ASSUME TypeOK, CallBelongsToFlow, [Next]_vars
    PROVE  \/ record' = record
           \/ asked' = asked /\ record'.by = asked /\ record'.state # "COMPLETED"
           \/ asked' = asked /\ record'.by = asked /\ Late /\ stack' = stack
                 /\ pc' = AfterCall(op.flow, pc)
           \/ asked' = asked /\ record'.by = asked /\ pc = "destroy"
           \/ asked' = asked + 1 /\ record'.by = asked + 1 /\ record'.state = "IN_PROGRESS"
<1>1. ASSUME NEW kind, NEW wanted, NEW restore, Accept(kind, wanted, restore)
      PROVE  \/ record' = record
             \/ asked' = asked + 1 /\ record'.by = asked + 1 /\ record'.state = "IN_PROGRESS"
  BY <1>1 DEF Accept
<1>2. CASE Requests
  BY <1>1, <1>2 DEF Requests, Create, Update, DestroyServer, RestoreServer, Refused, progress
<1>3. CASE Skip \/ Deliver
  BY <1>3 DEF Skip, Deliver
<1>f. ASSUME Fail(pc), asked' = asked
      PROVE  record' = record \/ (asked' = asked /\ record'.by = asked /\ record'.state # "COMPLETED")
  BY <1>f DEF Fail, UpdateStatus
<1>a. ASSUME Advance(pc), asked' = asked, pc \in {"list", "refresh", "upsert", "save", "restore", "stop", "up"}
      PROVE  record' = record \/ (asked' = asked /\ record'.by = asked /\ record'.state # "COMPLETED")
  BY <1>a DEF Advance, UpdateStatus, StateAfter
<1>l. ASSUME Advance(pc), asked' = asked, Late, stack' = stack
      PROVE  record' = record \/ (asked' = asked /\ record'.by = asked /\ Late /\ stack' = stack
                                   /\ pc' = AfterCall(op.flow, pc))
  BY <1>l DEF Advance, UpdateStatus
<1>4. CASE Ignored
  BY <1>4, <1>a, <1>l DEF Ignored, Context, server, Late
<1>5. CASE StartInstance
  BY <1>5, <1>f, <1>l DEF StartInstance, Context, Late
<1>6. CASE StampServerConfig
  BY <1>6, <1>f, <1>l DEF StampServerConfig, Context, Late
<1>7. CASE UpsertStack \/ SaveWorld \/ RestoreWorld \/ StopInstance \/ GiveUp
  BY <1>7, <1>f, <1>a DEF UpsertStack, SaveWorld, RestoreWorld, StopInstance, GiveUp, Context
<1>8. CASE UpStack
  BY <1>8, <1>f, <1>a DEF UpStack, TryAgain, Context
<1>9. CASE DestroyStack
  BY <1>9 DEF DestroyStack, TryAgain, FailDestroy, Fail, UpdateStatus
<1>10. CASE Forget
  BY <1>10 DEF Forget
<1>11. CASE Surroundings
  BY <1>11 DEF Surroundings, Timeout, Crash, Upgrade, VMStops, VMStarts, OperatorCleansUp, Others
<1>12. CASE UNCHANGED vars
  BY <1>12 DEF vars, progress
<1>13. QED
  BY <1>2, <1>3, <1>4, <1>5, <1>6, <1>7, <1>8, <1>9, <1>10, <1>11, <1>12 DEF Next, Step

LEMMA DeployedAfterUp ==
    ASSUME TypeOK, CallBelongsToFlow, ConfigIsWanted, pc = "up", Deploy, ~drifted,
           op'.kind = op.kind, op'.wanted = op.wanted, executor' = executor
    PROVE  Deployed(op.wanted)'
<1>1. op.program = Program(op.wanted, op.kind, op.program.restore)
  BY DEF ConfigIsWanted, Running
<1>2. /\ op.program.machine = op.wanted.machine /\ op.program.game = op.wanted.game
      /\ (op.kind = "agent" /\ executor = "local") \/ op.program.backup = op.wanted.backup
  BY <1>1 DEF Program, BackupOf
<1>3. QED BY <1>2, DeployData DEF Deployed, Render

LEMMA DeployedStays ==
    ASSUME TypeOK, [Next]_vars, Deployed(op.wanted), pc \in {"idle", "stamp", "start", "health"},
           record.state # "FAILED" \/ pc # "idle",
           op'.kind = op.kind, op'.wanted = op.wanted, executor' = executor
    PROVE  Deployed(op.wanted)'
<1>1. CASE stack' = stack
  BY <1>1 DEF Deployed
<1>2. CASE MintToken
  <2>1. stack.data.vm /\ stack.data \in UserData
    BY DataType DEF Deployed
  <2>2. QED BY <1>2, <2>1, MintKeeps DEF Deployed
<1>3. QED BY <1>1, <1>2, StackStep

LEMMA RecordInOrderStep ==
    ASSUME TypeOK, CallBelongsToFlow, MachineIsInStack, RestoreInOrder, ConfigIsWanted,
           RecordInOrder, [Next]_vars
    PROVE  RecordInOrder'
<1>0. asked \in Nat /\ asked' \in Nat /\ record.by \in Nat
  BY OperationStep, BoundsType DEF TypeOK
<1>1. record'.by <= asked'
  BY <1>0, RecordStep, OperationStep DEF RecordInOrder
<1>2. asked' = 0 => pc' = "idle" /\ record'.state = "NONE"
  <2>1. SUFFICES ASSUME asked' = 0 PROVE pc' = "idle" /\ record'.state = "NONE"
    OBVIOUS
  <2>2. pc' = "idle" /\ asked = 0 /\ pc = "idle" /\ record.state = "NONE"
    BY <2>1, <1>0, FreshStep, OperationStep DEF RecordInOrder
  <2>3. record' = record
    <3>1. CASE Requests
      <4>1. ASSUME NEW kind, NEW wanted, NEW restore, Accept(kind, wanted, restore) PROVE FALSE
        BY <2>1, <4>1, <1>0 DEF Accept
      <4>2. QED
        BY <3>1, <4>1 DEF Requests, Create, Update, DestroyServer, RestoreServer, Refused, progress
    <3>2. CASE Skip \/ Deliver
      BY <3>2 DEF Skip, Deliver
    <3>3. CASE Step
      BY <2>2, <3>3 DEF Step, Ignored, UpsertStack, SaveWorld, RestoreWorld, StopInstance, StartInstance,
         UpStack, DestroyStack, GiveUp, Forget, StampServerConfig
    <3>4. CASE Surroundings
      BY <3>4 DEF Surroundings, Timeout, Crash, Upgrade, VMStops, VMStarts, OperatorCleansUp, Others
    <3>5. CASE UNCHANGED vars
      BY <3>5 DEF vars, progress
    <3>6. QED BY <3>1, <3>2, <3>3, <3>4, <3>5 DEF Next
  <2>4. QED BY <2>2, <2>3
<1>3. ASSUME record'.by = asked', record'.state = "COMPLETED", Deploys'
      PROVE  pc' \in {"idle", "start", "health"}
  <2>1. asked' = asked /\ op'.kind = op.kind
    <3>1. ASSUME NEW kind \in Kinds, NEW wanted \in Configs, NEW restore \in BOOLEAN,
                 Accept(kind, wanted, restore)
          PROVE  FALSE
      BY <1>0, <1>3, <3>1 DEF Accept, RecordInOrder
    <3>2. QED BY <3>1, AcceptOrGoOn
  <2>2. Deploys
    BY <2>1, <1>3 DEF Deploys
  <2>3. CASE record' = record
    BY <2>1, <2>2, <2>3, <1>3, LateCalls DEF RecordInOrder
  <2>4. CASE Late /\ pc' = AfterCall(op.flow, pc)
    BY <2>4 DEF Late, AfterCall
  <2>5. CASE pc = "destroy"
    <3>1. op.flow \in Flows /\ op.flow = Flow(op.kind) /\ pc \in CallsOf(op.flow)
      BY <2>5 DEF TypeOK, Operations, CallBelongsToFlow, Running
    <3>2. QED BY <3>1, <2>2, <2>5 DEF CallsOf, Flows, Flow, Deploys, Changes
  <2>6. QED BY <1>0, <1>3, <2>1, <2>3, <2>4, <2>5, RecordStep
<1>4. ASSUME Deploys', pc' \in {"stamp", "start", "health"}, ~drifted'
      PROVE  Deployed(op.wanted)'
  <2>1. /\ asked' = asked /\ op'.kind = op.kind /\ op'.wanted = op.wanted
        /\ executor' = executor /\ ~drifted
    <3>1. ASSUME NEW kind \in Kinds, NEW wanted \in Configs, NEW restore \in BOOLEAN,
                 Accept(kind, wanted, restore)
          PROVE  FALSE
      <4>1. pc' \in {"queued", First(Flow(kind))}
        BY <3>1, Zenon DEF Accept
      <4>2. QED BY <1>4, <4>1 DEF First
    <3>2. QED BY <1>4, <3>1, AcceptOrGoOn
  <2>2. Deploys
    BY <2>1, <1>4 DEF Deploys
  <2>3. CASE Late
    <3>1. Deployed(op.wanted)
      BY <2>1, <2>2, <2>3 DEF RecordInOrder, Late
    <3>2. QED BY <3>1, <2>1, <2>3, DeployedStays DEF Late
  <2>4. CASE pc = "up" /\ Deploy
    BY <2>1, <2>4, DeployedAfterUp
  <2>5. pc' = "stamp" => Late \/ (pc = "up" /\ Deploy)
    BY StampComes DEF Late
  <2>6. pc' \in {"start", "health"} => Late
    BY <2>1, <2>2, LateCalls
  <2>7. QED BY <1>4, <2>3, <2>4, <2>5, <2>6
<1>5. QED BY <1>1, <1>2, <1>3, <1>4 DEF RecordInOrder

LEMMA CompletedStep ==
    ASSUME TypeOK, CallBelongsToFlow, RecordInOrder, CompletedIsWanted, [Next]_vars
    PROVE  CompletedIsWanted'
<1>0. asked \in Nat /\ record.by \in Nat
  BY BoundsType DEF TypeOK
<1>1. SUFFICES ASSUME record'.by = asked', record'.state = "COMPLETED", Deploys', ~drifted'
               PROVE  Deployed(op.wanted)'
  BY DEF CompletedIsWanted
<1>2. /\ asked' = asked /\ op'.kind = op.kind /\ op'.wanted = op.wanted
      /\ executor' = executor /\ ~drifted
  <2>1. ASSUME NEW kind \in Kinds, NEW wanted \in Configs, NEW restore \in BOOLEAN,
               Accept(kind, wanted, restore)
        PROVE  FALSE
    BY <1>0, <1>1, <2>1 DEF Accept, RecordInOrder
  <2>2. QED BY <1>1, <2>1, AcceptOrGoOn
<1>3. Deploys
  BY <1>1, <1>2 DEF Deploys
<1>4. CASE record' = record
  <2>1. Deployed(op.wanted) /\ pc \in {"idle", "start", "health"}
    BY <1>1, <1>2, <1>3, <1>4 DEF CompletedIsWanted, RecordInOrder
  <2>2. record.state # "FAILED"
    BY <1>1, <1>4
  <2>3. QED BY <1>2, <2>1, <2>2, DeployedStays
<1>5. CASE Late
  <2>1. Deployed(op.wanted)
    BY <1>2, <1>3, <1>5 DEF RecordInOrder, Late
  <2>2. QED BY <1>2, <1>5, <2>1, DeployedStays DEF Late
<1>6. CASE pc = "destroy"
  <2>1. op.flow \in Flows /\ op.flow = Flow(op.kind) /\ pc \in CallsOf(op.flow)
    BY <1>6 DEF TypeOK, Operations, CallBelongsToFlow, Running
  <2>2. QED BY <2>1, <1>3, <1>6 DEF CallsOf, Flows, Flow, Deploys, Changes
<1>7. QED BY <1>0, <1>1, <1>2, <1>4, <1>5, <1>6, RecordStep

-----------------------------------------------------------------------------
(***************************************************************************)
(* What a step does to the operation under way and to its record: one is   *)
(* accepted, or the record is left alone, or one of three states is stored.*)
(***************************************************************************)
Accepts ==
    /\ pc = "idle" /\ pc' # "idle" /\ asked < MaxRequests /\ asked' = asked + 1
    /\ \/ record' = record
       \/ record' = [by |-> asked + 1, state |-> "IN_PROGRESS"] /\ pc' = "queued"

GoesOn ==
    /\ asked' = asked /\ record' = record
    /\ pc = "idle" => pc' = "idle"
    /\ pc = "queued" => pc' \in {"queued", "idle"} \/ record.state = "IN_PROGRESS"
    /\ pc \in {"start", "health", "forget"}
           => pc' \in {"idle", "queued", "start", "health", "forget"}
    /\ pc = "recover" => pc' \in {"idle", "queued", "recover"}

Stores(state) ==
    asked' = asked /\ pc \notin {"idle", "queued"} /\ record' = [by |-> asked, state |-> state]

GoesWrong ==
    Stores("FAILED") /\ pc \notin {"recover", "forget"} /\ pc' \in {"recover", "queued", "idle"}

GoesWell ==
    /\ Stores("COMPLETED") /\ pc \notin {"recover", "forget"}
    /\ pc' \in {"idle", "start", "health", "forget"}

IsUnderWay == Stores("IN_PROGRESS") /\ pc \notin {"start", "health", "recover", "forget"}

LEMMA AcceptAccepts ==
    ASSUME TypeOK, NEW kind, NEW wanted, NEW restore, Accept(kind, wanted, restore)
    PROVE  Accepts
  BY DEF Accept, Admits, Accepts, First

LEMMA FailOutcome ==
    ASSUME TypeOK, asked' = asked, Fail(pc),
           pc \notin {"idle", "queued", "recover", "forget"}
    PROVE  GoesOn \/ GoesWrong
<1>1. pc' \in {"recover", "queued", "idle"}
  BY DEF Fail, AfterError
<1>2. pc \in {"start", "health"} => pc' \in {"queued", "idle"}
  BY DEF Fail, AfterError
<1>3. QED BY <1>1, <1>2 DEF Fail, UpdateStatus, GoesOn, GoesWrong, Stores

LEMMA AdvanceOutcome ==
    ASSUME TypeOK, asked' = asked, Advance(pc),
           pc \notin {"idle", "queued", "recover", "forget", "destroy"}
    PROVE  GoesOn \/ GoesWell \/ IsUnderWay
<1>1. pc \in {"start", "health"} => pc' \in {"idle", "health"}
  BY DEF Advance, AfterCall
<1>2. pc = "stamp" => pc' \in {"start", "health", "idle"}
  BY DEF Advance, AfterCall
<1>3. CASE record' = record
  BY <1>1, <1>3 DEF GoesOn
<1>4. CASE record' = [by |-> asked, state |-> StateAfter(pc)]
  <2>1. CASE pc \in {"stamp", "start", "health"}
    BY <1>1, <1>2, <1>4, <2>1 DEF GoesWell, Stores, StateAfter
  <2>2. CASE pc \notin {"stamp", "start", "health"}
    BY <1>4, <2>2 DEF IsUnderWay, Stores, StateAfter
  <2>3. QED BY <2>1, <2>2
<1>5. QED BY <1>3, <1>4 DEF Advance, UpdateStatus

LEMMA Outcome ==
    ASSUME TypeOK, CallBelongsToFlow, [Next]_vars
    PROVE  Accepts \/ GoesOn \/ GoesWrong \/ GoesWell \/ IsUnderWay
<1>1. CASE Requests
  BY <1>1, AcceptAccepts
     DEF Requests, Create, Update, DestroyServer, RestoreServer, Refused, progress, GoesOn
<1>2. CASE Skip \/ Deliver
  BY <1>2 DEF Skip, Deliver, GoesOn
<1>3. CASE Ignored \/ UpsertStack \/ SaveWorld \/ RestoreWorld \/ StopInstance \/ GiveUp
           \/ StampServerConfig
  <2>1. asked' = asked /\ pc \notin {"idle", "queued", "recover", "forget"}
    BY <1>3 DEF Ignored, UpsertStack, SaveWorld, RestoreWorld, StopInstance, GiveUp,
       StampServerConfig, Context
  <2>2. Fail(pc) \/ (Advance(pc) /\ pc # "destroy")
    BY <1>3 DEF Ignored, UpsertStack, SaveWorld, RestoreWorld, StopInstance, GiveUp,
       StampServerConfig
  <2>3. QED BY <2>1, <2>2, FailOutcome, AdvanceOutcome
<1>4. CASE StartInstance
  <2>1. asked' = asked /\ pc \in {"start", "recover"}
    BY <1>4 DEF StartInstance, Context
  <2>2. CASE pc = "start" /\ (Advance(pc) \/ Fail(pc))
    BY <2>1, <2>2, FailOutcome, AdvanceOutcome
  <2>3. CASE pc' = "idle" /\ UNCHANGED record
    BY <2>1, <2>3 DEF GoesOn
  <2>4. QED BY <1>4, <2>2, <2>3 DEF StartInstance
<1>5. CASE UpStack
  <2>1. asked' = asked /\ pc = "up"
    BY <1>5 DEF UpStack, Context
  <2>2. CASE Advance(pc) \/ Fail(pc)
    BY <2>1, <2>2, FailOutcome, AdvanceOutcome
  <2>3. CASE TryAgain
    BY <2>1, <2>3 DEF TryAgain, GoesOn
  <2>4. QED BY <1>5, <2>2, <2>3 DEF UpStack
<1>6. CASE DestroyStack
  <2>1. asked' = asked /\ pc = "destroy"
    BY <1>6 DEF DestroyStack
  <2>2. CASE Fail(pc)
    BY <2>1, <2>2, FailOutcome
  <2>3. CASE TryAgain
    BY <2>1, <2>3 DEF TryAgain, GoesOn
  <2>4. CASE UpdateStatus(StateAfter(pc)) /\ pc' = IF executor = "local" THEN "forget" ELSE "idle"
    BY <2>1, <2>4 DEF UpdateStatus, StateAfter, GoesOn, GoesWell, Stores
  <2>5. QED BY <1>6, <2>2, <2>3, <2>4, Zenon DEF DestroyStack, FailDestroy
<1>7. CASE Forget
  BY <1>7 DEF Forget, GoesOn
<1>8. CASE Surroundings
  BY <1>8 DEF Surroundings, Timeout, Crash, Upgrade, VMStops, VMStarts, OperatorCleansUp, Others,
     GoesOn
<1>9. CASE UNCHANGED vars
  BY <1>9 DEF vars, progress, GoesOn
<1>10. QED
  BY <1>1, <1>2, <1>3, <1>4, <1>5, <1>6, <1>7, <1>8, <1>9 DEF Next, Step

LEMMA ResultsInOrderStep ==
    ASSUME TypeOK, CallBelongsToFlow, RecordInOrder, ResultsInOrder, [Next]_vars
    PROVE  ResultsInOrder'
<1>0. asked \in Nat /\ record.by \in Nat /\ record.by <= asked
  BY BoundsType DEF TypeOK, RecordInOrder
<1>1. CASE Accepts
  BY <1>0, <1>1 DEF Accepts, ResultsInOrder
<1>2. CASE GoesOn
  BY <1>2 DEF GoesOn, ResultsInOrder
<1>3. CASE GoesWrong \/ GoesWell \/ IsUnderWay
  BY <1>3 DEF GoesWrong, GoesWell, IsUnderWay, Stores, ResultsInOrder
<1>4. QED BY <1>1, <1>2, <1>3, Outcome

LEMMA TriesStep ==
    ASSUME TypeOK, TriesInOrder, [Next]_vars PROVE TriesInOrder'
<1>1. CASE tries' = 0 \/ (tries' = tries /\ pc' = pc)
  BY <1>1 DEF TriesInOrder
<1>2. CASE Requests
  BY <1>1, <1>2 DEF Requests, Create, Update, DestroyServer, RestoreServer, Accept, Refused, progress
<1>3. CASE Skip \/ Deliver
  BY <1>1, <1>3 DEF Skip, Deliver, TriesInOrder
<1>4. CASE Ignored \/ UpsertStack \/ SaveWorld \/ RestoreWorld \/ StopInstance \/ StartInstance
           \/ StampServerConfig
  <2>1. tries' = tries /\ pc \notin {"up", "destroy"}
    BY <1>4 DEF Ignored, UpsertStack, SaveWorld, RestoreWorld, StopInstance, StartInstance,
       StampServerConfig
  <2>2. QED BY <2>1 DEF TriesInOrder
<1>5. CASE UpStack \/ DestroyStack \/ GiveUp
  BY <1>1, <1>5 DEF UpStack, DestroyStack, GiveUp, TryAgain, TriesInOrder
<1>6. CASE Forget
  BY <1>1, <1>6 DEF Forget, TriesInOrder
<1>7. CASE Surroundings
  BY <1>1, <1>7 DEF Surroundings, Timeout, Crash, Upgrade, VMStops, VMStarts, OperatorCleansUp
<1>8. CASE UNCHANGED vars
  BY <1>1, <1>8 DEF vars, progress
<1>9. QED BY <1>2, <1>3, <1>4, <1>5, <1>6, <1>7, <1>8 DEF Next, Step

-----------------------------------------------------------------------------
LEMMA InitInv == ASSUME Init PROVE IInv
<1>1. TypeOK
  BY InitType
<1>2. Bounded /\ CallBelongsToFlow /\ ~owed /\ ~forgetting
  <2>1. ~owed /\ ~forgetting
    BY Zenon DEF Init
  <2>2. pc = "idle" /\ op.flow = "create" /\ op.kind = "create"
    BY DEF Init
  <2>3. QED
    BY <2>1, <2>2, Zenon DEF Bounded, CallBelongsToFlow, Running, Flow, Changes
<1>3. SavedBefore /\ OwedDuringResize
  BY <1>2, Zenon DEF Init, SavedBefore, OwedDuringResize
<1>4. ~stack.data.vm /\ config = Absent /\ asked = 0 /\ pc = "idle" /\ vm = "none" /\ world = "none"
      /\ record.by = 0 /\ record.state = "NONE" /\ tries = 0
  BY DEF Init, NoStack
<1>5. MachineIsInStack /\ VersionsInOrder /\ RestoreInOrder /\ StampedIsDeployed /\ FirstBootRestores
  BY <1>4 DEF MachineIsInStack, VersionsInOrder, RestoreInOrder, StampedIsDeployed, FirstBootRestores
<1>6. /\ ConfigIsWanted /\ RecordInOrder /\ CompletedIsWanted /\ ResultsInOrder
      /\ TriesInOrder
  BY <1>4 DEF ConfigIsWanted, Running, RecordInOrder, CompletedIsWanted, ResultsInOrder, TriesInOrder
<1>7. QED BY <1>1, <1>2, <1>3, <1>5, <1>6 DEF IInv

LEMMA StepInv == ASSUME IInv, [Next]_vars PROVE IInv'
<1>1. TypeOK' /\ Bounded' /\ CallBelongsToFlow'
  BY TypeStep, BoundedStep, FlowStep DEF IInv
<1>2. MachineIsInStack' /\ SavedBefore' /\ OwedDuringResize'
  BY MachineStep, SavedStep, OwedStep DEF IInv
<1>3. VersionsInOrder' /\ StampedIsDeployed'
  BY <1>1, VersionStep, StampedStep DEF IInv
<1>4. RestoreInOrder' /\ FirstBootRestores'
  BY RestoreStep DEF IInv
<1>5. ConfigIsWanted' /\ RecordInOrder' /\ CompletedIsWanted'
  BY ConfigIsWantedStep, RecordInOrderStep, CompletedStep DEF IInv
<1>6. ResultsInOrder' /\ TriesInOrder'
  BY ResultsInOrderStep, TriesStep DEF IInv
<1>7. QED BY <1>1, <1>2, <1>3, <1>4, <1>5, <1>6 DEF IInv

(***************************************************************************)
(* The inductive invariant holds: types, the order of the calls of a flow  *)
(* and of the versions, what is saved, owed, restored and recorded when.   *)
(***************************************************************************)
THEOREM InvariantHolds == Spec => []IInv
<1>1. Init => IInv
  BY InitInv
<1>2. IInv /\ [Next]_vars => IInv'
  BY StepInv
<1>3. QED BY <1>1, <1>2, PTL DEF Spec

(***************************************************************************)
(* A resize that has stopped the machine does not end without trying to    *)
(* start it, whichever of its calls fails (runResizeUpdate's deferred      *)
(* restart).                                                               *)
(***************************************************************************)
THEOREM RestartHolds == Spec => []RestartIsTried
<1>1. IInv => RestartIsTried
  <2>1. SUFFICES ASSUME IInv, owed PROVE pc \notin {"idle", "queued"}
    BY Zenon DEF RestartIsTried
  <2>2. MayOwe
    BY <2>1, OwedMeaning, Zenon DEF IInv
  <2>3. QED BY <2>2 DEF MayOwe
<1>2. QED BY <1>1, InvariantHolds, PTL

(***************************************************************************)
(* A create or an update that is COMPLETED has deployed the config it was  *)
(* accepted with, on both executors and after any retries.                 *)
(***************************************************************************)
THEOREM CompletedHolds == Spec => []CompletedIsWanted
<1>1. IInv => CompletedIsWanted
  BY DEF IInv
<1>2. QED BY <1>1, InvariantHolds, PTL

(***************************************************************************)
(* A server created from a backup never boots its first program without    *)
(* the restore, also when the controller dies and the task is redelivered. *)
(***************************************************************************)
THEOREM FirstBootHolds == Spec => []FirstBootRestores
<1>1. IInv => FirstBootRestores
  BY DEF IInv
<1>2. QED BY <1>1, InvariantHolds, PTL

(***************************************************************************)
(* stampServerConfig never stamps a version that is not on the machine,    *)
(* and nothing afterwards puts an older version there.                     *)
(***************************************************************************)
THEOREM StampedHolds == Spec => []StampedIsDeployed
<1>1. IInv => StampedIsDeployed
  BY DEF IInv
<1>2. QED BY <1>1, InvariantHolds, PTL

(***************************************************************************)
(* runRecreateUpdate and runRestore reach the call that overwrites the     *)
(* machine or its world only with their own save acknowledged.             *)
(***************************************************************************)
THEOREM SaveComesFirst == Spec => SavesFirst
<1>1. ASSUME IInv, [Next]_vars PROVE [Overwrites => saved]_vars
  <2>1. SUFFICES ASSUME Overwrites PROVE saved
    OBVIOUS
  <2>2. CASE op.flow = "recreate" /\ pc = "up"
    <3>1. NeedsSave
      BY <2>2 DEF NeedsSave
    <3>2. QED BY <3>1, <1>1, SavedMeaning, Zenon DEF IInv
  <2>3. CASE pc = "restore"
    <3>1. op.flow \in Flows /\ pc \in CallsOf(op.flow)
      BY <1>1, <2>3 DEF IInv, TypeOK, Operations, CallBelongsToFlow, Running
    <3>2. NeedsSave
      BY <3>1, <2>3 DEF CallsOf, Flows, NeedsSave
    <3>3. QED BY <3>2, <1>1, SavedMeaning, Zenon DEF IInv
  <2>4. QED BY <2>1, <2>2, <2>3 DEF Overwrites
<1>2. QED BY <1>1, InvariantHolds, PTL DEF Spec, SavesFirst

LEMMA ForgetDeletes ==
    ASSUME TypeOK, [Next]_vars, config # Absent, config' = Absent
    PROVE  pc = "forget" \/ forgetting
<1>1. ASSUME NEW c \in Configs PROVE c # Absent
  BY DEF Configs
<1>2. ASSUME NEW kind \in Changes, config' \in Wanted(kind) PROVE FALSE
  <2>1. config \in Configs
    BY DEF TypeOK
  <2>2. QED BY <1>1, <1>2, <2>1, WantedType
<1>3. CASE Create
  BY <1>3 DEF Create, Accept
<1>4. CASE Update
  BY <1>4, <1>2 DEF Update, Accept
<1>5. CASE DestroyServer \/ RestoreServer
  BY <1>5 DEF DestroyServer, RestoreServer, Accept
<1>6. CASE Refused
  BY <1>6, <1>2 DEF Refused, Changes
<1>7. CASE StampServerConfig
  <2>1. CASE config' = [config EXCEPT !.infra = Stamped]
    <3>1. config \in Configs
      BY DEF TypeOK
    <3>2. QED BY <2>1, <3>1 DEF Configs
  <2>2. QED BY <1>7, <2>1 DEF StampServerConfig
<1>8. CASE Forget
  BY <1>8, Zenon DEF Forget
<1>9. ASSUME ~Requests, ~StampServerConfig, ~Forget PROVE FALSE
  <2>1. CASE Skip \/ Deliver
    BY <2>1 DEF Skip, Deliver, server
  <2>2. CASE Step
    BY <2>2, <1>9 DEF Step, Ignored, UpsertStack, SaveWorld, RestoreWorld, StopInstance, StartInstance,
       UpStack, DestroyStack, GiveUp, server
  <2>3. CASE Surroundings
    BY <2>3 DEF Surroundings, Timeout, Crash, Upgrade, VMStops, VMStarts, OperatorCleansUp, Others,
       server
  <2>4. CASE UNCHANGED vars
    BY <2>4 DEF vars, server
  <2>5. QED BY <1>9, <2>1, <2>2, <2>3, <2>4 DEF Next
<1>10. QED BY <1>3, <1>4, <1>5, <1>6, <1>7, <1>8, <1>9 DEF Requests

(***************************************************************************)
(* With the goroutine executor the stored config of a server is deleted    *)
(* only when its stack has been destroyed.                                 *)
(***************************************************************************)
THEOREM DeletionIsLast == Spec => DeletedLeavesNothing
<1>1. ASSUME IInv, [Next]_vars
      PROVE  [executor = "local" /\ config # Absent /\ config' = Absent => ~stack.exists]_vars
  <2>1. SUFFICES ASSUME executor = "local", config # Absent, config' = Absent PROVE ~stack.exists
    OBVIOUS
  <2>2. pc = "forget" \/ forgetting
    BY <1>1, <2>1, ForgetDeletes DEF IInv
  <2>3. ~forgetting
    BY <1>1, <2>1, Zenon DEF IInv, CallBelongsToFlow
  <2>4. QED BY <1>1, <2>2, <2>3 DEF IInv, MachineIsInStack
<1>2. QED BY <1>1, InvariantHolds, PTL DEF Spec, DeletedLeavesNothing

-----------------------------------------------------------------------------
(***************************************************************************)
(* The operation seen from inside implements SerialOperations.             *)
(***************************************************************************)
phases == [n \in 1..MaxRequests |-> Phase(n)]
records == [s \in {"server"} |-> [op |-> record.by, state |-> record.state]]

LEMMA NumberOfOperations ==
    ASSUME TypeOK
    PROVE  /\ MaxRequests \in Nat /\ asked \in Nat /\ asked <= MaxRequests
           /\ \A n \in 1..MaxRequests : n \in Nat /\ n > 0
  BY BoundsType DEF TypeOK

LEMMA AcceptIsSerial ==
    ASSUME TypeOK, RecordInOrder, Accepts
    PROVE  Serial!Accept(asked + 1)
<1>0. asked + 1 \in 1..MaxRequests /\ asked' = asked + 1 /\ pc = "idle" /\ pc' # "idle"
  BY NumberOfOperations DEF Accepts
<1>1. \A n \in 1..MaxRequests : phases[n] = IF n > asked THEN "new" ELSE "over"
  BY <1>0 DEF phases, Phase
<1>2. phases' = [phases EXCEPT ![asked + 1] = "running"]
  <2>1. \A n \in 1..MaxRequests : n # asked + 1 => Phase(n)' = Phase(n)
    BY <1>0, NumberOfOperations DEF Phase
  <2>2. \A n \in 1..MaxRequests : n = asked + 1 => Phase(n)' = "running"
    BY <1>0, NumberOfOperations DEF Phase
  <2>3. QED BY <1>0, <2>1, <2>2 DEF phases
<1>3. phases[asked + 1] = "new"
  BY <1>0, <1>1, NumberOfOperations
<1>4. {n \in 1..MaxRequests : /\ [m \in 1..MaxRequests |-> "server"][n] = "server"
                              /\ phases[n] = "running"} = {}
  BY <1>1
<1>5. records' \in {records, [records EXCEPT !["server"] = [op |-> asked + 1, state |-> "IN_PROGRESS"]]}
  <2>1. CASE record' = record
    BY <2>1 DEF records
  <2>2. CASE record' = [by |-> asked + 1, state |-> "IN_PROGRESS"]
    BY <2>2 DEF records
  <2>3. QED BY <2>1, <2>2 DEF Accepts
<1>6. QED BY <1>0, <1>2, <1>3, <1>4, <1>5
          DEF Serial!Accept, Serial!Running, Serial!Stored, phases, records

LEMMA StoreIsSerial ==
    ASSUME TypeOK, RecordInOrder, ResultsInOrder, NEW state, Stores(state),
           \/ GoesWrong /\ state = "FAILED"
           \/ GoesWell /\ state = "COMPLETED"
           \/ IsUnderWay /\ state = "IN_PROGRESS"
    PROVE  Serial!Store(asked, state)
<1>0. asked \in 1..MaxRequests /\ asked' = asked /\ pc # "idle"
  BY NumberOfOperations DEF Stores, RecordInOrder
<1>1. phases[asked] = "running"
  BY <1>0, NumberOfOperations DEF phases, Phase
<1>2. \A n \in 1..MaxRequests : n # asked => Phase(n)' = Phase(n)
  BY <1>0, NumberOfOperations DEF Phase
<1>3. Phase(asked)' = IF pc' = "idle" THEN "over" ELSE "running"
  BY <1>0, NumberOfOperations DEF Phase
<1>4. phases' \in {phases, [phases EXCEPT ![asked] = "over"]}
  <2>1. CASE pc' = "idle"
    <3>1. phases' = [phases EXCEPT ![asked] = "over"]
      BY <1>0, <1>2, <1>3, <2>1 DEF phases
    <3>2. QED BY <3>1
  <2>2. CASE pc' # "idle"
    <3>1. phases' = phases
      BY <1>0, <1>1, <1>2, <1>3, <2>2 DEF phases
    <3>2. QED BY <3>1
  <2>3. QED BY <2>1, <2>2
<1>5. records' = [records EXCEPT !["server"] = [op |-> asked, state |-> state]]
  BY DEF Stores, records
<1>6. record.by = asked => Serial!MayFollow(record.state, state)
  <2>1. record.state \in {"NONE", "IN_PROGRESS", "COMPLETED", "FAILED"}
    BY DEF TypeOK, States
  <2>2. record.by = asked => record.state # "NONE"
    BY <1>0, NumberOfOperations DEF ResultsInOrder
  <2>3. QED
    BY <2>1, <2>2 DEF ResultsInOrder, GoesWrong, GoesWell, IsUnderWay, Stores, Serial!MayFollow
<1>7. records["server"].op = record.by /\ records["server"].state = record.state
  BY DEF records
<1>8. QED BY <1>0, <1>1, <1>4, <1>5, <1>6, <1>7
          DEF Serial!Store, Serial!Stored, phases, records

LEMMA GoingOnIsSerial ==
    ASSUME TypeOK, RecordInOrder, GoesOn
    PROVE  Serial!Finish({asked}) \/ UNCHANGED <<phases, records>>
<1>0. asked' = asked /\ records' = records
  BY DEF GoesOn, records
<1>1. CASE (pc = "idle") = (pc' = "idle")
  <2>1. \A n \in 1..MaxRequests : Phase(n)' = Phase(n)
    BY <1>0, <1>1 DEF Phase
  <2>2. QED BY <1>0, <2>1 DEF phases
<1>2. CASE pc # "idle" /\ pc' = "idle"
  <2>1. asked \in 1..MaxRequests
    BY <1>2, NumberOfOperations DEF RecordInOrder
  <2>2. phases[asked] = "running"
    BY <1>2, <2>1, NumberOfOperations DEF phases, Phase
  <2>3. \A n \in 1..MaxRequests : Phase(n)' = IF n \in {asked} THEN "over" ELSE phases[n]
    BY <1>0, <1>2, <2>1, NumberOfOperations DEF phases, Phase
  <2>4. phases' = [n \in 1..MaxRequests |-> IF n \in {asked} THEN "over" ELSE phases[n]]
    BY <2>3 DEF phases
  <2>5. QED BY <1>0, <2>2, <2>4 DEF Serial!Finish, phases, records
<1>3. QED BY <1>1, <1>2 DEF GoesOn

(***************************************************************************)
(* The operation seen from inside implements SerialOperations on either    *)
(* executor: whatever its calls return, it is accepted when no other runs, *)
(* stores its states in order, under its own ID, only while it runs, and   *)
(* ends once, also when the controller dies and the task comes again       *)
(* (provisioning.go, executor_goroutine.go, executor_cloudtasks.go).       *)
(***************************************************************************)
THEOREM OperationRefinesSerial == Spec => ImplementsSerial
<1>1. Init => Serial!Init
  <2> SUFFICES ASSUME Init PROVE Serial!Init
    OBVIOUS
  <2>1. asked = 0 /\ record.by = 0 /\ record.state = "NONE"
    BY DEF Init
  <2>2. \A n \in 1..MaxRequests : Phase(n) = "new"
    BY <2>1, BoundsType DEF Phase
  <2>3. QED BY <2>1, <2>2 DEF Serial!Init, Serial!NoRecord
<1>2. IInv /\ [Next]_vars => [Serial!Next]_<<phases, records>>
  <2> SUFFICES ASSUME IInv, [Next]_vars
               PROVE  Serial!Next \/ UNCHANGED <<phases, records>>
    OBVIOUS
  <2>0. TypeOK /\ CallBelongsToFlow /\ RecordInOrder /\ ResultsInOrder
    BY DEF IInv
  <2>1. CASE Accepts
    <3>1. asked + 1 \in 1..MaxRequests
      BY <2>0, <2>1, NumberOfOperations DEF Accepts
    <3>2. Serial!Accept(asked + 1)
      BY <2>0, <2>1, AcceptIsSerial
    <3>3. QED BY <3>1, <3>2 DEF Serial!Next
  <2>2. ASSUME NEW state \in {"IN_PROGRESS", "COMPLETED", "FAILED"}, Stores(state),
               Serial!Store(asked, state)
        PROVE  Serial!Next
    <3>1. asked \in 1..MaxRequests
      BY <2>0, <2>2, NumberOfOperations DEF Stores, RecordInOrder
    <3>2. state \in Serial!States
      BY DEF Serial!States
    <3>3. QED BY <2>2, <3>1, <3>2 DEF Serial!Next
  <2>3. CASE GoesWrong
    <3>1. Stores("FAILED")
      BY <2>3 DEF GoesWrong
    <3>2. QED BY <2>0, <2>2, <2>3, <3>1, StoreIsSerial
  <2>4. CASE GoesWell
    <3>1. Stores("COMPLETED")
      BY <2>4 DEF GoesWell
    <3>2. QED BY <2>0, <2>2, <2>4, <3>1, StoreIsSerial
  <2>5. CASE IsUnderWay
    <3>1. Stores("IN_PROGRESS")
      BY <2>5 DEF IsUnderWay
    <3>2. QED BY <2>0, <2>2, <2>5, <3>1, StoreIsSerial
  <2>6. CASE GoesOn
    <3>1. CASE Serial!Finish({asked})
      <4>1. pc # "idle" \/ UNCHANGED <<phases, records>>
        BY <2>6, <3>1 DEF GoesOn, phases, records, Phase
      <4>2. CASE pc # "idle"
        <5>1. {asked} \in SUBSET (1..MaxRequests)
          BY <2>0, <4>2, NumberOfOperations DEF RecordInOrder
        <5>2. QED BY <3>1, <5>1 DEF Serial!Next
      <4>3. QED BY <4>1, <4>2
    <3>2. QED BY <2>0, <2>6, <3>1, GoingOnIsSerial
  <2>7. QED BY <2>0, <2>1, <2>3, <2>4, <2>5, <2>6, Outcome
<1>3. QED
  BY <1>1, <1>2, InvariantHolds, PTL
     DEF Spec, ImplementsSerial, Serial!Spec, Serial!vars, phases, records

\* What is proved about the contract, for the numbered operations.
Contract == INSTANCE SerialOperations_proofs
              WITH Server <- {"server"}, Op <- 1..MaxRequests, NoOp <- 0,
                   ServerOf <- [n \in 1..MaxRequests |-> "server"],
                   phase <- [n \in 1..MaxRequests |-> Phase(n)],
                   record <- [s \in {"server"} |-> [op |-> record.by, state |-> record.state]]

\* The two instances of SerialOperations are the same specification.
LEMMA SameContract ==
    /\ Serial!Init => Contract!Init
    /\ [Serial!Next]_Serial!vars => [Contract!Next]_Contract!vars
BY DEF Serial!Init, Contract!Init, Serial!NoRecord, Contract!NoRecord,
       Serial!Next, Contract!Next, Serial!vars, Contract!vars,
       Serial!Accept, Contract!Accept, Serial!Store, Contract!Store,
       Serial!Finish, Contract!Finish, Serial!Running, Contract!Running,
       Serial!Stored, Contract!Stored, Serial!MayFollow, Contract!MayFollow,
       Serial!States, Contract!States

(***************************************************************************)
(* So no call of an operation that has ended stores anything any more, and *)
(* the state it has left is what every later reader of the record sees     *)
(* until the next request is accepted: a poll may stop at the end of an    *)
(* operation.                                                              *)
(***************************************************************************)
THEOREM OperationsOverStayOver == Spec => Serial!OverIsFinal
<1>1. Contract!Spec => Contract!OverIsFinal
  <2>1. [n \in 1..MaxRequests |-> "server"] \in [1..MaxRequests -> {"server"}]
    OBVIOUS
  <2>2. 0 \notin 1..MaxRequests
    BY BoundsType
  <2>3. QED BY <2>1, <2>2, Contract!OverStaysOver
<1>2. Spec => Serial!Spec
  BY OperationRefinesSerial DEF ImplementsSerial
<1>3. Contract!OverIsFinal => Serial!OverIsFinal
  BY PTL DEF Contract!OverIsFinal, Serial!OverIsFinal, Contract!vars, Serial!vars
<1>4. QED
  BY <1>1, <1>2, <1>3, SameContract, PTL DEF Serial!Spec, Contract!Spec

-----------------------------------------------------------------------------
(***************************************************************************)
(* The measure that every step of an operation brings down.                *)
(***************************************************************************)
LEMMA CallsAreLeft ==
    ASSUME TypeOK
    PROVE  CallsLeft(pc) \in Nat /\ (pc \notin {"idle", "queued"} => CallsLeft(pc) > 1)
<1>1. /\ CallsLeft("list") = 9 /\ CallsLeft("stop") = 8 /\ CallsLeft("save") = 8
      /\ CallsLeft("upsert") = 7 /\ CallsLeft("refresh") = 6 /\ CallsLeft("up") = 5
      /\ CallsLeft("destroy") = 5 /\ CallsLeft("stamp") = 4 /\ CallsLeft("restore") = 4
      /\ CallsLeft("start") = 3 /\ CallsLeft("recover") = 3 /\ CallsLeft("health") = 2
      /\ CallsLeft("forget") = 2 /\ CallsLeft("queued") = 1 /\ CallsLeft("idle") = 0
  BY DEF CallsLeft
<1>2. pc \in Calls \union {"idle", "queued"}
  BY DEF TypeOK
<1>3. QED BY <1>1, <1>2 DEF Calls

LEMMA EndsAreLeast == CallsLeft("queued") = 1 /\ CallsLeft("idle") = 0
  BY DEF CallsLeft

LEMMA AdvanceNearer ==
    ASSUME TypeOK, CallBelongsToFlow, Advance(pc), pc \notin {"idle", "queued"}
    PROVE  CallsLeft(pc') < CallsLeft(pc)
<1>1. op.flow \in Flows /\ pc \in CallsOf(op.flow)
  BY DEF TypeOK, Operations, CallBelongsToFlow, Running
<1>2. pc' = AfterCall(op.flow, pc)
  BY DEF Advance
<1>3. CASE op.flow = "create"
  BY <1>1, <1>2, <1>3 DEF CallsOf, AfterCall, CallsLeft
<1>4. CASE op.flow = "inplace"
  BY <1>1, <1>2, <1>4 DEF CallsOf, AfterCall, CallsLeft
<1>5. CASE op.flow = "resize"
  BY <1>1, <1>2, <1>5 DEF CallsOf, AfterCall, CallsLeft
<1>6. CASE op.flow = "recreate"
  BY <1>1, <1>2, <1>6 DEF CallsOf, AfterCall, CallsLeft
<1>7. CASE op.flow = "destroy"
  BY <1>1, <1>2, <1>7 DEF CallsOf, AfterCall, CallsLeft
<1>8. CASE op.flow = "restore"
  BY <1>1, <1>2, <1>8 DEF CallsOf, AfterCall, CallsLeft
<1>9. QED BY <1>1, <1>3, <1>4, <1>5, <1>6, <1>7, <1>8 DEF Flows

LEMMA FailNearer ==
    ASSUME TypeOK, Fail(pc), pc \notin {"idle", "queued"}
    PROVE  CallsLeft(pc') < CallsLeft(pc)
<1>1. CASE pc' \in {"idle", "queued"}
  BY <1>1, CallsAreLeft, EndsAreLeast
<1>2. CASE pc' = "recover" /\ pc \in {"upsert", "up", "stamp"}
  BY <1>2 DEF CallsLeft
<1>3. QED BY <1>1, <1>2 DEF Fail, AfterError

LEMMA CallNearer ==
    ASSUME TypeOK, CallBelongsToFlow, Step
    PROVE  /\ deliveries' = deliveries
           /\ \/ CallsLeft(pc') < CallsLeft(pc)
              \/ pc' = pc /\ tries' > tries
              \/ pc' = pc /\ tries' = tries
<1>1. deliveries' = deliveries
  BY DEF Step, Ignored, UpsertStack, SaveWorld, RestoreWorld, StopInstance, StartInstance,
     UpStack, DestroyStack, GiveUp, StampServerConfig, Forget, Context
<1>2. CASE Forget
  BY <1>2 DEF Forget, CallsLeft
<1>3. CASE StartInstance
  <2>1. CASE Advance(pc) \/ Fail(pc)
    <3>1. pc \notin {"idle", "queued"}
      BY <1>3 DEF StartInstance
    <3>2. QED BY <1>1, <2>1, <3>1, AdvanceNearer, FailNearer
  <2>2. CASE pc = "recover" /\ pc' = "idle"
    BY <1>1, <2>2 DEF CallsLeft
  <2>3. QED BY <1>3, <2>1, <2>2 DEF StartInstance
<1>4. CASE TryAgain
  <2>1. tries \in Nat
    BY BoundsType DEF TypeOK
  <2>2. QED BY <1>1, <1>4, <2>1 DEF TryAgain, CountTry
<1>5. CASE DestroyStack
  <2>1. pc = "destroy"
    BY <1>5 DEF DestroyStack
  <2>2. CASE Fail(pc)
    BY <1>1, <2>1, <2>2, FailNearer
  <2>3. CASE pc' = IF executor = "local" THEN "forget" ELSE "idle"
    BY <1>1, <2>1, <2>3 DEF CallsLeft
  <2>4. QED BY <1>4, <1>5, <2>2, <2>3, Zenon DEF DestroyStack, FailDestroy
<1>6. CASE Ignored \/ UpsertStack \/ SaveWorld \/ RestoreWorld \/ StopInstance \/ UpStack \/ GiveUp
           \/ StampServerConfig
  <2>1. pc \notin {"idle", "queued"}
    BY <1>6 DEF Ignored, UpsertStack, SaveWorld, RestoreWorld, StopInstance, UpStack, GiveUp,
       StampServerConfig
  <2>2. Advance(pc) \/ Fail(pc) \/ TryAgain
    BY <1>6 DEF Ignored, UpsertStack, SaveWorld, RestoreWorld, StopInstance, UpStack, GiveUp,
       StampServerConfig
  <2>3. QED BY <1>1, <1>4, <2>1, <2>2, AdvanceNearer, FailNearer
<1>7. QED BY <1>1, <1>2, <1>3, <1>5, <1>6 DEF Step

(***************************************************************************)
(* An operation cannot go round in circles: the lexicographic order on the *)
(* deliveries left (at most max_attempts), the calls left in the flow and  *)
(* the attempts left of the call decreases with each of its steps, so that *)
(* it ends as soon as its calls return (provisioning.go, retryOperation).  *)
(***************************************************************************)
THEOREM OperationComesToAnEnd == Spec => ComesToAnEnd
<1>1. ASSUME IInv, [Next]_vars
      PROVE  [pc # "idle" /\ <<pc, tries, deliveries>>' # <<pc, tries, deliveries>> => Nearer]_vars
  <2>1. SUFFICES ASSUME pc # "idle", <<pc, tries, deliveries>>' # <<pc, tries, deliveries>>
                 PROVE  Nearer
    OBVIOUS
  <2>0. TypeOK /\ CallBelongsToFlow /\ TriesInOrder /\ tries \in Nat
    BY <1>1, BoundsType DEF IInv, TypeOK
  <2>2. CASE Requests
    BY <2>1, <2>2
       DEF Requests, Create, Update, DestroyServer, RestoreServer, Accept, Admits, Refused, progress
  <2>3. CASE Skip
    BY <2>3 DEF Skip, Nearer, CallsLeft
  <2>4. CASE Deliver
    BY <2>0, <2>4, BoundsType DEF Deliver, Nearer, TypeOK
  <2>5. CASE Step
    BY <2>0, <2>1, <2>5, CallNearer DEF Nearer
  <2>6. CASE Crash
    <3>1. deliveries' = deliveries
      BY <2>6 DEF Crash
    <3>2. CASE pc = "queued"
      BY <2>0, <2>1, <2>6, <3>2 DEF Crash, TriesInOrder
    <3>3. CASE pc \notin {"idle", "queued"}
      <4>1. CallsLeft(pc) > 1 /\ CallsLeft(pc) \in Nat
        BY <2>0, <3>3, CallsAreLeft
      <4>2. pc' \in {"idle", "queued"}
        BY <2>6, <3>3 DEF Crash
      <4>3. QED BY <3>1, <4>1, <4>2, EndsAreLeast DEF Nearer
    <3>4. QED BY <2>1, <3>2, <3>3
  <2>7. CASE Timeout \/ Upgrade \/ VMStops \/ VMStarts \/ OperatorCleansUp
    BY <2>1, <2>7 DEF Timeout, Upgrade, VMStops, VMStarts, OperatorCleansUp
  <2>8. CASE UNCHANGED vars
    BY <2>1, <2>8 DEF vars, progress
  <2>9. QED BY <1>1, <2>2, <2>3, <2>4, <2>5, <2>6, <2>7, <2>8 DEF Next, Surroundings
<1>2. QED BY <1>1, InvariantHolds, PTL DEF Spec, ComesToAnEnd
=============================================================================
