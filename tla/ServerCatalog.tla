--------------------------- MODULE ServerCatalog ---------------------------
(***************************************************************************)
(* The catalog of servers: configs, the server index and the config        *)
(* snapshots of the state store (internal/db/dapr.go), written by the      *)
(* create, update and delete handlers (internal/handlers/servers) and by   *)
(* the operations they start (internal/services/provisioning.go).          *)
(*                                                                         *)
(* Nothing is read and written in one step: requests and operations hold   *)
(* copies.  Any access to the store may fail, a failed write may have been *)
(* made all the same, and nothing is locked but the operation itself.      *)
(***************************************************************************)
EXTENDS Naturals, FiniteSets

CONSTANTS
    Request,    \* requests, each made once
    Existing,   \* servers there are at the start
    Name,       \* server names
    Named,      \* the names of the existing servers
    Executors   \* the executors to look at: "local", "cloud"

ASSUME ServersDiffer == Request \intersect Existing = {}
ASSUME NamesDiffer == /\ Named \in [Existing -> Name]
                      /\ \A s, t \in Existing : Named[s] = Named[t] => s = t
ASSUME ExecutorsType == Executors \subseteq {"local", "cloud"}

\* A create makes a new id; it is named after the request.
Server == Existing \union Request

VARIABLES
    executor,
    config,     \* the stored config of each server
    index,      \* the server index
    snapshot,   \* the stored config snapshot of each server
    req,        \* the requests
    job,        \* the operation of each server
    tail,       \* what a destroy has left to do once it is COMPLETED
    deployed,   \* the config the last create or update deployed, if it is COMPLETED
    accepted,   \* servers whose creation was accepted
    forgotten,  \* servers whose config has been deleted
    crossed,    \* what was written over a value newer than the one read
    overlapped, \* servers with two requests at once
    drifted,    \* servers with a config no accepted request has asked for
    blurred     \* a name check ran beside another, or has missed a config

store == <<config, index, snapshot>>
ghosts == <<accepted, forgotten, crossed, overlapped, drifted, blurred>>
vars == <<executor, store, req, job, tail, deployed, ghosts>>

Absent == [present |-> FALSE]
\* A config is its name and the request that asked for the rest of it.
Configs == [present : {TRUE}, name : Name, by : Server]

Kinds == {"create", "update", "rename", "backup", "delete"}
RequestPCs == {"new", "names", "check", "snapshot", "save", "readindex", "writeindex",
               "provision", "getsnapshot", "revert", "done"}
Requests == [pc : RequestPCs, kind : Kinds, id : Server, seen : Configs \union {Absent},
             mine : Configs \union {Absent}, back : Configs \union {Absent},
             idx : SUBSET Server, clean : BOOLEAN]

Jobs == [pc : {"idle", "queued", "deploy", "destroy", "getconfig", "stamp"},
         want : Configs \union {Absent}, copy : Configs \union {Absent}]
Tails == [pc : {"none", "delete", "readindex", "writeindex"}, idx : SUBSET Server]

TypeOK ==
    /\ executor \in {"local", "cloud"}
    /\ config \in [Server -> Configs \union {Absent}]
    /\ index \subseteq Server
    /\ snapshot \in [Server -> Configs \union {Absent}]
    /\ req \in [Request -> Requests]
    /\ job \in [Server -> Jobs]
    /\ tail \in [Server -> Tails]
    /\ deployed \in [Server -> Configs \union {Absent}]
    /\ accepted \subseteq Server /\ forgotten \subseteq Server
    /\ crossed \subseteq Server \union {"index"}
    /\ overlapped \subseteq Server /\ drifted \subseteq Server /\ blurred \in BOOLEAN

Blank(r, pc) == [pc |-> pc, kind |-> "create", id |-> r, seen |-> Absent, mine |-> Absent,
                 back |-> Absent, idx |-> {}, clean |-> TRUE]
NoJob == [pc |-> "idle", want |-> Absent, copy |-> Absent]
NoTail == [pc |-> "none", idx |-> {}]

Init ==
    /\ executor \in Executors
    /\ config = [s \in Server |-> IF s \in Existing
                                  THEN [present |-> TRUE, name |-> Named[s], by |-> s]
                                  ELSE Absent]
    /\ index = Existing
    /\ snapshot = [s \in Server |-> Absent]
    /\ req = [r \in Request |-> Blank(r, "new")]
    /\ job = [s \in Server |-> NoJob] /\ tail = [s \in Server |-> NoTail]
    /\ deployed = config
    /\ accepted = {} /\ forgotten = {} /\ crossed = {} /\ overlapped = {} /\ drifted = {}
    /\ blurred = FALSE

-----------------------------------------------------------------------------
(***************************************************************************)
(* Store writes.  A write that fails may have been made.                   *)
(***************************************************************************)
Lost(item, stored, copy) == IF stored = copy THEN crossed ELSE crossed \union {item}

\* s's config, last read as copy, is overwritten.
WriteConfig(s, c, copy) ==
    /\ config' = [config EXCEPT ![s] = c]
    /\ crossed' = Lost(s, config[s], copy)

WriteIndex(ids, copy) ==
    /\ index' = ids
    /\ crossed' = Lost("index", index, copy)

Open(r) == req[r].pc \notin {"new", "done"}

Goto(r, pc) == req' = [req EXCEPT ![r].pc = pc]

End(r) == req' = [req EXCEPT ![r] = Blank(r, "done")]

-----------------------------------------------------------------------------
(***************************************************************************)
(* Requests.  An update is a PATCH or an agent update, a rename a PATCH    *)
(* with a new name, a backup a change of the backup settings.  They differ *)
(* in where they begin and in what a refusal does.                         *)
(***************************************************************************)
Create(r, name) ==
    /\ req[r].pc = "new"
    /\ req' = [req EXCEPT ![r].pc = "names",
                          ![r].mine = [present |-> TRUE, name |-> name, by |-> r]]
    /\ UNCHANGED <<executor, store, job, tail, deployed, ghosts>>

\* Every other handler begins with GetServerConfig.
Begin(r, kind, s, name) ==
    /\ req[r].pc = "new"
    /\ config[s] # Absent
    /\ kind = "rename" => name # config[s].name
    /\ req' = [req EXCEPT ![r] =
           [pc |-> IF kind = "delete" THEN "provision" ELSE "snapshot",
            kind |-> kind, id |-> s, seen |-> config[s],
            mine |-> [present |-> TRUE, by |-> r,
                      name |-> IF kind = "rename" THEN name ELSE config[s].name],
            back |-> Absent, idx |-> {}, clean |-> s \notin drifted]]
    /\ overlapped' = IF \E q \in Request \ {r} : Open(q) /\ req[q].id = s
                     THEN overlapped \union {s} ELSE overlapped
    /\ UNCHANGED <<executor, store, job, tail, deployed, accepted, forgotten, crossed,
                   drifted, blurred>>

UpdateServer(r, s, name) == Begin(r, "update", s, name) \/ Begin(r, "rename", s, name)

HandleUpdateAgent(r, s, name) == Begin(r, "update", s, name)

UpdateBackupSettings(r, s, name) == Begin(r, "backup", s, name)

DeleteServer(r, s, name) == Begin(r, "delete", s, name)

\* A slip for the properties to catch: the snapshot shares the config it is made from.
SharedSnapshot(r) == req[r].mine

SnapshotOf(r) == req[r].seen

SaveConfigSnapshot(r) ==
    /\ req[r].pc = "snapshot"
    /\ \/ /\ snapshot' = [snapshot EXCEPT ![req[r].id] = SnapshotOf(r)]
          /\ \/ Goto(r, IF req[r].kind = "rename" THEN "names" ELSE "save")
             \/ End(r)
       \/ UNCHANGED snapshot /\ End(r)
    /\ UNCHANGED <<executor, config, index, job, tail, deployed, ghosts>>

(***************************************************************************)
(* isServerNameTaken: ListServerConfigs reads the index and then the       *)
(* configs in bulk; one that cannot be read is left out with a log line.   *)
(***************************************************************************)
Naming(r) == /\ req[r].kind \in {"create", "rename"}
             /\ req[r].pc \notin {"new", "snapshot", "names", "done"}

ListIndex(r) ==
    /\ req[r].pc = "names"
    /\ \/ req' = [req EXCEPT ![r].pc = "check", ![r].idx = index]
       \/ End(r)
    /\ blurred' = (blurred \/ \E q \in Request \ {r} : Naming(q))
    /\ UNCHANGED <<executor, store, job, tail, deployed, accepted, forgotten, crossed,
                   overlapped, drifted>>

Listed(ids) == {s \in ids : config[s] # Absent}

\* A slip for the properties to catch: the server renamed is the only one looked at.
TakenBySelf(r, read) == \E s \in read : config[s].name = req[r].mine.name /\ s = req[r].id

Taken(r, read) == \E s \in read : config[s].name = req[r].mine.name /\ s # req[r].id

CheckName(r) ==
    /\ req[r].pc = "check"
    /\ \/ \E read \in SUBSET Listed(req[r].idx) :
              /\ IF Taken(r, read) THEN End(r)
                 ELSE req' = [req EXCEPT ![r].pc = "save", ![r].idx = {}]
              /\ blurred' = (blurred \/ read # Listed(req[r].idx))
       \/ End(r) /\ UNCHANGED blurred
    /\ UNCHANGED <<executor, store, job, tail, deployed, accepted, forgotten, crossed,
                   overlapped, drifted>>

\* The validations that come after the snapshot, and UpdateServerConfig or the
\* first write of CreateServerConfig.
SaveConfig(r) ==
    /\ req[r].pc = "save"
    /\ LET s == req[r].id
           create == req[r].kind = "create"
       IN \/ End(r) /\ UNCHANGED <<config, crossed, drifted>>
          \/ /\ WriteConfig(s, req[r].mine, req[r].seen)
             /\ drifted' = drifted \union {s}
             /\ End(r) \/ Goto(r, IF create THEN "readindex" ELSE "provision")
    /\ UNCHANGED <<executor, index, snapshot, job, tail, deployed, accepted, forgotten,
                   overlapped, blurred>>

\* The rest of CreateServerConfig.
ReadIndex(r) ==
    /\ req[r].pc = "readindex"
    /\ \/ req' = [req EXCEPT ![r].pc = "writeindex", ![r].idx = index]
       \/ End(r)
    /\ UNCHANGED <<executor, store, job, tail, deployed, ghosts>>

\* A slip for the properties to catch: the index is saved on a best-effort basis.
IndexIsOptional(r) == Goto(r, "provision")

FailedIndex(r) == End(r)

AddToIndex(r) ==
    /\ req[r].pc = "writeindex"
    /\ \/ WriteIndex(req[r].idx \union {r}, req[r].idx) /\ Goto(r, "provision")
       \/ /\ WriteIndex(req[r].idx \union {r}, req[r].idx) \/ UNCHANGED <<index, crossed>>
          /\ FailedIndex(r)
    /\ UNCHANGED <<executor, config, snapshot, job, tail, deployed, accepted, forgotten,
                   overlapped, drifted, blurred>>

(***************************************************************************)
(* StartOperation.  The goroutine runs the config of the request, a task   *)
(* the one stored when it is delivered.                                    *)
(***************************************************************************)
Busy(s) ==
    \/ job[s].pc # "idle"
    \/ executor = "local" /\ tail[s].pc # "none"

Accept(r) ==
    LET s == req[r].id
        delete == req[r].kind = "delete"
    IN /\ req[r].pc = "provision" /\ ~Busy(s)
       /\ job' = [job EXCEPT ![s] =
              [pc |-> IF executor = "cloud" /\ ~delete THEN "queued"
                      ELSE IF delete THEN "destroy" ELSE "deploy",
               want |-> IF delete THEN Absent ELSE req[r].mine, copy |-> Absent]]
       /\ drifted' = IF delete THEN drifted ELSE drifted \ {s}
       /\ accepted' = IF req[r].kind = "create" THEN accepted \union {s} ELSE accepted
       /\ deployed' = IF delete THEN deployed ELSE [deployed EXCEPT ![s] = Absent]
       /\ End(r)
       /\ UNCHANGED <<executor, store, tail, forgotten, crossed, overlapped, blurred>>

\* Only the backup settings are also taken back when another operation is in
\* progress (409).
MayRevert(r) ==
    \/ req[r].kind \in {"update", "rename"} /\ ~Busy(req[r].id)
    \/ req[r].kind = "backup"

\* Nothing is taken back when the agent token could not be minted.
Refuse(r) ==
    /\ req[r].pc = "provision"
    /\ End(r) \/ (MayRevert(r) /\ Goto(r, "getsnapshot"))
    /\ UNCHANGED <<executor, store, job, tail, deployed, ghosts>>

\* RevertServerConfig.  An error is only logged.
GetConfigSnapshot(r) ==
    /\ req[r].pc = "getsnapshot"
    /\ \/ /\ snapshot[req[r].id] # Absent
          /\ req' = [req EXCEPT ![r].pc = "revert", ![r].back = snapshot[req[r].id]]
       \/ End(r)
    /\ UNCHANGED <<executor, store, job, tail, deployed, ghosts>>

RevertConfig(r) ==
    LET s == req[r].id
    IN /\ req[r].pc = "revert"
       /\ \/ /\ WriteConfig(s, req[r].back, req[r].mine)
             /\ drifted' = IF req[r].clean THEN drifted \ {s} ELSE drifted
             /\ snapshot' \in {snapshot, [snapshot EXCEPT ![s] = Absent]}
          \/ UNCHANGED <<config, snapshot, crossed, drifted>>
       /\ End(r)
       /\ UNCHANGED <<executor, index, job, tail, deployed, accepted, forgotten, overlapped,
                      blurred>>

-----------------------------------------------------------------------------
(***************************************************************************)
(* Operations, as far as they read and write the catalog                   *)
(***************************************************************************)
EndJob(s) == job' = [job EXCEPT ![s] = NoJob]

\* HandleProvisioningTask.  What a request has stored by now may yet be taken back.
Deliver(s) ==
    /\ job[s].pc = "queued"
    /\ job' = [job EXCEPT ![s] = IF config[s] = Absent THEN NoJob
                                 ELSE [pc |-> "deploy", want |-> config[s], copy |-> Absent]]
    /\ crossed' = IF s \in drifted THEN crossed \union {s} ELSE crossed
    /\ UNCHANGED <<executor, store, req, tail, deployed, accepted, forgotten, overlapped,
                   drifted, blurred>>

\* The infrastructure is done, or the operation has failed.
Deploy(s) ==
    /\ job[s].pc = "deploy"
    /\ job' = [job EXCEPT ![s].pc = "getconfig"] \/ EndJob(s)
    /\ UNCHANGED <<executor, store, req, tail, deployed, ghosts>>

\* stampServerConfig changes the version of the config it has read.
GetConfigToStamp(s) ==
    /\ job[s].pc = "getconfig"
    /\ \/ config[s] # Absent /\ job' = [job EXCEPT ![s].pc = "stamp", ![s].copy = config[s]]
       \/ EndJob(s)
    /\ UNCHANGED <<executor, store, req, tail, deployed, ghosts>>

\* A slip for the properties to catch: the config the operation began with is stamped.
StampedFirst(s) == snapshot[s]

Stamped(s) == job[s].copy

Stamp(s) ==
    /\ job[s].pc = "stamp"
    /\ \/ /\ WriteConfig(s, Stamped(s), job[s].copy)
          /\ deployed' = [deployed EXCEPT ![s] = job[s].want] \/ UNCHANGED deployed
       \/ UNCHANGED <<config, crossed, deployed>>
    /\ EndJob(s)
    /\ UNCHANGED <<executor, index, snapshot, req, tail, accepted, forgotten, overlapped,
                   drifted, blurred>>

\* Once COMPLETED is stored, a task has given the server free.
Destroy(s) ==
    /\ job[s].pc = "destroy"
    /\ EndJob(s)
    /\ tail' \in {tail, [tail EXCEPT ![s].pc = "delete"]}
    /\ UNCHANGED <<executor, store, req, deployed, ghosts>>

\* DeleteServerConfig
DeleteConfig(s) ==
    /\ tail[s].pc = "delete"
    /\ \/ /\ config' = [config EXCEPT ![s] = Absent]
          /\ forgotten' = forgotten \union {s}
          /\ tail' \in {[tail EXCEPT ![s].pc = "readindex"], [tail EXCEPT ![s] = NoTail]}
       \/ tail' = [tail EXCEPT ![s] = NoTail] /\ UNCHANGED <<config, forgotten>>
    /\ UNCHANGED <<executor, index, snapshot, req, job, deployed, accepted, crossed,
                   overlapped, drifted, blurred>>

ReadIndexToDelete(s) ==
    /\ tail[s].pc = "readindex"
    /\ tail' \in {[tail EXCEPT ![s] = [pc |-> "writeindex", idx |-> index]],
                  [tail EXCEPT ![s] = NoTail]}
    /\ UNCHANGED <<executor, store, req, job, deployed, ghosts>>

RemoveFromIndex(s) ==
    /\ tail[s].pc = "writeindex"
    /\ WriteIndex(tail[s].idx \ {s}, tail[s].idx) \/ UNCHANGED <<index, crossed>>
    /\ tail' = [tail EXCEPT ![s] = NoTail]
    /\ UNCHANGED <<executor, config, snapshot, req, job, deployed, accepted, forgotten,
                   overlapped, drifted, blurred>>

\* The controller dies: what it was doing ends where it is.
Crash ==
    /\ \/ \E r \in Request : Open(r)
       \/ \E s \in Server : job[s].pc \notin {"idle", "queued"} \/ tail[s].pc # "none"
    /\ req' = [r \in Request |-> IF Open(r) THEN Blank(r, "done") ELSE req[r]]
    /\ job' = [s \in Server |-> IF job[s].pc = "queued" THEN job[s] ELSE NoJob]
    /\ tail' = [s \in Server |-> NoTail]
    /\ UNCHANGED <<executor, store, deployed, ghosts>>

RequestStep(r) ==
    \/ \E name \in Name : Create(r, name)
    \/ \E s \in Server, name \in Name :
           \/ UpdateServer(r, s, name) \/ HandleUpdateAgent(r, s, name)
           \/ UpdateBackupSettings(r, s, name) \/ DeleteServer(r, s, name)
    \/ SaveConfigSnapshot(r) \/ ListIndex(r) \/ CheckName(r) \/ SaveConfig(r)
    \/ ReadIndex(r) \/ AddToIndex(r) \/ Accept(r) \/ Refuse(r)
    \/ GetConfigSnapshot(r) \/ RevertConfig(r)

OperationStep(s) ==
    \/ Deliver(s) \/ Deploy(s) \/ GetConfigToStamp(s) \/ Stamp(s)
    \/ Destroy(s) \/ DeleteConfig(s) \/ ReadIndexToDelete(s) \/ RemoveFromIndex(s)

Next ==
    \/ \E r \in Request : RequestStep(r)
    \/ \E s \in Server : OperationStep(s)
    \/ Crash

Spec == Init /\ [][Next]_vars

-----------------------------------------------------------------------------
(***************************************************************************)
(* A server whose creation was accepted is listed until its config is      *)
(* deleted, unless two read-modify-writes of the index have crossed: no    *)
(* error and no crash between the writes leaves an accepted server that    *)
(* only its id can reach.                                                  *)
(***************************************************************************)
AcceptedIsListed == "index" \in crossed \/ accepted \ forgotten \subseteq index

(***************************************************************************)
(* The servers listed have different names, unless two name checks ran     *)
(* beside each other, a check could not read a config, two requests on one *)
(* server overlapped, or a write crossed.                                  *)
(***************************************************************************)
Disturbed == blurred \/ crossed # {} \/ overlapped # {}

NamesAreUnique ==
    Disturbed
        \/ \A s, t \in Listed(index) : config[s].name = config[t].name => s = t

(***************************************************************************)
(* What the last COMPLETED create or update deployed is what is stored:    *)
(* a later update starts from what runs.  Not so when writes crossed, two  *)
(* requests on the server overlapped, or a request that was refused, or    *)
(* is not over, has stored its config.                                     *)
(***************************************************************************)
Settled(s) == s \notin crossed \union overlapped

DeployedIsStored ==
    \A s \in Server : Settled(s) /\ s \notin drifted /\ deployed[s] # Absent
                         => config[s] \in {deployed[s], Absent}

(***************************************************************************)
(* "Your original configuration has been restored": a revert that could    *)
(* reach the store puts back what the request had read, unless another     *)
(* request on the server overlapped.                                       *)
(***************************************************************************)
RevertRestores ==
    [][\A r \in Request :
           LET s == req[r].id
           IN req[r].pc = "revert" /\ req'[r].pc = "done" /\ s \notin overlapped
                  => config'[s] \in {config[s], req[r].seen}]_vars

-----------------------------------------------------------------------------
(***************************************************************************)
(* The inductive invariant                                                 *)
(***************************************************************************)
Unsaved == {"snapshot", "names", "check", "save"}
Saved == {"readindex", "writeindex", "provision", "getsnapshot", "revert"}

RequestsInOrder ==
    \A r \in Request :
        LET q == req[r]
        IN /\ q.pc \in {"new", "done"} => q = Blank(r, q.pc)
           /\ q.kind = "create" => /\ q.id = r /\ q.seen = Absent
                                  /\ q.pc \notin {"snapshot", "getsnapshot", "revert"}
           /\ Open(r) => q.mine # Absent /\ (q.kind # "create" => q.seen # Absent)
           /\ Open(r) /\ q.kind = "delete" => q.pc = "provision"
           /\ q.pc \in {"readindex", "writeindex"} => q.kind = "create"
           /\ Open(r) /\ q.kind \in {"update", "backup"}
                  => q.pc \notin {"names", "check"} /\ q.mine.name = q.seen.name

\* A server that is being created is nobody else's yet.
FreshIsUntouched ==
    \A r \in Request :
        req[r].kind = "create" /\ req[r].pc \in Unsaved \union {"new"}
            => /\ config[r] = Absent /\ r \notin index /\ deployed[r] = Absent
               /\ job[r] = NoJob /\ tail[r] = NoTail
               /\ \A q \in Request \ {r} : req[q].id # r /\ r \notin req[q].idx
               /\ \A s \in Server : r \notin tail[s].idx

OverlapIsSeen ==
    \A r, q \in Request :
        Open(r) /\ Open(q) /\ r # q /\ req[r].id = req[q].id => req[r].id \in overlapped

\* A request that works on its server alone, and so finds what it has left there.
Alone(r) == Open(r) /\ req[r].kind # "delete" /\ req[r].id \notin overlapped

SnapshotIsSeen ==
    \A r \in Request :
        Alone(r) /\ req[r].kind # "create" =>
            /\ req[r].pc \notin {"snapshot", "revert"} => snapshot[req[r].id] = req[r].seen
            /\ req[r].pc = "revert" => req[r].back = req[r].seen

DriftIsSeen ==
    \A r \in Request :
        Alone(r) =>
            /\ req[r].pc \in Unsaved /\ req[r].clean /\ req[r].kind # "create"
                   => req[r].id \notin drifted
            /\ req[r].pc \in Saved => req[r].id \in drifted

ConfigIsSeen ==
    \A r \in Request :
        Alone(r) /\ req[r].id \notin crossed =>
            /\ req[r].pc \in Unsaved => config[req[r].id] \in {req[r].seen, Absent}
            /\ req[r].pc \in Saved => config[req[r].id] \in {req[r].mine, Absent}

DeployedIsSeen ==
    \A r \in Request :
        Alone(r) /\ req[r].id \notin crossed /\ req[r].kind # "create"
            /\ req[r].pc \in Saved /\ req[r].clean =>
                /\ deployed[req[r].id] \in {Absent, req[r].seen}
                /\ job[req[r].id].want \in {Absent, req[r].seen}

JobsInOrder ==
    \A s \in Server :
        /\ job[s].pc \in {"queued", "deploy", "getconfig", "stamp"} <=> job[s].want # Absent
        /\ job[s].pc = "stamp" => job[s].copy # Absent
        /\ Settled(s) /\ s \notin drifted /\ job[s].want # Absent
               => config[s] \in {job[s].want, Absent}
        /\ tail[s].pc \in {"readindex", "writeindex"} => s \in forgotten

CreatedIsListed ==
    \A r \in Request :
        req[r].kind = "create" /\ req[r].pc = "provision" /\ "index" \notin crossed
            => r \in index \union forgotten

NamesInOrder ==
    ~Disturbed =>
        /\ \A r, q \in Request : Naming(r) /\ Naming(q) => r = q
        /\ \A r \in Request : \A t \in Listed(index) \ {req[r].id} :
               /\ Naming(r) /\ req[r].pc = "check" => t \in req[r].idx
               /\ Naming(r) /\ req[r].pc # "check" => config[t].name # req[r].mine.name
               /\ Open(r) /\ req[r].kind = "rename" /\ req[r].id \in Listed(index)
                      => config[t].name # req[r].seen.name

IInv ==
    /\ TypeOK /\ RequestsInOrder /\ FreshIsUntouched /\ OverlapIsSeen
    /\ SnapshotIsSeen /\ DriftIsSeen /\ ConfigIsSeen /\ DeployedIsSeen
    /\ JobsInOrder /\ CreatedIsListed /\ NamesInOrder
    /\ AcceptedIsListed /\ NamesAreUnique /\ DeployedIsStored
=============================================================================
