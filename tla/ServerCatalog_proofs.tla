------------------------ MODULE ServerCatalog_proofs ------------------------
(***************************************************************************)
(* Proofs about the catalog, for any requests, servers and names, on       *)
(* either executor, with failing store accesses and crashes.               *)
(***************************************************************************)
EXTENDS ServerCatalog, TLAPS

(***************************************************************************)
(* Configs                                                                 *)
(***************************************************************************)
LEMMA AbsentIsNoConfig == Absent \notin Configs
  BY DEF Absent, Configs

LEMMA NewConfig ==
    ASSUME NEW name \in Name, NEW by \in Server
    PROVE  /\ [present |-> TRUE, name |-> name, by |-> by] \in Configs
           /\ [present |-> TRUE, by |-> by, name |-> name] \in Configs
  BY DEF Configs

LEMMA ConfigName == ASSUME NEW c \in Configs PROVE c.name \in Name /\ c # Absent
  BY AbsentIsNoConfig DEF Configs

(***************************************************************************)
(* What a step does to the requests: it touches one, which ends, or keeps  *)
(* everything but its next access and one copy.                            *)
(***************************************************************************)
Touches(r) ==
    /\ req' \in [Request -> Requests]
    /\ \A q \in Request \ {r} : req'[q] = req[q]

Ends(r) ==
    /\ Touches(r)
    /\ req'[r] = Blank(r, "done")
    /\ req'[r].pc = "done" /\ req'[r].kind = "create" /\ req'[r].id = r /\ req'[r].idx = {}
    /\ req'[r].seen = Absent /\ req'[r].mine = Absent

Moves(r, pc) ==
    /\ Touches(r)
    /\ req'[r].pc = pc
    /\ req'[r].kind = req[r].kind /\ req'[r].id = req[r].id /\ req'[r].clean = req[r].clean
    /\ req'[r].seen = req[r].seen

Goes(r, pc) ==
    /\ Moves(r, pc)
    /\ req'[r].mine = req[r].mine /\ req'[r].back = req[r].back /\ req'[r].idx = req[r].idx

LEMMA RequestType ==
    ASSUME req \in [Request -> Requests], NEW r \in Request
    PROVE  /\ req[r].pc \in RequestPCs /\ req[r].kind \in Kinds /\ req[r].id \in Server
           /\ req[r].seen \in Configs \union {Absent} /\ req[r].mine \in Configs \union {Absent}
           /\ req[r].back \in Configs \union {Absent}
           /\ req[r].idx \subseteq Server /\ req[r].clean \in BOOLEAN
  BY DEF Requests

LEMMA BlankType ==
    ASSUME NEW r \in Request, NEW pc \in {"new", "done"}
    PROVE  /\ Blank(r, pc) \in Requests
           /\ Blank(r, pc).pc = pc /\ Blank(r, pc).kind = "create" /\ Blank(r, pc).id = r
           /\ Blank(r, pc).idx = {} /\ Blank(r, pc).seen = Absent /\ Blank(r, pc).mine = Absent
  BY DEF Blank, Requests, RequestPCs, Kinds, Server

LEMMA EndEnds == ASSUME req \in [Request -> Requests], NEW r \in Request, End(r) PROVE Ends(r)
<1>1. req' = [req EXCEPT ![r] = Blank(r, "done")] /\ Blank(r, "done") \in Requests
  BY BlankType DEF End
<1>2. req'[r] = Blank(r, "done")
  BY <1>1
<1>3. QED BY <1>1, <1>2, BlankType DEF Ends, Touches

LEMMA GotoGoes ==
    ASSUME req \in [Request -> Requests], NEW r \in Request, NEW pc \in RequestPCs, Goto(r, pc)
    PROVE  Goes(r, pc)
  BY DEF Goto, Goes, Moves, Touches, Requests

LEMMA IndexMoves ==
    ASSUME req \in [Request -> Requests], NEW r \in Request, NEW pc \in RequestPCs,
           NEW idx \in SUBSET Server, req' = [req EXCEPT ![r].pc = pc, ![r].idx = idx]
    PROVE  /\ Moves(r, pc) /\ req'[r].idx = idx
           /\ req'[r].mine = req[r].mine /\ req'[r].back = req[r].back
  BY DEF Moves, Touches, Requests

LEMMA BackMoves ==
    ASSUME req \in [Request -> Requests], NEW r \in Request, NEW pc \in RequestPCs,
           NEW c \in Configs \union {Absent}, req' = [req EXCEPT ![r].pc = pc, ![r].back = c]
    PROVE  /\ Moves(r, pc) /\ req'[r].back = c
           /\ req'[r].mine = req[r].mine /\ req'[r].idx = req[r].idx
  BY DEF Moves, Touches, Requests

LEMMA MineMoves ==
    ASSUME req \in [Request -> Requests], NEW r \in Request, NEW pc \in RequestPCs,
           NEW c \in Configs, req' = [req EXCEPT ![r].pc = pc, ![r].mine = c]
    PROVE  /\ Moves(r, pc) /\ req'[r].mine = c
           /\ req'[r].back = req[r].back /\ req'[r].idx = req[r].idx
  BY DEF Moves, Touches, Requests

-----------------------------------------------------------------------------
(***************************************************************************)
(* The same for the operations and the tails of destructions               *)
(***************************************************************************)
Works(s) ==
    /\ job' \in [Server -> Jobs]
    /\ \A t \in Server \ {s} : job'[t] = job[t]

Finishes(s) == Works(s) /\ job'[s] = NoJob /\ job'[s].pc = "idle" /\ job'[s].want = Absent

Trails(s) ==
    /\ tail' \in [Server -> Tails]
    /\ \A t \in Server \ {s} : tail'[t] = tail[t]

Stops(s) == Trails(s) /\ tail'[s] = NoTail /\ tail'[s].pc = "none" /\ tail'[s].idx = {}

LEMMA NoJobType == NoJob \in Jobs /\ NoJob.pc = "idle" /\ NoJob.want = Absent
  BY DEF NoJob, Jobs

LEMMA NoTailType == NoTail \in Tails /\ NoTail.pc = "none" /\ NoTail.idx = {}
  BY DEF NoTail, Tails

LEMMA EndFinishes ==
    ASSUME job \in [Server -> Jobs], NEW s \in Server, EndJob(s) PROVE Finishes(s)
  BY NoJobType DEF EndJob, Finishes, Works

LEMMA JobWorks ==
    ASSUME job \in [Server -> Jobs], NEW s \in Server, NEW j \in Jobs,
           job' = [job EXCEPT ![s] = j]
    PROVE  Works(s) /\ job'[s] = j
  BY DEF Works

LEMMA TailTrails ==
    ASSUME tail \in [Server -> Tails], NEW s \in Server, NEW t \in Tails,
           tail' = [tail EXCEPT ![s] = t]
    PROVE  Trails(s) /\ tail'[s] = t
  BY DEF Trails

LEMMA JobType ==
    ASSUME job \in [Server -> Jobs], NEW s \in Server
    PROVE  /\ job[s].pc \in {"idle", "queued", "deploy", "destroy", "getconfig", "stamp"}
           /\ job[s].want \in Configs \union {Absent} /\ job[s].copy \in Configs \union {Absent}
  BY DEF Jobs

LEMMA TailType ==
    ASSUME tail \in [Server -> Tails], NEW s \in Server
    PROVE  /\ tail[s].pc \in {"none", "delete", "readindex", "writeindex"}
           /\ tail[s].idx \subseteq Server
  BY DEF Tails

-----------------------------------------------------------------------------
(***************************************************************************)
(* What a write does unless it crosses another, and what only ever grows   *)
(***************************************************************************)
LEMMA ConfigWritten ==
    ASSUME TypeOK, NEW s \in Server, NEW c, NEW copy, WriteConfig(s, c, copy)
    PROVE  /\ config' = [config EXCEPT ![s] = c] /\ config'[s] = c
           /\ \A t \in Server \ {s} : config'[t] = config[t]
           /\ crossed \subseteq crossed' /\ crossed' \subseteq crossed \union {s}
           /\ s \notin crossed' => config[s] = copy /\ s \notin crossed
  BY DEF WriteConfig, Lost, TypeOK

LEMMA IndexWritten ==
    ASSUME TypeOK, NEW ids, NEW copy, WriteIndex(ids, copy)
    PROVE  /\ index' = ids
           /\ crossed \subseteq crossed' /\ crossed' \subseteq crossed \union {"index"}
           /\ "index" \notin crossed' => index = copy /\ "index" \notin crossed
  BY DEF WriteIndex, Lost, TypeOK

-----------------------------------------------------------------------------
(***************************************************************************)
(* What each step does, in these terms                                     *)
(***************************************************************************)
LEMMA CreateEffect ==
    ASSUME TypeOK, NEW r \in Request, NEW name \in Name, Create(r, name)
    PROVE  /\ req[r].pc = "new" /\ Moves(r, "names") /\ req'[r].mine \in Configs
           /\ req'[r].idx = req[r].idx
           /\ UNCHANGED <<executor, store, job, tail, deployed, ghosts>>
<1>1. [present |-> TRUE, name |-> name, by |-> r] \in Configs
  BY NewConfig DEF Server
<1>2. req' = [req EXCEPT ![r].pc = "names",
                         ![r].mine = [present |-> TRUE, name |-> name, by |-> r]]
  BY DEF Create
<1>3. Moves(r, "names") /\ req'[r].mine \in Configs /\ req'[r].idx = req[r].idx
  BY <1>1, <1>2, MineMoves DEF TypeOK, RequestPCs
<1>4. QED BY <1>3 DEF Create

LEMMA BeginEffect ==
    ASSUME TypeOK, NEW r \in Request, NEW kind \in Kinds \ {"create"}, NEW s \in Server,
           NEW name \in Name, Begin(r, kind, s, name)
    PROVE  /\ req[r].pc = "new" /\ Touches(r) /\ config[s] \in Configs
           /\ req'[r].pc = IF kind = "delete" THEN "provision" ELSE "snapshot"
           /\ req'[r].kind = kind /\ req'[r].id = s /\ req'[r].seen = config[s]
           /\ req'[r].mine \in Configs /\ req'[r].idx = {}
           /\ req'[r].clean => s \notin drifted
           /\ kind # "rename" => req'[r].mine.name = config[s].name
           /\ overlapped' \in {overlapped, overlapped \union {s}}
           /\ (\E q \in Request \ {r} : Open(q) /\ req[q].id = s) => s \in overlapped'
           /\ UNCHANGED <<executor, store, job, tail, deployed, accepted, forgotten, crossed,
                          drifted, blurred>>
<1> DEFINE new == IF kind = "rename" THEN name ELSE config[s].name
           mine == [present |-> TRUE, by |-> r, name |-> new]
           q0 == [pc |-> IF kind = "delete" THEN "provision" ELSE "snapshot",
                  kind |-> kind, id |-> s, seen |-> config[s], mine |-> mine,
                  back |-> Absent, idx |-> {}, clean |-> s \notin drifted]
<1>1. config[s] \in Configs
  BY DEF Begin, TypeOK
<1>2. mine \in Configs /\ mine.name = new
  BY <1>1, ConfigName, NewConfig DEF Server
<1> HIDE DEF mine
<1>3. q0 \in Requests
  BY <1>1, <1>2 DEF Requests, RequestPCs, Kinds
<1>4. req' = [req EXCEPT ![r] = q0]
  BY DEF Begin, mine
<1>5. Touches(r) /\ req'[r] = q0
  BY <1>3, <1>4 DEF Touches, TypeOK
<1> HIDE DEF new
<1>6. /\ req'[r].pc = IF kind = "delete" THEN "provision" ELSE "snapshot"
      /\ req'[r].kind = kind /\ req'[r].id = s /\ req'[r].seen = config[s]
      /\ req'[r].mine = mine /\ req'[r].idx = {} /\ req'[r].clean = (s \notin drifted)
  BY <1>5
<1>7. /\ overlapped' \in {overlapped, overlapped \union {s}}
      /\ (\E q \in Request \ {r} : Open(q) /\ req[q].id = s) => s \in overlapped'
  BY DEF Begin
<1>8. req'[r].clean => s \notin drifted
  BY <1>6
<1>9. QED BY <1>1, <1>2, <1>5, <1>6, <1>7, <1>8 DEF Begin, new

LEMMA SnapshotEffect ==
    ASSUME TypeOK, NEW r \in Request, SaveConfigSnapshot(r)
    PROVE  /\ req[r].pc = "snapshot"
           /\ \/ /\ snapshot' = [snapshot EXCEPT ![req[r].id] = req[r].seen]
                 /\ Goes(r, IF req[r].kind = "rename" THEN "names" ELSE "save")
              \/ /\ snapshot' \in {snapshot, [snapshot EXCEPT ![req[r].id] = req[r].seen]}
                 /\ Ends(r)
           /\ UNCHANGED <<executor, config, index, job, tail, deployed, ghosts>>
  BY EndEnds, GotoGoes DEF SaveConfigSnapshot, SnapshotOf, TypeOK, RequestPCs

LEMMA ListIndexEffect ==
    ASSUME TypeOK, NEW r \in Request, ListIndex(r)
    PROVE  /\ req[r].pc = "names"
           /\ \/ /\ Moves(r, "check") /\ req'[r].idx = index
                 /\ req'[r].mine = req[r].mine /\ req'[r].back = req[r].back
              \/ Ends(r)
           /\ blurred' \in BOOLEAN /\ (blurred => blurred')
           /\ ~blurred' => \A q \in Request \ {r} : ~Naming(q)
           /\ UNCHANGED <<executor, store, job, tail, deployed, accepted, forgotten, crossed,
                          overlapped, drifted>>
<1>1. \/ /\ Moves(r, "check") /\ req'[r].idx = index
         /\ req'[r].mine = req[r].mine /\ req'[r].back = req[r].back
      \/ Ends(r)
  BY EndEnds, IndexMoves DEF ListIndex, TypeOK, RequestPCs
<1>2. blurred' = (blurred \/ \E q \in Request \ {r} : Naming(q)) /\ blurred \in BOOLEAN
  BY DEF ListIndex, TypeOK
<1>3. blurred' \in BOOLEAN
  BY <1>2 DEF Naming
<1>4. (blurred => blurred') /\ (~blurred' => \A q \in Request \ {r} : ~Naming(q))
  BY <1>2 DEF Naming
<1>5. QED BY <1>1, <1>3, <1>4 DEF ListIndex

LEMMA CheckNameEffect ==
    ASSUME TypeOK, NEW r \in Request, CheckName(r)
    PROVE  /\ req[r].pc = "check" /\ blurred' \in BOOLEAN
           /\ blurred => blurred'
           /\ \/ Ends(r)
              \/ /\ Moves(r, "save") /\ req'[r].idx = {}
                 /\ req'[r].mine = req[r].mine /\ req'[r].back = req[r].back
                 /\ ~blurred' => ~Taken(r, Listed(req[r].idx))
           /\ UNCHANGED <<executor, store, job, tail, deployed, accepted, forgotten, crossed,
                          overlapped, drifted>>
<1>1. req \in [Request -> Requests] /\ blurred \in BOOLEAN
  BY DEF TypeOK
<1>2. CASE End(r) /\ UNCHANGED blurred
  BY <1>1, <1>2, EndEnds DEF CheckName
<1>3. ASSUME NEW read \in SUBSET Listed(req[r].idx),
             IF Taken(r, read) THEN End(r) ELSE req' = [req EXCEPT ![r].pc = "save", ![r].idx = {}],
             blurred' = (blurred \/ read # Listed(req[r].idx))
      PROVE  /\ blurred' \in BOOLEAN /\ blurred => blurred'
             /\ \/ Ends(r)
                \/ /\ Moves(r, "save") /\ req'[r].idx = {}
                   /\ req'[r].mine = req[r].mine /\ req'[r].back = req[r].back
                   /\ ~blurred' => ~Taken(r, Listed(req[r].idx))
  <2>1. blurred' \in BOOLEAN /\ (blurred => blurred')
    BY <1>1, <1>3
  <2>2. CASE Taken(r, read)
    BY <1>1, <1>3, <2>1, <2>2, EndEnds
  <2>3. CASE ~Taken(r, read)
    <3>1. /\ Moves(r, "save") /\ req'[r].idx = {}
          /\ req'[r].mine = req[r].mine /\ req'[r].back = req[r].back
      <4>1. req' = [req EXCEPT ![r].pc = "save", ![r].idx = {}]
        BY <1>3, <2>3
      <4>2. {} \in SUBSET Server /\ "save" \in RequestPCs
        BY DEF RequestPCs
      <4>3. QED BY <1>1, <4>1, <4>2, IndexMoves
    <3>2. QED BY <1>3, <2>1, <2>3, <3>1
  <2>4. QED BY <2>2, <2>3
<1>4. QED BY <1>1, <1>2, <1>3 DEF CheckName

LEMMA SaveConfigEffect ==
    ASSUME TypeOK, NEW r \in Request, SaveConfig(r)
    PROVE  /\ req[r].pc = "save"
           /\ \/ Ends(r) /\ UNCHANGED <<config, crossed, drifted>>
              \/ /\ WriteConfig(req[r].id, req[r].mine, req[r].seen)
                 /\ drifted' = drifted \union {req[r].id}
                 /\ \/ Ends(r)
                    \/ Goes(r, IF req[r].kind = "create" THEN "readindex" ELSE "provision")
           /\ UNCHANGED <<executor, index, snapshot, job, tail, deployed, accepted, forgotten,
                          overlapped, blurred>>
  BY EndEnds, GotoGoes DEF SaveConfig, TypeOK, RequestPCs

LEMMA ReadIndexEffect ==
    ASSUME TypeOK, NEW r \in Request, ReadIndex(r)
    PROVE  /\ req[r].pc = "readindex"
           /\ \/ /\ Moves(r, "writeindex") /\ req'[r].idx = index
                 /\ req'[r].mine = req[r].mine /\ req'[r].back = req[r].back
              \/ Ends(r)
           /\ UNCHANGED <<executor, store, job, tail, deployed, ghosts>>
  BY EndEnds, IndexMoves DEF ReadIndex, TypeOK, RequestPCs

LEMMA AddToIndexEffect ==
    ASSUME TypeOK, NEW r \in Request, AddToIndex(r)
    PROVE  /\ req[r].pc = "writeindex"
           /\ index' \subseteq Server /\ index' \subseteq index \union req[r].idx \union {r}
           /\ "index" \notin crossed' => index' \in {index, index \union {r}}
           /\ crossed \subseteq crossed' /\ crossed' \subseteq crossed \union {"index"}
           /\ (Goes(r, "provision") /\ r \in index') \/ Ends(r)
           /\ UNCHANGED <<executor, config, snapshot, job, tail, deployed, accepted, forgotten,
                          overlapped, drifted, blurred>>
<1> DEFINE ids == req[r].idx \union {r}
<1>1. ids \subseteq Server /\ r \in ids /\ ids \subseteq index \union req[r].idx \union {r}
  BY RequestType DEF TypeOK, Server
<1>2. WriteIndex(ids, req[r].idx) =>
          /\ index' = ids /\ crossed \subseteq crossed' /\ crossed' \subseteq crossed \union {"index"}
          /\ "index" \notin crossed' => index' = index \union {r}
  <2>1. "index" \notin crossed' /\ index' = ids /\ index = req[r].idx => index' = index \union {r}
    OBVIOUS
  <2> HIDE DEF ids
  <2>2. QED BY <2>1, IndexWritten
<1>3. /\ req[r].pc = "writeindex"
      /\ \/ WriteIndex(ids, req[r].idx) /\ Goto(r, "provision")
         \/ (WriteIndex(ids, req[r].idx) \/ UNCHANGED <<index, crossed>>) /\ End(r)
      /\ UNCHANGED <<executor, config, snapshot, job, tail, deployed, accepted, forgotten,
                     overlapped, drifted, blurred>>
  BY DEF AddToIndex, FailedIndex
<1>4. (Goto(r, "provision") => Goes(r, "provision")) /\ (End(r) => Ends(r))
  BY EndEnds, GotoGoes DEF TypeOK, RequestPCs
<1>5. index \subseteq Server
  BY DEF TypeOK
<1> HIDE DEF ids
<1>6. QED BY <1>1, <1>2, <1>3, <1>4, <1>5

LEMMA AcceptEffect ==
    ASSUME TypeOK, NEW r \in Request, Accept(r)
    PROVE  /\ req[r].pc = "provision" /\ job[req[r].id].pc = "idle" /\ Ends(r)
           /\ Works(req[r].id)
           /\ job'[req[r].id].pc \in {"queued", "deploy", "destroy"}
           /\ job'[req[r].id].pc = "destroy" <=> req[r].kind = "delete"
           /\ job'[req[r].id].want = IF req[r].kind = "delete" THEN Absent ELSE req[r].mine
           /\ drifted' = IF req[r].kind = "delete" THEN drifted ELSE drifted \ {req[r].id}
           /\ accepted' = IF req[r].kind = "create" THEN accepted \union {req[r].id} ELSE accepted
           /\ deployed' = IF req[r].kind = "delete" THEN deployed
                          ELSE [deployed EXCEPT ![req[r].id] = Absent]
           /\ UNCHANGED <<executor, store, tail, forgotten, crossed, overlapped, blurred>>
<1> DEFINE s == req[r].id
           delete == req[r].kind = "delete"
           pc == IF executor = "cloud" /\ ~delete THEN "queued"
                 ELSE IF delete THEN "destroy" ELSE "deploy"
           want == IF delete THEN Absent ELSE req[r].mine
           j == [pc |-> pc, want |-> want, copy |-> Absent]
<1>1. s \in Server /\ req[r].mine \in Configs \union {Absent}
  BY RequestType DEF TypeOK
<1>2. j \in Jobs /\ j.pc = pc /\ j.want = want
  BY <1>1 DEF Jobs
<1>3. job' = [job EXCEPT ![s] = j]
  BY DEF Accept
<1> HIDE DEF j
<1>4. Works(s) /\ job'[s] = j
  BY <1>1, <1>2, <1>3, JobWorks DEF TypeOK
<1>5. Ends(r)
  BY EndEnds DEF Accept, TypeOK
<1>6. QED BY <1>2, <1>4, <1>5 DEF Accept, Busy

LEMMA RefuseEffect ==
    ASSUME TypeOK, NEW r \in Request, Refuse(r)
    PROVE  /\ req[r].pc = "provision"
           /\ \/ Ends(r)
              \/ Goes(r, "getsnapshot") /\ req[r].kind \in {"update", "rename", "backup"}
           /\ UNCHANGED <<executor, store, job, tail, deployed, ghosts>>
  BY EndEnds, GotoGoes DEF Refuse, MayRevert, TypeOK, RequestPCs

LEMMA GetSnapshotEffect ==
    ASSUME TypeOK, NEW r \in Request, GetConfigSnapshot(r)
    PROVE  /\ req[r].pc = "getsnapshot"
           /\ \/ /\ Moves(r, "revert") /\ req'[r].back = snapshot[req[r].id]
                 /\ snapshot[req[r].id] # Absent
                 /\ req'[r].mine = req[r].mine /\ req'[r].idx = req[r].idx
              \/ Ends(r)
           /\ UNCHANGED <<executor, store, job, tail, deployed, ghosts>>
<1>1. snapshot[req[r].id] \in Configs \union {Absent}
  BY RequestType DEF TypeOK
<1>2. CASE End(r)
  BY <1>2, EndEnds DEF GetConfigSnapshot, TypeOK
<1>3. CASE snapshot[req[r].id] # Absent
           /\ req' = [req EXCEPT ![r].pc = "revert", ![r].back = snapshot[req[r].id]]
  <2>1. "revert" \in RequestPCs
    BY DEF RequestPCs
  <2>2. /\ Moves(r, "revert") /\ req'[r].back = snapshot[req[r].id]
        /\ req'[r].mine = req[r].mine /\ req'[r].idx = req[r].idx
    BY <1>1, <1>3, <2>1, BackMoves DEF TypeOK
  <2>3. QED BY <1>3, <2>2 DEF GetConfigSnapshot
<1>4. QED BY <1>2, <1>3 DEF GetConfigSnapshot

LEMMA RevertEffect ==
    ASSUME TypeOK, NEW r \in Request, RevertConfig(r)
    PROVE  /\ req[r].pc = "revert" /\ Ends(r)
           /\ \/ /\ WriteConfig(req[r].id, req[r].back, req[r].mine)
                 /\ drifted' = IF req[r].clean THEN drifted \ {req[r].id} ELSE drifted
                 /\ snapshot' \in {snapshot, [snapshot EXCEPT ![req[r].id] = Absent]}
              \/ UNCHANGED <<config, snapshot, crossed, drifted>>
           /\ UNCHANGED <<executor, index, job, tail, deployed, accepted, forgotten, overlapped,
                          blurred>>
  BY EndEnds DEF RevertConfig, TypeOK

LEMMA DeliverEffect ==
    ASSUME TypeOK, NEW s \in Server, Deliver(s)
    PROVE  /\ job[s].pc = "queued"
           /\ \/ Finishes(s)
              \/ /\ Works(s) /\ config[s] # Absent
                 /\ job'[s].pc = "deploy" /\ job'[s].want = config[s]
           /\ crossed' = IF s \in drifted THEN crossed \union {s} ELSE crossed
           /\ UNCHANGED <<executor, store, req, tail, deployed, accepted, forgotten, overlapped,
                          drifted, blurred>>
<1> DEFINE j == [pc |-> "deploy", want |-> config[s], copy |-> Absent]
<1>1. j \in Jobs /\ j.pc = "deploy" /\ j.want = config[s]
  BY DEF Jobs, TypeOK
<1>2. job' = [job EXCEPT ![s] = IF config[s] = Absent THEN NoJob ELSE j]
  BY DEF Deliver
<1> HIDE DEF j
<1>3. CASE config[s] = Absent
  BY <1>2, <1>3, EndFinishes DEF Deliver, EndJob, TypeOK
<1>4. CASE config[s] # Absent
  <2>1. Works(s) /\ job'[s] = j
    BY <1>1, <1>2, <1>4, JobWorks DEF TypeOK
  <2>2. QED BY <1>1, <1>4, <2>1 DEF Deliver
<1>5. QED BY <1>3, <1>4

LEMMA DeployEffect ==
    ASSUME TypeOK, NEW s \in Server, Deploy(s)
    PROVE  /\ job[s].pc = "deploy"
           /\ \/ Finishes(s)
              \/ Works(s) /\ job'[s].pc = "getconfig" /\ job'[s].want = job[s].want
           /\ UNCHANGED <<executor, store, req, tail, deployed, ghosts>>
<1>1. CASE EndJob(s)
  BY <1>1, EndFinishes DEF Deploy, TypeOK
<1>2. CASE job' = [job EXCEPT ![s].pc = "getconfig"]
  <2>1. Works(s) /\ job'[s].pc = "getconfig" /\ job'[s].want = job[s].want
    BY <1>2 DEF Works, Jobs, TypeOK
  <2>2. QED BY <2>1 DEF Deploy
<1>3. QED BY <1>1, <1>2 DEF Deploy

LEMMA GetToStampEffect ==
    ASSUME TypeOK, NEW s \in Server, GetConfigToStamp(s)
    PROVE  /\ job[s].pc = "getconfig"
           /\ \/ Finishes(s)
              \/ /\ Works(s) /\ job'[s].pc = "stamp" /\ job'[s].want = job[s].want
                 /\ job'[s].copy = config[s] /\ config[s] # Absent
           /\ UNCHANGED <<executor, store, req, tail, deployed, ghosts>>
<1>1. CASE EndJob(s)
  BY <1>1, EndFinishes DEF GetConfigToStamp, TypeOK
<1>2. CASE config[s] # Absent /\ job' = [job EXCEPT ![s].pc = "stamp", ![s].copy = config[s]]
  <2>1. config[s] \in Configs \union {Absent}
    BY DEF TypeOK
  <2>2. /\ Works(s) /\ job'[s].pc = "stamp" /\ job'[s].want = job[s].want
        /\ job'[s].copy = config[s]
    <3>1. job' = [job EXCEPT ![s] = [job[s] EXCEPT !.pc = "stamp", !.copy = config[s]]]
      BY <1>2
    <3>2. job[s] \in Jobs
      BY DEF TypeOK
    <3> DEFINE j == [job[s] EXCEPT !.pc = "stamp", !.copy = config[s]]
    <3>3. j \in Jobs /\ j.pc = "stamp" /\ j.want = job[s].want /\ j.copy = config[s]
      BY <2>1, <3>2 DEF Jobs
    <3> HIDE DEF j
    <3>4. Works(s) /\ job'[s] = j
      BY <3>1, <3>3, JobWorks DEF TypeOK, j
    <3>5. QED BY <3>3, <3>4
  <2>3. QED BY <1>2, <2>2 DEF GetConfigToStamp
<1>3. QED BY <1>1, <1>2 DEF GetConfigToStamp

LEMMA StampEffect ==
    ASSUME TypeOK, NEW s \in Server, Stamp(s)
    PROVE  /\ job[s].pc = "stamp" /\ Finishes(s)
           /\ \/ /\ WriteConfig(s, job[s].copy, job[s].copy)
                 /\ deployed' \in {deployed, [deployed EXCEPT ![s] = job[s].want]}
              \/ UNCHANGED <<config, crossed, deployed>>
           /\ UNCHANGED <<executor, index, snapshot, req, tail, accepted, forgotten, overlapped,
                          drifted, blurred>>
  BY EndFinishes DEF Stamp, Stamped, TypeOK

LEMMA DestroyEffect ==
    ASSUME TypeOK, NEW s \in Server, Destroy(s)
    PROVE  /\ job[s].pc = "destroy" /\ Finishes(s)
           /\ tail' = tail \/ (Trails(s) /\ tail'[s].pc = "delete" /\ tail'[s].idx = tail[s].idx)
           /\ UNCHANGED <<executor, store, req, deployed, ghosts>>
<1>1. tail' = [tail EXCEPT ![s].pc = "delete"]
          => Trails(s) /\ tail'[s].pc = "delete" /\ tail'[s].idx = tail[s].idx
  BY DEF Trails, Tails, TypeOK
<1>2. QED BY <1>1, EndFinishes DEF Destroy, TypeOK

LEMMA DeleteConfigEffect ==
    ASSUME TypeOK, NEW s \in Server, DeleteConfig(s)
    PROVE  /\ tail[s].pc = "delete"
           /\ \/ /\ config' = [config EXCEPT ![s] = Absent] /\ forgotten' = forgotten \union {s}
                 /\ \/ Trails(s) /\ tail'[s].pc = "readindex" /\ tail'[s].idx = tail[s].idx
                    \/ Stops(s)
              \/ Stops(s) /\ UNCHANGED <<config, forgotten>>
           /\ UNCHANGED <<executor, index, snapshot, req, job, deployed, accepted, crossed,
                          overlapped, drifted, blurred>>
<1>1. tail' = [tail EXCEPT ![s].pc = "readindex"]
          => Trails(s) /\ tail'[s].pc = "readindex" /\ tail'[s].idx = tail[s].idx
  BY DEF Trails, Tails, TypeOK
<1>2. tail' = [tail EXCEPT ![s] = NoTail] => Stops(s)
  BY NoTailType DEF Stops, Trails, TypeOK
<1>3. QED BY <1>1, <1>2 DEF DeleteConfig

LEMMA ReadToDeleteEffect ==
    ASSUME TypeOK, NEW s \in Server, ReadIndexToDelete(s)
    PROVE  /\ tail[s].pc = "readindex"
           /\ \/ Trails(s) /\ tail'[s].pc = "writeindex" /\ tail'[s].idx = index
              \/ Stops(s)
           /\ UNCHANGED <<executor, store, req, job, deployed, ghosts>>
<1>1. tail' = [tail EXCEPT ![s] = [pc |-> "writeindex", idx |-> index]]
          => Trails(s) /\ tail'[s].pc = "writeindex" /\ tail'[s].idx = index
  BY DEF Trails, Tails, TypeOK
<1>2. tail' = [tail EXCEPT ![s] = NoTail] => Stops(s)
  BY NoTailType DEF Stops, Trails, TypeOK
<1>3. QED BY <1>1, <1>2 DEF ReadIndexToDelete

LEMMA RemoveEffect ==
    ASSUME TypeOK, NEW s \in Server, RemoveFromIndex(s)
    PROVE  /\ tail[s].pc = "writeindex" /\ Stops(s)
           /\ index' \subseteq Server /\ index' \subseteq index \union tail[s].idx
           /\ "index" \notin crossed' => index' \in {index, index \ {s}}
           /\ crossed \subseteq crossed' /\ crossed' \subseteq crossed \union {"index"}
           /\ UNCHANGED <<executor, config, snapshot, req, job, deployed, accepted, forgotten,
                          overlapped, drifted, blurred>>
<1> DEFINE ids == tail[s].idx \ {s}
<1>1. ids \subseteq Server /\ ids \subseteq index \union tail[s].idx
  BY TailType DEF TypeOK
<1>2. WriteIndex(ids, tail[s].idx) =>
          /\ index' = ids /\ crossed \subseteq crossed' /\ crossed' \subseteq crossed \union {"index"}
          /\ "index" \notin crossed' => index' = index \ {s}
  <2>1. "index" \notin crossed' /\ index' = ids /\ index = tail[s].idx => index' = index \ {s}
    OBVIOUS
  <2> HIDE DEF ids
  <2>2. QED BY <2>1, IndexWritten
<1>3. /\ tail[s].pc = "writeindex"
      /\ WriteIndex(ids, tail[s].idx) \/ UNCHANGED <<index, crossed>>
      /\ UNCHANGED <<executor, config, snapshot, req, job, deployed, accepted, forgotten,
                     overlapped, drifted, blurred>>
  BY DEF RemoveFromIndex
<1>4. Stops(s)
  BY NoTailType DEF RemoveFromIndex, Stops, Trails, TypeOK
<1>5. index \subseteq Server
  BY DEF TypeOK
<1> HIDE DEF ids
<1>6. QED BY <1>1, <1>2, <1>3, <1>4, <1>5

LEMMA CrashEffect ==
    ASSUME TypeOK, Crash
    PROVE  /\ req' \in [Request -> Requests] /\ job' \in [Server -> Jobs]
           /\ tail' \in [Server -> Tails]
           /\ \A r \in Request :
                  IF Open(r)
                  THEN /\ req'[r] = Blank(r, "done")
                       /\ req'[r].pc = "done" /\ req'[r].kind = "create" /\ req'[r].id = r
                       /\ req'[r].idx = {} /\ req'[r].seen = Absent
                  ELSE req'[r] = req[r]
           /\ \A s \in Server :
                  /\ job'[s] = job[s] \/ (job'[s] = NoJob /\ job'[s].pc = "idle" /\ job'[s].want = Absent)
                  /\ tail'[s] = NoTail /\ tail'[s].pc = "none" /\ tail'[s].idx = {}
           /\ UNCHANGED <<executor, store, deployed, ghosts>>
<1>1. \A r \in Request : Blank(r, "done") \in Requests
  BY BlankType
<1>2. /\ req' = [r \in Request |-> IF Open(r) THEN Blank(r, "done") ELSE req[r]]
      /\ job' = [s \in Server |-> IF job[s].pc = "queued" THEN job[s] ELSE NoJob]
      /\ tail' = [s \in Server |-> NoTail]
      /\ UNCHANGED <<executor, store, deployed, ghosts>>
  BY DEF Crash
<1>3. /\ req' \in [Request -> Requests] /\ job' \in [Server -> Jobs]
      /\ tail' \in [Server -> Tails]
  BY <1>1, <1>2, NoJobType, NoTailType DEF TypeOK
<1>4. \A r \in Request : req'[r] = IF Open(r) THEN Blank(r, "done") ELSE req[r]
  BY <1>2
<1>5. \A s \in Server : job'[s] \in {job[s], NoJob} /\ tail'[s] = NoTail
  BY <1>2
<1>6. QED BY <1>2, <1>3, <1>4, <1>5, BlankType, NoJobType, NoTailType


-----------------------------------------------------------------------------
(***************************************************************************)
(* A step is one of these                                                  *)
(***************************************************************************)
LEMMA StepCases ==
    ASSUME Next
    PROVE  \/ \E r \in Request, name \in Name : Create(r, name)
           \/ \E r \in Request, kind \in Kinds \ {"create"}, s \in Server, name \in Name :
                  Begin(r, kind, s, name)
           \/ \E r \in Request :
                  \/ SaveConfigSnapshot(r) \/ ListIndex(r) \/ CheckName(r) \/ SaveConfig(r)
                  \/ ReadIndex(r) \/ AddToIndex(r) \/ Accept(r) \/ Refuse(r)
                  \/ GetConfigSnapshot(r) \/ RevertConfig(r)
           \/ \E s \in Server :
                  \/ Deliver(s) \/ Deploy(s) \/ GetConfigToStamp(s) \/ Stamp(s)
                  \/ Destroy(s) \/ DeleteConfig(s) \/ ReadIndexToDelete(s) \/ RemoveFromIndex(s)
           \/ Crash
<1>1. CASE \E r \in Request : RequestStep(r)
  <2>1. {"update", "rename", "backup", "delete"} \subseteq Kinds \ {"create"}
    BY DEF Kinds
  <2>2. QED BY <1>1, <2>1 DEF RequestStep, UpdateServer, HandleUpdateAgent,
                              UpdateBackupSettings, DeleteServer
<1>2. CASE \E s \in Server : OperationStep(s)
  BY <1>2 DEF OperationStep
<1>3. QED BY <1>1, <1>2 DEF Next

LEMMA WorksAlone ==
    ASSUME OverlapIsSeen, NEW r \in Request, NEW q \in Request, q # r, Alone(r), Open(q)
    PROVE  req[q].id # req[r].id
  BY DEF OverlapIsSeen, Alone

-----------------------------------------------------------------------------
(***************************************************************************)
(* Each part of the invariant, kept by each step                           *)
(***************************************************************************)
LEMMA TypeNext ==
    ASSUME TypeOK, Next
    PROVE  TypeOK'
<1>1. ASSUME NEW r \in Request, NEW name \in Name, Create(r, name) PROVE TypeOK'
  BY <1>1, CreateEffect DEF TypeOK, store, ghosts, Touches, Moves
<1>2. ASSUME NEW r \in Request, NEW kind \in Kinds \ {"create"}, NEW s \in Server,
             NEW name \in Name, Begin(r, kind, s, name) PROVE TypeOK'
  BY <1>2, BeginEffect DEF TypeOK, store, Touches
<1>3. ASSUME NEW r \in Request, SaveConfigSnapshot(r) PROVE TypeOK'
  BY <1>3, SnapshotEffect, RequestType DEF TypeOK, ghosts, Touches, Moves, Goes, Ends
<1>4. ASSUME NEW r \in Request, ListIndex(r) PROVE TypeOK'
  BY <1>4, ListIndexEffect DEF TypeOK, store, Touches, Moves, Ends
<1>5. ASSUME NEW r \in Request, CheckName(r) PROVE TypeOK'
  BY <1>5, CheckNameEffect DEF TypeOK, store, Touches, Moves, Ends
<1>6. ASSUME NEW r \in Request, SaveConfig(r) PROVE TypeOK'
  BY <1>6, SaveConfigEffect, RequestType, ConfigWritten
     DEF TypeOK, Touches, Moves, Goes, Ends
<1>7. ASSUME NEW r \in Request, ReadIndex(r) PROVE TypeOK'
  BY <1>7, ReadIndexEffect DEF TypeOK, store, ghosts, Touches, Moves, Ends
<1>8. ASSUME NEW r \in Request, AddToIndex(r) PROVE TypeOK'
  BY <1>8, AddToIndexEffect DEF TypeOK, Touches, Moves, Goes, Ends
<1>9. ASSUME NEW r \in Request, Accept(r) PROVE TypeOK'
  BY <1>9, AcceptEffect, RequestType DEF TypeOK, store, Touches, Works, Ends
<1>10. ASSUME NEW r \in Request, Refuse(r) PROVE TypeOK'
  BY <1>10, RefuseEffect DEF TypeOK, store, ghosts, Touches, Moves, Goes, Ends
<1>11. ASSUME NEW r \in Request, GetConfigSnapshot(r) PROVE TypeOK'
  BY <1>11, GetSnapshotEffect DEF TypeOK, store, ghosts, Touches, Moves, Ends
<1>12. ASSUME NEW r \in Request, RevertConfig(r) PROVE TypeOK'
  BY <1>12, RevertEffect, RequestType, ConfigWritten DEF TypeOK, Touches, Ends
<1>13. ASSUME NEW s \in Server, Deliver(s) PROVE TypeOK'
  BY <1>13, DeliverEffect DEF TypeOK, store, Works, Finishes
<1>14. ASSUME NEW s \in Server, Deploy(s) PROVE TypeOK'
  BY <1>14, DeployEffect DEF TypeOK, store, ghosts, Works, Finishes
<1>15. ASSUME NEW s \in Server, GetConfigToStamp(s) PROVE TypeOK'
  BY <1>15, GetToStampEffect DEF TypeOK, store, ghosts, Works, Finishes
<1>16. ASSUME NEW s \in Server, Stamp(s) PROVE TypeOK'
  BY <1>16, StampEffect, JobType, ConfigWritten DEF TypeOK, Works, Finishes
<1>17. ASSUME NEW s \in Server, Destroy(s) PROVE TypeOK'
  BY <1>17, DestroyEffect DEF TypeOK, store, ghosts, Works, Trails, Finishes
<1>18. ASSUME NEW s \in Server, DeleteConfig(s) PROVE TypeOK'
  BY <1>18, DeleteConfigEffect DEF TypeOK, Trails, Stops
<1>19. ASSUME NEW s \in Server, ReadIndexToDelete(s) PROVE TypeOK'
  BY <1>19, ReadToDeleteEffect DEF TypeOK, store, ghosts, Trails, Stops
<1>20. ASSUME NEW s \in Server, RemoveFromIndex(s) PROVE TypeOK'
  BY <1>20, RemoveEffect DEF TypeOK, Trails, Stops
<1>21. CASE Crash
  BY <1>21, CrashEffect DEF TypeOK, store, ghosts
<1>22. QED BY StepCases, <1>1, <1>2, <1>3, <1>4, <1>5, <1>6, <1>7, <1>8, <1>9, <1>10, <1>11,
   <1>12, <1>13, <1>14, <1>15, <1>16, <1>17, <1>18, <1>19, <1>20, <1>21

LEMMA RequestsNext ==
    ASSUME TypeOK, RequestsInOrder, Next
    PROVE  RequestsInOrder'
<1>1. ASSUME NEW r \in Request, NEW name \in Name, Create(r, name) PROVE RequestsInOrder'
  BY <1>1, CreateEffect, AbsentIsNoConfig, BlankType
     DEF RequestsInOrder, Open, store, ghosts, Moves, Touches
<1>2. ASSUME NEW r \in Request, NEW kind \in Kinds \ {"create"}, NEW s \in Server,
             NEW name \in Name, Begin(r, kind, s, name) PROVE RequestsInOrder'
  <2>1. /\ Touches(r) /\ req'[r].kind = kind /\ req'[r].id = s /\ req'[r].seen = config[s]
        /\ req'[r].pc = IF kind = "delete" THEN "provision" ELSE "snapshot"
        /\ req'[r].mine \in Configs /\ config[s] \in Configs
        /\ kind # "rename" => req'[r].mine.name = config[s].name
    BY <1>2, BeginEffect
  <2>2. QED BY <2>1, AbsentIsNoConfig DEF RequestsInOrder, Open, Touches, Kinds
<1>3. ASSUME NEW r \in Request, SaveConfigSnapshot(r) PROVE RequestsInOrder'
  BY <1>3, SnapshotEffect DEF RequestsInOrder, Open, ghosts, Ends, Goes, Moves, Touches
<1>4. ASSUME NEW r \in Request, ListIndex(r) PROVE RequestsInOrder'
  BY <1>4, ListIndexEffect DEF RequestsInOrder, Open, store, Ends, Moves, Touches
<1>5. ASSUME NEW r \in Request, CheckName(r) PROVE RequestsInOrder'
  BY <1>5, CheckNameEffect DEF RequestsInOrder, Open, store, Ends, Moves, Touches
<1>6. ASSUME NEW r \in Request, SaveConfig(r) PROVE RequestsInOrder'
  BY <1>6, SaveConfigEffect DEF RequestsInOrder, Open, Ends, Goes, Moves, Touches
<1>7. ASSUME NEW r \in Request, ReadIndex(r) PROVE RequestsInOrder'
  BY <1>7, ReadIndexEffect DEF RequestsInOrder, Open, store, ghosts, Ends, Moves, Touches
<1>8. ASSUME NEW r \in Request, AddToIndex(r) PROVE RequestsInOrder'
  BY <1>8, AddToIndexEffect DEF RequestsInOrder, Open, Ends, Goes, Moves, Touches
<1>9. ASSUME NEW r \in Request, Accept(r) PROVE RequestsInOrder'
  BY <1>9, AcceptEffect DEF RequestsInOrder, Open, store, Ends, Touches
<1>10. ASSUME NEW r \in Request, Refuse(r) PROVE RequestsInOrder'
  BY <1>10, RefuseEffect
     DEF RequestsInOrder, Open, store, ghosts, Ends, Goes, Moves, Touches
<1>11. ASSUME NEW r \in Request, GetConfigSnapshot(r) PROVE RequestsInOrder'
  BY <1>11, GetSnapshotEffect
     DEF RequestsInOrder, Open, store, ghosts, Ends, Moves, Touches
<1>12. ASSUME NEW r \in Request, RevertConfig(r) PROVE RequestsInOrder'
  BY <1>12, RevertEffect DEF RequestsInOrder, Open, Ends, Touches
<1>13. ASSUME NEW s \in Server, Deliver(s) PROVE RequestsInOrder'
  BY <1>13, DeliverEffect DEF RequestsInOrder, Open, store
<1>14. ASSUME NEW s \in Server, Deploy(s) PROVE RequestsInOrder'
  BY <1>14, DeployEffect DEF RequestsInOrder, Open, store, ghosts
<1>15. ASSUME NEW s \in Server, GetConfigToStamp(s) PROVE RequestsInOrder'
  BY <1>15, GetToStampEffect DEF RequestsInOrder, Open, store, ghosts
<1>16. ASSUME NEW s \in Server, Stamp(s) PROVE RequestsInOrder'
  BY <1>16, StampEffect DEF RequestsInOrder, Open
<1>17. ASSUME NEW s \in Server, Destroy(s) PROVE RequestsInOrder'
  BY <1>17, DestroyEffect DEF RequestsInOrder, Open, store, ghosts
<1>18. ASSUME NEW s \in Server, DeleteConfig(s) PROVE RequestsInOrder'
  BY <1>18, DeleteConfigEffect DEF RequestsInOrder, Open
<1>19. ASSUME NEW s \in Server, ReadIndexToDelete(s) PROVE RequestsInOrder'
  BY <1>19, ReadToDeleteEffect DEF RequestsInOrder, Open, store, ghosts
<1>20. ASSUME NEW s \in Server, RemoveFromIndex(s) PROVE RequestsInOrder'
  BY <1>20, RemoveEffect DEF RequestsInOrder, Open
<1>21. CASE Crash
  BY <1>21, CrashEffect DEF RequestsInOrder, Open, store, ghosts
<1>22. QED BY StepCases, <1>1, <1>2, <1>3, <1>4, <1>5, <1>6, <1>7, <1>8, <1>9, <1>10, <1>11,
   <1>12, <1>13, <1>14, <1>15, <1>16, <1>17, <1>18, <1>19, <1>20, <1>21

LEMMA FreshNext ==
    ASSUME TypeOK, RequestsInOrder, FreshIsUntouched, Next
    PROVE  FreshIsUntouched'
<1>1. ASSUME NEW r \in Request, NEW name \in Name, Create(r, name) PROVE FreshIsUntouched'
  BY <1>1, CreateEffect
     DEF FreshIsUntouched, RequestsInOrder, Unsaved, Open, store, ghosts, Moves, Touches,
        TypeOK, Server
<1>2. ASSUME NEW r \in Request, NEW kind \in Kinds \ {"create"}, NEW s \in Server,
             NEW name \in Name, Begin(r, kind, s, name) PROVE FreshIsUntouched'
  BY <1>2, BeginEffect, AbsentIsNoConfig
     DEF FreshIsUntouched, RequestsInOrder, Unsaved, Open, store, Touches, TypeOK, Server
<1>3. ASSUME NEW r \in Request, SaveConfigSnapshot(r) PROVE FreshIsUntouched'
  BY <1>3, SnapshotEffect
     DEF FreshIsUntouched, RequestsInOrder, Unsaved, Open, ghosts, Ends, Goes, Moves,
        Touches, TypeOK, Server
<1>4. ASSUME NEW r \in Request, ListIndex(r) PROVE FreshIsUntouched'
  BY <1>4, ListIndexEffect
     DEF FreshIsUntouched, RequestsInOrder, Unsaved, Open, store, Ends, Moves, Touches,
        TypeOK, Server
<1>5. ASSUME NEW r \in Request, CheckName(r) PROVE FreshIsUntouched'
  BY <1>5, CheckNameEffect
     DEF FreshIsUntouched, RequestsInOrder, Unsaved, Open, store, Ends, Moves, Touches,
        TypeOK, Server
<1>6. ASSUME NEW r \in Request, SaveConfig(r) PROVE FreshIsUntouched'
  BY <1>6, SaveConfigEffect, ConfigWritten, RequestType
     DEF FreshIsUntouched, RequestsInOrder, Unsaved, Open, Ends, Goes, Moves, Touches,
        TypeOK, Server
<1>7. ASSUME NEW r \in Request, ReadIndex(r) PROVE FreshIsUntouched'
  BY <1>7, ReadIndexEffect
     DEF FreshIsUntouched, RequestsInOrder, Unsaved, Open, store, ghosts, Ends, Moves,
        Touches, TypeOK, Server
<1>8. ASSUME NEW r \in Request, AddToIndex(r) PROVE FreshIsUntouched'
  BY <1>8, AddToIndexEffect
     DEF FreshIsUntouched, RequestsInOrder, Unsaved, Open, Ends, Goes, Moves, Touches,
        TypeOK, Server
<1>9. ASSUME NEW r \in Request, Accept(r) PROVE FreshIsUntouched'
  BY <1>9, AcceptEffect
     DEF FreshIsUntouched, RequestsInOrder, Unsaved, Open, store, Ends, Touches, Works,
        TypeOK, Server
<1>10. ASSUME NEW r \in Request, Refuse(r) PROVE FreshIsUntouched'
  BY <1>10, RefuseEffect
     DEF FreshIsUntouched, RequestsInOrder, Unsaved, Open, store, ghosts, Ends, Goes, Moves,
        Touches, TypeOK, Server
<1>11. ASSUME NEW r \in Request, GetConfigSnapshot(r) PROVE FreshIsUntouched'
  BY <1>11, GetSnapshotEffect
     DEF FreshIsUntouched, RequestsInOrder, Unsaved, Open, store, ghosts, Ends, Moves,
        Touches, TypeOK, Server
<1>12. ASSUME NEW r \in Request, RevertConfig(r) PROVE FreshIsUntouched'
  BY <1>12, RevertEffect, ConfigWritten, RequestType
     DEF FreshIsUntouched, RequestsInOrder, Unsaved, Open, Ends, Touches, TypeOK, Server
<1>13. ASSUME NEW s \in Server, Deliver(s) PROVE FreshIsUntouched'
  BY <1>13, DeliverEffect, NoJobType
     DEF FreshIsUntouched, RequestsInOrder, Unsaved, Open, store, Works, Finishes, TypeOK,
        Server
<1>14. ASSUME NEW s \in Server, Deploy(s) PROVE FreshIsUntouched'
  BY <1>14, DeployEffect, NoJobType
     DEF FreshIsUntouched, RequestsInOrder, Unsaved, Open, store, ghosts, Works, Finishes,
        TypeOK, Server
<1>15. ASSUME NEW s \in Server, GetConfigToStamp(s) PROVE FreshIsUntouched'
  BY <1>15, GetToStampEffect, NoJobType
     DEF FreshIsUntouched, RequestsInOrder, Unsaved, Open, store, ghosts, Works, Finishes,
        TypeOK, Server
<1>16. ASSUME NEW s \in Server, Stamp(s) PROVE FreshIsUntouched'
  BY <1>16, StampEffect, ConfigWritten, NoJobType
     DEF FreshIsUntouched, RequestsInOrder, Unsaved, Open, Works, Finishes, TypeOK, Server
<1>17. ASSUME NEW s \in Server, Destroy(s) PROVE FreshIsUntouched'
  BY <1>17, DestroyEffect, NoJobType
     DEF FreshIsUntouched, RequestsInOrder, Unsaved, Open, store, ghosts, Works, Finishes,
        Trails, TypeOK, Server
<1>18. ASSUME NEW s \in Server, DeleteConfig(s) PROVE FreshIsUntouched'
  BY <1>18, DeleteConfigEffect, NoTailType
     DEF FreshIsUntouched, RequestsInOrder, Unsaved, Open, Trails, Stops, TypeOK, Server
<1>19. ASSUME NEW s \in Server, ReadIndexToDelete(s) PROVE FreshIsUntouched'
  BY <1>19, ReadToDeleteEffect, NoTailType
     DEF FreshIsUntouched, RequestsInOrder, Unsaved, Open, store, ghosts, Trails, Stops,
        TypeOK, Server
<1>20. ASSUME NEW s \in Server, RemoveFromIndex(s) PROVE FreshIsUntouched'
  BY <1>20, RemoveEffect, NoTailType
     DEF FreshIsUntouched, RequestsInOrder, Unsaved, Open, Trails, Stops, TypeOK, Server
<1>21. CASE Crash
  BY <1>21, CrashEffect
     DEF FreshIsUntouched, RequestsInOrder, Unsaved, Open, store, ghosts, TypeOK, Server
<1>22. QED BY StepCases, <1>1, <1>2, <1>3, <1>4, <1>5, <1>6, <1>7, <1>8, <1>9, <1>10, <1>11,
   <1>12, <1>13, <1>14, <1>15, <1>16, <1>17, <1>18, <1>19, <1>20, <1>21

LEMMA OverlapNext ==
    ASSUME TypeOK, RequestsInOrder, FreshIsUntouched, OverlapIsSeen, Next
    PROVE  OverlapIsSeen'
<1>1. ASSUME NEW r \in Request, NEW name \in Name, Create(r, name) PROVE OverlapIsSeen'
  BY <1>1, CreateEffect, BlankType
     DEF OverlapIsSeen, Open, store, ghosts, Moves, Touches, FreshIsUntouched,
        RequestsInOrder
<1>2. ASSUME NEW r \in Request, NEW kind \in Kinds \ {"create"}, NEW s \in Server,
             NEW name \in Name, Begin(r, kind, s, name) PROVE OverlapIsSeen'
  BY <1>2, BeginEffect DEF OverlapIsSeen, Open, store, Touches
<1>3. ASSUME NEW r \in Request, SaveConfigSnapshot(r) PROVE OverlapIsSeen'
  BY <1>3, SnapshotEffect DEF OverlapIsSeen, Open, ghosts, Ends, Goes, Moves, Touches
<1>4. ASSUME NEW r \in Request, ListIndex(r) PROVE OverlapIsSeen'
  BY <1>4, ListIndexEffect DEF OverlapIsSeen, Open, store, Ends, Moves, Touches
<1>5. ASSUME NEW r \in Request, CheckName(r) PROVE OverlapIsSeen'
  BY <1>5, CheckNameEffect DEF OverlapIsSeen, Open, store, Ends, Moves, Touches
<1>6. ASSUME NEW r \in Request, SaveConfig(r) PROVE OverlapIsSeen'
  BY <1>6, SaveConfigEffect DEF OverlapIsSeen, Open, Ends, Goes, Moves, Touches
<1>7. ASSUME NEW r \in Request, ReadIndex(r) PROVE OverlapIsSeen'
  BY <1>7, ReadIndexEffect DEF OverlapIsSeen, Open, store, ghosts, Ends, Moves, Touches
<1>8. ASSUME NEW r \in Request, AddToIndex(r) PROVE OverlapIsSeen'
  BY <1>8, AddToIndexEffect DEF OverlapIsSeen, Open, Ends, Goes, Moves, Touches
<1>9. ASSUME NEW r \in Request, Accept(r) PROVE OverlapIsSeen'
  BY <1>9, AcceptEffect DEF OverlapIsSeen, Open, store, Ends, Touches, Works
<1>10. ASSUME NEW r \in Request, Refuse(r) PROVE OverlapIsSeen'
  BY <1>10, RefuseEffect
     DEF OverlapIsSeen, Open, store, ghosts, Ends, Goes, Moves, Touches
<1>11. ASSUME NEW r \in Request, GetConfigSnapshot(r) PROVE OverlapIsSeen'
  BY <1>11, GetSnapshotEffect DEF OverlapIsSeen, Open, store, ghosts, Ends, Moves, Touches
<1>12. ASSUME NEW r \in Request, RevertConfig(r) PROVE OverlapIsSeen'
  BY <1>12, RevertEffect DEF OverlapIsSeen, Open, Ends, Touches
<1>13. ASSUME NEW s \in Server, Deliver(s) PROVE OverlapIsSeen'
  BY <1>13, DeliverEffect DEF OverlapIsSeen, Open, store, Works, Finishes
<1>14. ASSUME NEW s \in Server, Deploy(s) PROVE OverlapIsSeen'
  BY <1>14, DeployEffect DEF OverlapIsSeen, Open, store, ghosts, Works, Finishes
<1>15. ASSUME NEW s \in Server, GetConfigToStamp(s) PROVE OverlapIsSeen'
  BY <1>15, GetToStampEffect DEF OverlapIsSeen, Open, store, ghosts, Works, Finishes
<1>16. ASSUME NEW s \in Server, Stamp(s) PROVE OverlapIsSeen'
  BY <1>16, StampEffect DEF OverlapIsSeen, Open, Works, Finishes
<1>17. ASSUME NEW s \in Server, Destroy(s) PROVE OverlapIsSeen'
  BY <1>17, DestroyEffect DEF OverlapIsSeen, Open, store, ghosts, Works, Finishes, Trails
<1>18. ASSUME NEW s \in Server, DeleteConfig(s) PROVE OverlapIsSeen'
  BY <1>18, DeleteConfigEffect DEF OverlapIsSeen, Open, Trails, Stops
<1>19. ASSUME NEW s \in Server, ReadIndexToDelete(s) PROVE OverlapIsSeen'
  BY <1>19, ReadToDeleteEffect DEF OverlapIsSeen, Open, store, ghosts, Trails, Stops
<1>20. ASSUME NEW s \in Server, RemoveFromIndex(s) PROVE OverlapIsSeen'
  BY <1>20, RemoveEffect DEF OverlapIsSeen, Open, Trails, Stops
<1>21. CASE Crash
  BY <1>21, CrashEffect DEF OverlapIsSeen, Open, store, ghosts, RequestsInOrder
<1>22. QED BY StepCases, <1>1, <1>2, <1>3, <1>4, <1>5, <1>6, <1>7, <1>8, <1>9, <1>10, <1>11,
   <1>12, <1>13, <1>14, <1>15, <1>16, <1>17, <1>18, <1>19, <1>20, <1>21

LEMMA SnapshotNext ==
    ASSUME TypeOK, RequestsInOrder, OverlapIsSeen, SnapshotIsSeen, Next
    PROVE  SnapshotIsSeen'
<1>1. ASSUME NEW r \in Request, NEW name \in Name, Create(r, name) PROVE SnapshotIsSeen'
  BY <1>1, CreateEffect, BlankType
     DEF SnapshotIsSeen, Alone, Open, store, ghosts, Moves, Touches, RequestsInOrder
<1>2. ASSUME NEW r \in Request, NEW kind \in Kinds \ {"create"}, NEW s \in Server,
             NEW name \in Name, Begin(r, kind, s, name) PROVE SnapshotIsSeen'
  BY <1>2, BeginEffect DEF SnapshotIsSeen, Alone, Open, store, Touches, TypeOK
<1>3. ASSUME NEW r \in Request, SaveConfigSnapshot(r) PROVE SnapshotIsSeen'
  BY <1>3, SnapshotEffect, WorksAlone, RequestType
     DEF SnapshotIsSeen, Alone, Open, ghosts, Ends, Goes, Moves, Touches, TypeOK
<1>4. ASSUME NEW r \in Request, ListIndex(r) PROVE SnapshotIsSeen'
  BY <1>4, ListIndexEffect DEF SnapshotIsSeen, Alone, Open, store, Ends, Moves, Touches
<1>5. ASSUME NEW r \in Request, CheckName(r) PROVE SnapshotIsSeen'
  BY <1>5, CheckNameEffect DEF SnapshotIsSeen, Alone, Open, store, Ends, Moves, Touches
<1>6. ASSUME NEW r \in Request, SaveConfig(r) PROVE SnapshotIsSeen'
  BY <1>6, SaveConfigEffect DEF SnapshotIsSeen, Alone, Open, Ends, Goes, Moves, Touches
<1>7. ASSUME NEW r \in Request, ReadIndex(r) PROVE SnapshotIsSeen'
  BY <1>7, ReadIndexEffect
     DEF SnapshotIsSeen, Alone, Open, store, ghosts, Ends, Moves, Touches
<1>8. ASSUME NEW r \in Request, AddToIndex(r) PROVE SnapshotIsSeen'
  BY <1>8, AddToIndexEffect DEF SnapshotIsSeen, Alone, Open, Ends, Goes, Moves, Touches
<1>9. ASSUME NEW r \in Request, Accept(r) PROVE SnapshotIsSeen'
  BY <1>9, AcceptEffect DEF SnapshotIsSeen, Alone, Open, store, Ends, Touches, Works
<1>10. ASSUME NEW r \in Request, Refuse(r) PROVE SnapshotIsSeen'
  BY <1>10, RefuseEffect
     DEF SnapshotIsSeen, Alone, Open, store, ghosts, Ends, Goes, Moves, Touches
<1>11. ASSUME NEW r \in Request, GetConfigSnapshot(r) PROVE SnapshotIsSeen'
  BY <1>11, GetSnapshotEffect
     DEF SnapshotIsSeen, Alone, Open, store, ghosts, Ends, Moves, Touches
<1>12. ASSUME NEW r \in Request, RevertConfig(r) PROVE SnapshotIsSeen'
  BY <1>12, RevertEffect, WorksAlone, RequestType
     DEF SnapshotIsSeen, Alone, Open, Ends, Touches, TypeOK
<1>13. ASSUME NEW s \in Server, Deliver(s) PROVE SnapshotIsSeen'
  BY <1>13, DeliverEffect DEF SnapshotIsSeen, Alone, Open, store, Works, Finishes
<1>14. ASSUME NEW s \in Server, Deploy(s) PROVE SnapshotIsSeen'
  BY <1>14, DeployEffect DEF SnapshotIsSeen, Alone, Open, store, ghosts, Works, Finishes
<1>15. ASSUME NEW s \in Server, GetConfigToStamp(s) PROVE SnapshotIsSeen'
  BY <1>15, GetToStampEffect
     DEF SnapshotIsSeen, Alone, Open, store, ghosts, Works, Finishes
<1>16. ASSUME NEW s \in Server, Stamp(s) PROVE SnapshotIsSeen'
  BY <1>16, StampEffect DEF SnapshotIsSeen, Alone, Open, Works, Finishes
<1>17. ASSUME NEW s \in Server, Destroy(s) PROVE SnapshotIsSeen'
  BY <1>17, DestroyEffect
     DEF SnapshotIsSeen, Alone, Open, store, ghosts, Works, Finishes, Trails
<1>18. ASSUME NEW s \in Server, DeleteConfig(s) PROVE SnapshotIsSeen'
  BY <1>18, DeleteConfigEffect DEF SnapshotIsSeen, Alone, Open, Trails, Stops
<1>19. ASSUME NEW s \in Server, ReadIndexToDelete(s) PROVE SnapshotIsSeen'
  BY <1>19, ReadToDeleteEffect
     DEF SnapshotIsSeen, Alone, Open, store, ghosts, Trails, Stops
<1>20. ASSUME NEW s \in Server, RemoveFromIndex(s) PROVE SnapshotIsSeen'
  BY <1>20, RemoveEffect DEF SnapshotIsSeen, Alone, Open, Trails, Stops
<1>21. CASE Crash
  BY <1>21, CrashEffect DEF SnapshotIsSeen, Alone, Open, store, ghosts
<1>22. QED BY StepCases, <1>1, <1>2, <1>3, <1>4, <1>5, <1>6, <1>7, <1>8, <1>9, <1>10, <1>11,
   <1>12, <1>13, <1>14, <1>15, <1>16, <1>17, <1>18, <1>19, <1>20, <1>21

LEMMA DriftNext ==
    ASSUME TypeOK, RequestsInOrder, OverlapIsSeen, DriftIsSeen, Next
    PROVE  DriftIsSeen'
<1>1. ASSUME NEW r \in Request, NEW name \in Name, Create(r, name) PROVE DriftIsSeen'
  BY <1>1, CreateEffect, BlankType
     DEF DriftIsSeen, Alone, Unsaved, Saved, Open, store, ghosts, Moves, Touches,
        RequestsInOrder
<1>2. ASSUME NEW r \in Request, NEW kind \in Kinds \ {"create"}, NEW s \in Server,
             NEW name \in Name, Begin(r, kind, s, name) PROVE DriftIsSeen'
  BY <1>2, BeginEffect DEF DriftIsSeen, Alone, Unsaved, Saved, Open, store, Touches
<1>3. ASSUME NEW r \in Request, SaveConfigSnapshot(r) PROVE DriftIsSeen'
  BY <1>3, SnapshotEffect
     DEF DriftIsSeen, Alone, Unsaved, Saved, Open, ghosts, Ends, Goes, Moves, Touches
<1>4. ASSUME NEW r \in Request, ListIndex(r) PROVE DriftIsSeen'
  BY <1>4, ListIndexEffect
     DEF DriftIsSeen, Alone, Unsaved, Saved, Open, store, Ends, Moves, Touches
<1>5. ASSUME NEW r \in Request, CheckName(r) PROVE DriftIsSeen'
  BY <1>5, CheckNameEffect
     DEF DriftIsSeen, Alone, Unsaved, Saved, Open, store, Ends, Moves, Touches
<1>6. ASSUME NEW r \in Request, SaveConfig(r) PROVE DriftIsSeen'
  BY <1>6, SaveConfigEffect, WorksAlone
     DEF DriftIsSeen, Alone, Unsaved, Saved, Open, Ends, Goes, Moves, Touches
<1>7. ASSUME NEW r \in Request, ReadIndex(r) PROVE DriftIsSeen'
  BY <1>7, ReadIndexEffect
     DEF DriftIsSeen, Alone, Unsaved, Saved, Open, store, ghosts, Ends, Moves, Touches
<1>8. ASSUME NEW r \in Request, AddToIndex(r) PROVE DriftIsSeen'
  BY <1>8, AddToIndexEffect
     DEF DriftIsSeen, Alone, Unsaved, Saved, Open, Ends, Goes, Moves, Touches
<1>9. ASSUME NEW r \in Request, Accept(r) PROVE DriftIsSeen'
  BY <1>9, AcceptEffect, WorksAlone
     DEF DriftIsSeen, Alone, Unsaved, Saved, Open, store, Ends, Touches, Works
<1>10. ASSUME NEW r \in Request, Refuse(r) PROVE DriftIsSeen'
  BY <1>10, RefuseEffect
     DEF DriftIsSeen, Alone, Unsaved, Saved, Open, store, ghosts, Ends, Goes, Moves, Touches
<1>11. ASSUME NEW r \in Request, GetConfigSnapshot(r) PROVE DriftIsSeen'
  BY <1>11, GetSnapshotEffect
     DEF DriftIsSeen, Alone, Unsaved, Saved, Open, store, ghosts, Ends, Moves, Touches
<1>12. ASSUME NEW r \in Request, RevertConfig(r) PROVE DriftIsSeen'
  BY <1>12, RevertEffect, WorksAlone
     DEF DriftIsSeen, Alone, Unsaved, Saved, Open, Ends, Touches
<1>13. ASSUME NEW s \in Server, Deliver(s) PROVE DriftIsSeen'
  BY <1>13, DeliverEffect
     DEF DriftIsSeen, Alone, Unsaved, Saved, Open, store, Works, Finishes
<1>14. ASSUME NEW s \in Server, Deploy(s) PROVE DriftIsSeen'
  BY <1>14, DeployEffect
     DEF DriftIsSeen, Alone, Unsaved, Saved, Open, store, ghosts, Works, Finishes
<1>15. ASSUME NEW s \in Server, GetConfigToStamp(s) PROVE DriftIsSeen'
  BY <1>15, GetToStampEffect
     DEF DriftIsSeen, Alone, Unsaved, Saved, Open, store, ghosts, Works, Finishes
<1>16. ASSUME NEW s \in Server, Stamp(s) PROVE DriftIsSeen'
  BY <1>16, StampEffect DEF DriftIsSeen, Alone, Unsaved, Saved, Open, Works, Finishes
<1>17. ASSUME NEW s \in Server, Destroy(s) PROVE DriftIsSeen'
  BY <1>17, DestroyEffect
     DEF DriftIsSeen, Alone, Unsaved, Saved, Open, store, ghosts, Works, Finishes, Trails
<1>18. ASSUME NEW s \in Server, DeleteConfig(s) PROVE DriftIsSeen'
  BY <1>18, DeleteConfigEffect DEF DriftIsSeen, Alone, Unsaved, Saved, Open, Trails, Stops
<1>19. ASSUME NEW s \in Server, ReadIndexToDelete(s) PROVE DriftIsSeen'
  BY <1>19, ReadToDeleteEffect
     DEF DriftIsSeen, Alone, Unsaved, Saved, Open, store, ghosts, Trails, Stops
<1>20. ASSUME NEW s \in Server, RemoveFromIndex(s) PROVE DriftIsSeen'
  BY <1>20, RemoveEffect DEF DriftIsSeen, Alone, Unsaved, Saved, Open, Trails, Stops
<1>21. CASE Crash
  BY <1>21, CrashEffect DEF DriftIsSeen, Alone, Unsaved, Saved, Open, store, ghosts
<1>22. QED BY StepCases, <1>1, <1>2, <1>3, <1>4, <1>5, <1>6, <1>7, <1>8, <1>9, <1>10, <1>11,
   <1>12, <1>13, <1>14, <1>15, <1>16, <1>17, <1>18, <1>19, <1>20, <1>21

LEMMA ConfigNext ==
    ASSUME TypeOK, RequestsInOrder, FreshIsUntouched, OverlapIsSeen, ConfigIsSeen, Next
    PROVE  ConfigIsSeen'
<1>1. ASSUME NEW r \in Request, NEW name \in Name, Create(r, name) PROVE ConfigIsSeen'
  BY <1>1, CreateEffect, BlankType
     DEF ConfigIsSeen, Alone, Unsaved, Saved, Open, store, ghosts, Moves, Touches,
        RequestsInOrder, FreshIsUntouched
<1>2. ASSUME NEW r \in Request, NEW kind \in Kinds \ {"create"}, NEW s \in Server,
             NEW name \in Name, Begin(r, kind, s, name) PROVE ConfigIsSeen'
  BY <1>2, BeginEffect DEF ConfigIsSeen, Alone, Unsaved, Saved, Open, store, Touches
<1>3. ASSUME NEW r \in Request, SaveConfigSnapshot(r) PROVE ConfigIsSeen'
  BY <1>3, SnapshotEffect
     DEF ConfigIsSeen, Alone, Unsaved, Saved, Open, ghosts, Ends, Goes, Moves, Touches
<1>4. ASSUME NEW r \in Request, ListIndex(r) PROVE ConfigIsSeen'
  BY <1>4, ListIndexEffect
     DEF ConfigIsSeen, Alone, Unsaved, Saved, Open, store, Ends, Moves, Touches
<1>5. ASSUME NEW r \in Request, CheckName(r) PROVE ConfigIsSeen'
  BY <1>5, CheckNameEffect
     DEF ConfigIsSeen, Alone, Unsaved, Saved, Open, store, Ends, Moves, Touches
<1>6. ASSUME NEW r \in Request, SaveConfig(r) PROVE ConfigIsSeen'
  BY <1>6, SaveConfigEffect, WorksAlone, ConfigWritten, RequestType
     DEF ConfigIsSeen, Alone, Unsaved, Saved, Open, Ends, Goes, Moves, Touches, TypeOK,
        RequestsInOrder
<1>7. ASSUME NEW r \in Request, ReadIndex(r) PROVE ConfigIsSeen'
  BY <1>7, ReadIndexEffect
     DEF ConfigIsSeen, Alone, Unsaved, Saved, Open, store, ghosts, Ends, Moves, Touches
<1>8. ASSUME NEW r \in Request, AddToIndex(r) PROVE ConfigIsSeen'
  BY <1>8, AddToIndexEffect
     DEF ConfigIsSeen, Alone, Unsaved, Saved, Open, Ends, Goes, Moves, Touches
<1>9. ASSUME NEW r \in Request, Accept(r) PROVE ConfigIsSeen'
  BY <1>9, AcceptEffect
     DEF ConfigIsSeen, Alone, Unsaved, Saved, Open, store, Ends, Touches, Works
<1>10. ASSUME NEW r \in Request, Refuse(r) PROVE ConfigIsSeen'
  BY <1>10, RefuseEffect
     DEF ConfigIsSeen, Alone, Unsaved, Saved, Open, store, ghosts, Ends, Goes, Moves,
        Touches
<1>11. ASSUME NEW r \in Request, GetConfigSnapshot(r) PROVE ConfigIsSeen'
  BY <1>11, GetSnapshotEffect
     DEF ConfigIsSeen, Alone, Unsaved, Saved, Open, store, ghosts, Ends, Moves, Touches
<1>12. ASSUME NEW r \in Request, RevertConfig(r) PROVE ConfigIsSeen'
  BY <1>12, RevertEffect, WorksAlone, ConfigWritten, RequestType
     DEF ConfigIsSeen, Alone, Unsaved, Saved, Open, Ends, Touches, TypeOK
<1>13. ASSUME NEW s \in Server, Deliver(s) PROVE ConfigIsSeen'
  BY <1>13, DeliverEffect
     DEF ConfigIsSeen, Alone, Unsaved, Saved, Open, store, Works, Finishes
<1>14. ASSUME NEW s \in Server, Deploy(s) PROVE ConfigIsSeen'
  BY <1>14, DeployEffect
     DEF ConfigIsSeen, Alone, Unsaved, Saved, Open, store, ghosts, Works, Finishes
<1>15. ASSUME NEW s \in Server, GetConfigToStamp(s) PROVE ConfigIsSeen'
  BY <1>15, GetToStampEffect
     DEF ConfigIsSeen, Alone, Unsaved, Saved, Open, store, ghosts, Works, Finishes
<1>16. ASSUME NEW s \in Server, Stamp(s) PROVE ConfigIsSeen'
  BY <1>16, StampEffect, ConfigWritten, RequestType
     DEF ConfigIsSeen, Alone, Unsaved, Saved, Open, Works, Finishes, TypeOK
<1>17. ASSUME NEW s \in Server, Destroy(s) PROVE ConfigIsSeen'
  BY <1>17, DestroyEffect
     DEF ConfigIsSeen, Alone, Unsaved, Saved, Open, store, ghosts, Works, Finishes, Trails
<1>18. ASSUME NEW s \in Server, DeleteConfig(s) PROVE ConfigIsSeen'
  BY <1>18, DeleteConfigEffect, RequestType
     DEF ConfigIsSeen, Alone, Unsaved, Saved, Open, Trails, Stops, TypeOK
<1>19. ASSUME NEW s \in Server, ReadIndexToDelete(s) PROVE ConfigIsSeen'
  BY <1>19, ReadToDeleteEffect
     DEF ConfigIsSeen, Alone, Unsaved, Saved, Open, store, ghosts, Trails, Stops
<1>20. ASSUME NEW s \in Server, RemoveFromIndex(s) PROVE ConfigIsSeen'
  BY <1>20, RemoveEffect DEF ConfigIsSeen, Alone, Unsaved, Saved, Open, Trails, Stops
<1>21. CASE Crash
  BY <1>21, CrashEffect DEF ConfigIsSeen, Alone, Unsaved, Saved, Open, store, ghosts
<1>22. QED BY StepCases, <1>1, <1>2, <1>3, <1>4, <1>5, <1>6, <1>7, <1>8, <1>9, <1>10, <1>11,
   <1>12, <1>13, <1>14, <1>15, <1>16, <1>17, <1>18, <1>19, <1>20, <1>21

LEMMA DeployedNext ==
    ASSUME TypeOK, RequestsInOrder, OverlapIsSeen, DriftIsSeen, JobsInOrder,
       DeployedIsStored, DeployedIsSeen, Next
    PROVE  DeployedIsSeen'
<1>1. ASSUME NEW r \in Request, NEW name \in Name, Create(r, name) PROVE DeployedIsSeen'
  BY <1>1, CreateEffect, BlankType
     DEF DeployedIsSeen, Alone, Unsaved, Saved, Open, store, ghosts, Moves, Touches,
        RequestsInOrder
<1>2. ASSUME NEW r \in Request, NEW kind \in Kinds \ {"create"}, NEW s \in Server,
             NEW name \in Name, Begin(r, kind, s, name) PROVE DeployedIsSeen'
  BY <1>2, BeginEffect DEF DeployedIsSeen, Alone, Unsaved, Saved, Open, store, Touches
<1>3. ASSUME NEW r \in Request, SaveConfigSnapshot(r) PROVE DeployedIsSeen'
  BY <1>3, SnapshotEffect
     DEF DeployedIsSeen, Alone, Unsaved, Saved, Open, ghosts, Ends, Goes, Moves, Touches
<1>4. ASSUME NEW r \in Request, ListIndex(r) PROVE DeployedIsSeen'
  BY <1>4, ListIndexEffect
     DEF DeployedIsSeen, Alone, Unsaved, Saved, Open, store, Ends, Moves, Touches
<1>5. ASSUME NEW r \in Request, CheckName(r) PROVE DeployedIsSeen'
  BY <1>5, CheckNameEffect
     DEF DeployedIsSeen, Alone, Unsaved, Saved, Open, store, Ends, Moves, Touches
<1>6. ASSUME NEW r \in Request, SaveConfig(r) PROVE DeployedIsSeen'
  BY <1>6, SaveConfigEffect, WorksAlone, ConfigWritten, RequestType
     DEF DeployedIsSeen, Alone, Unsaved, Saved, Open, Ends, Goes, Moves, Touches, TypeOK,
        RequestsInOrder, DriftIsSeen, JobsInOrder, DeployedIsStored, Settled
<1>7. ASSUME NEW r \in Request, ReadIndex(r) PROVE DeployedIsSeen'
  BY <1>7, ReadIndexEffect
     DEF DeployedIsSeen, Alone, Unsaved, Saved, Open, store, ghosts, Ends, Moves, Touches
<1>8. ASSUME NEW r \in Request, AddToIndex(r) PROVE DeployedIsSeen'
  BY <1>8, AddToIndexEffect
     DEF DeployedIsSeen, Alone, Unsaved, Saved, Open, Ends, Goes, Moves, Touches
<1>9. ASSUME NEW r \in Request, Accept(r) PROVE DeployedIsSeen'
  BY <1>9, AcceptEffect, WorksAlone, RequestType
     DEF DeployedIsSeen, Alone, Unsaved, Saved, Open, store, Ends, Touches, Works, TypeOK
<1>10. ASSUME NEW r \in Request, Refuse(r) PROVE DeployedIsSeen'
  BY <1>10, RefuseEffect
     DEF DeployedIsSeen, Alone, Unsaved, Saved, Open, store, ghosts, Ends, Goes, Moves,
        Touches
<1>11. ASSUME NEW r \in Request, GetConfigSnapshot(r) PROVE DeployedIsSeen'
  BY <1>11, GetSnapshotEffect
     DEF DeployedIsSeen, Alone, Unsaved, Saved, Open, store, ghosts, Ends, Moves, Touches
<1>12. ASSUME NEW r \in Request, RevertConfig(r) PROVE DeployedIsSeen'
  BY <1>12, RevertEffect, WorksAlone, ConfigWritten, RequestType
     DEF DeployedIsSeen, Alone, Unsaved, Saved, Open, Ends, Touches, TypeOK
<1>13. ASSUME NEW s \in Server, Deliver(s) PROVE DeployedIsSeen'
  BY <1>13, DeliverEffect, RequestType
     DEF DeployedIsSeen, Alone, Unsaved, Saved, Open, store, Works, Finishes, DriftIsSeen,
        TypeOK
<1>14. ASSUME NEW s \in Server, Deploy(s) PROVE DeployedIsSeen'
  BY <1>14, DeployEffect, RequestType
     DEF DeployedIsSeen, Alone, Unsaved, Saved, Open, store, ghosts, Works, Finishes, TypeOK
<1>15. ASSUME NEW s \in Server, GetConfigToStamp(s) PROVE DeployedIsSeen'
  BY <1>15, GetToStampEffect, RequestType
     DEF DeployedIsSeen, Alone, Unsaved, Saved, Open, store, ghosts, Works, Finishes, TypeOK
<1>16. ASSUME NEW s \in Server, Stamp(s) PROVE DeployedIsSeen'
  BY <1>16, StampEffect, ConfigWritten, RequestType
     DEF DeployedIsSeen, Alone, Unsaved, Saved, Open, Works, Finishes, TypeOK
<1>17. ASSUME NEW s \in Server, Destroy(s) PROVE DeployedIsSeen'
  BY <1>17, DestroyEffect, RequestType
     DEF DeployedIsSeen, Alone, Unsaved, Saved, Open, store, ghosts, Works, Finishes,
        Trails, TypeOK
<1>18. ASSUME NEW s \in Server, DeleteConfig(s) PROVE DeployedIsSeen'
  BY <1>18, DeleteConfigEffect
     DEF DeployedIsSeen, Alone, Unsaved, Saved, Open, Trails, Stops, TypeOK
<1>19. ASSUME NEW s \in Server, ReadIndexToDelete(s) PROVE DeployedIsSeen'
  BY <1>19, ReadToDeleteEffect
     DEF DeployedIsSeen, Alone, Unsaved, Saved, Open, store, ghosts, Trails, Stops
<1>20. ASSUME NEW s \in Server, RemoveFromIndex(s) PROVE DeployedIsSeen'
  BY <1>20, RemoveEffect DEF DeployedIsSeen, Alone, Unsaved, Saved, Open, Trails, Stops
<1>21. CASE Crash
  BY <1>21, CrashEffect DEF DeployedIsSeen, Alone, Unsaved, Saved, Open, store, ghosts
<1>22. QED BY StepCases, <1>1, <1>2, <1>3, <1>4, <1>5, <1>6, <1>7, <1>8, <1>9, <1>10, <1>11,
   <1>12, <1>13, <1>14, <1>15, <1>16, <1>17, <1>18, <1>19, <1>20, <1>21

LEMMA JobsNext ==
    ASSUME TypeOK, RequestsInOrder, OverlapIsSeen, SnapshotIsSeen, DriftIsSeen,
       ConfigIsSeen, DeployedIsSeen, JobsInOrder, Next
    PROVE  JobsInOrder'
<1>1. ASSUME NEW r \in Request, NEW name \in Name, Create(r, name) PROVE JobsInOrder'
  BY <1>1, CreateEffect DEF JobsInOrder, Settled, Open, store, ghosts, Moves, Touches
<1>2. ASSUME NEW r \in Request, NEW kind \in Kinds \ {"create"}, NEW s \in Server,
             NEW name \in Name, Begin(r, kind, s, name) PROVE JobsInOrder'
  BY <1>2, BeginEffect DEF JobsInOrder, Settled, Open, store, Touches
<1>3. ASSUME NEW r \in Request, SaveConfigSnapshot(r) PROVE JobsInOrder'
  BY <1>3, SnapshotEffect
     DEF JobsInOrder, Settled, Open, ghosts, Ends, Goes, Moves, Touches
<1>4. ASSUME NEW r \in Request, ListIndex(r) PROVE JobsInOrder'
  BY <1>4, ListIndexEffect DEF JobsInOrder, Settled, Open, store, Ends, Moves, Touches
<1>5. ASSUME NEW r \in Request, CheckName(r) PROVE JobsInOrder'
  BY <1>5, CheckNameEffect DEF JobsInOrder, Settled, Open, store, Ends, Moves, Touches
<1>6. ASSUME NEW r \in Request, SaveConfig(r) PROVE JobsInOrder'
  BY <1>6, SaveConfigEffect, ConfigWritten, RequestType
     DEF JobsInOrder, Settled, Open, Ends, Goes, Moves, Touches, TypeOK
<1>7. ASSUME NEW r \in Request, ReadIndex(r) PROVE JobsInOrder'
  BY <1>7, ReadIndexEffect
     DEF JobsInOrder, Settled, Open, store, ghosts, Ends, Moves, Touches
<1>8. ASSUME NEW r \in Request, AddToIndex(r) PROVE JobsInOrder'
  BY <1>8, AddToIndexEffect DEF JobsInOrder, Settled, Open, Ends, Goes, Moves, Touches
<1>9. ASSUME NEW r \in Request, Accept(r) PROVE JobsInOrder'
  BY <1>9, AcceptEffect, RequestType
     DEF JobsInOrder, Settled, Open, store, Ends, Touches, Works, TypeOK, RequestsInOrder,
        Alone, Saved, ConfigIsSeen
<1>10. ASSUME NEW r \in Request, Refuse(r) PROVE JobsInOrder'
  BY <1>10, RefuseEffect
     DEF JobsInOrder, Settled, Open, store, ghosts, Ends, Goes, Moves, Touches
<1>11. ASSUME NEW r \in Request, GetConfigSnapshot(r) PROVE JobsInOrder'
  BY <1>11, GetSnapshotEffect
     DEF JobsInOrder, Settled, Open, store, ghosts, Ends, Moves, Touches
<1>12. ASSUME NEW r \in Request, RevertConfig(r) PROVE JobsInOrder'
  BY <1>12, RevertEffect, ConfigWritten, RequestType
     DEF JobsInOrder, Settled, Open, Ends, Touches, TypeOK, RequestsInOrder, Alone, Saved,
        DriftIsSeen, ConfigIsSeen, SnapshotIsSeen, DeployedIsSeen
<1>13. ASSUME NEW s \in Server, Deliver(s) PROVE JobsInOrder'
  BY <1>13, DeliverEffect, NoJobType
     DEF JobsInOrder, Settled, Open, store, Works, Finishes
<1>14. ASSUME NEW s \in Server, Deploy(s) PROVE JobsInOrder'
  BY <1>14, DeployEffect, NoJobType
     DEF JobsInOrder, Settled, Open, store, ghosts, Works, Finishes
<1>15. ASSUME NEW s \in Server, GetConfigToStamp(s) PROVE JobsInOrder'
  BY <1>15, GetToStampEffect, NoJobType
     DEF JobsInOrder, Settled, Open, store, ghosts, Works, Finishes
<1>16. ASSUME NEW s \in Server, Stamp(s) PROVE JobsInOrder'
  BY <1>16, StampEffect, ConfigWritten, NoJobType
     DEF JobsInOrder, Settled, Open, Works, Finishes, TypeOK
<1>17. ASSUME NEW s \in Server, Destroy(s) PROVE JobsInOrder'
  BY <1>17, DestroyEffect, NoJobType
     DEF JobsInOrder, Settled, Open, store, ghosts, Works, Finishes, Trails
<1>18. ASSUME NEW s \in Server, DeleteConfig(s) PROVE JobsInOrder'
  BY <1>18, DeleteConfigEffect DEF JobsInOrder, Settled, Open, Trails, Stops, TypeOK
<1>19. ASSUME NEW s \in Server, ReadIndexToDelete(s) PROVE JobsInOrder'
  BY <1>19, ReadToDeleteEffect
     DEF JobsInOrder, Settled, Open, store, ghosts, Trails, Stops
<1>20. ASSUME NEW s \in Server, RemoveFromIndex(s) PROVE JobsInOrder'
  BY <1>20, RemoveEffect DEF JobsInOrder, Settled, Open, Trails, Stops
<1>21. CASE Crash
  BY <1>21, CrashEffect DEF JobsInOrder, Settled, Open, store, ghosts
<1>22. QED BY StepCases, <1>1, <1>2, <1>3, <1>4, <1>5, <1>6, <1>7, <1>8, <1>9, <1>10, <1>11,
   <1>12, <1>13, <1>14, <1>15, <1>16, <1>17, <1>18, <1>19, <1>20, <1>21

LEMMA StoredNext ==
    ASSUME TypeOK, RequestsInOrder, SnapshotIsSeen, DriftIsSeen, ConfigIsSeen,
       DeployedIsSeen, JobsInOrder, DeployedIsStored, Next
    PROVE  DeployedIsStored'
<1>1. ASSUME NEW r \in Request, NEW name \in Name, Create(r, name) PROVE DeployedIsStored'
  BY <1>1, CreateEffect DEF DeployedIsStored, Settled, Open, store, ghosts, Moves, Touches
<1>2. ASSUME NEW r \in Request, NEW kind \in Kinds \ {"create"}, NEW s \in Server,
             NEW name \in Name, Begin(r, kind, s, name) PROVE DeployedIsStored'
  BY <1>2, BeginEffect DEF DeployedIsStored, Settled, Open, store, Touches
<1>3. ASSUME NEW r \in Request, SaveConfigSnapshot(r) PROVE DeployedIsStored'
  BY <1>3, SnapshotEffect
     DEF DeployedIsStored, Settled, Open, ghosts, Ends, Goes, Moves, Touches
<1>4. ASSUME NEW r \in Request, ListIndex(r) PROVE DeployedIsStored'
  BY <1>4, ListIndexEffect
     DEF DeployedIsStored, Settled, Open, store, Ends, Moves, Touches
<1>5. ASSUME NEW r \in Request, CheckName(r) PROVE DeployedIsStored'
  BY <1>5, CheckNameEffect
     DEF DeployedIsStored, Settled, Open, store, Ends, Moves, Touches
<1>6. ASSUME NEW r \in Request, SaveConfig(r) PROVE DeployedIsStored'
  BY <1>6, SaveConfigEffect, ConfigWritten, RequestType
     DEF DeployedIsStored, Settled, Open, Ends, Goes, Moves, Touches, TypeOK
<1>7. ASSUME NEW r \in Request, ReadIndex(r) PROVE DeployedIsStored'
  BY <1>7, ReadIndexEffect
     DEF DeployedIsStored, Settled, Open, store, ghosts, Ends, Moves, Touches
<1>8. ASSUME NEW r \in Request, AddToIndex(r) PROVE DeployedIsStored'
  BY <1>8, AddToIndexEffect
     DEF DeployedIsStored, Settled, Open, Ends, Goes, Moves, Touches
<1>9. ASSUME NEW r \in Request, Accept(r) PROVE DeployedIsStored'
  BY <1>9, AcceptEffect, RequestType
     DEF DeployedIsStored, Settled, Open, store, Ends, Touches, Works, TypeOK
<1>10. ASSUME NEW r \in Request, Refuse(r) PROVE DeployedIsStored'
  BY <1>10, RefuseEffect
     DEF DeployedIsStored, Settled, Open, store, ghosts, Ends, Goes, Moves, Touches
<1>11. ASSUME NEW r \in Request, GetConfigSnapshot(r) PROVE DeployedIsStored'
  BY <1>11, GetSnapshotEffect
     DEF DeployedIsStored, Settled, Open, store, ghosts, Ends, Moves, Touches
<1>12. ASSUME NEW r \in Request, RevertConfig(r) PROVE DeployedIsStored'
  BY <1>12, RevertEffect, ConfigWritten, RequestType
     DEF DeployedIsStored, Settled, Open, Ends, Touches, TypeOK, RequestsInOrder, Alone,
        Saved, DriftIsSeen, ConfigIsSeen, SnapshotIsSeen, DeployedIsSeen
<1>13. ASSUME NEW s \in Server, Deliver(s) PROVE DeployedIsStored'
  BY <1>13, DeliverEffect DEF DeployedIsStored, Settled, Open, store, Works, Finishes
<1>14. ASSUME NEW s \in Server, Deploy(s) PROVE DeployedIsStored'
  BY <1>14, DeployEffect
     DEF DeployedIsStored, Settled, Open, store, ghosts, Works, Finishes
<1>15. ASSUME NEW s \in Server, GetConfigToStamp(s) PROVE DeployedIsStored'
  BY <1>15, GetToStampEffect
     DEF DeployedIsStored, Settled, Open, store, ghosts, Works, Finishes
<1>16. ASSUME NEW s \in Server, Stamp(s) PROVE DeployedIsStored'
  BY <1>16, StampEffect, ConfigWritten
     DEF DeployedIsStored, Settled, Open, Works, Finishes, TypeOK, JobsInOrder
<1>17. ASSUME NEW s \in Server, Destroy(s) PROVE DeployedIsStored'
  BY <1>17, DestroyEffect
     DEF DeployedIsStored, Settled, Open, store, ghosts, Works, Finishes, Trails
<1>18. ASSUME NEW s \in Server, DeleteConfig(s) PROVE DeployedIsStored'
  BY <1>18, DeleteConfigEffect DEF DeployedIsStored, Settled, Open, Trails, Stops, TypeOK
<1>19. ASSUME NEW s \in Server, ReadIndexToDelete(s) PROVE DeployedIsStored'
  BY <1>19, ReadToDeleteEffect
     DEF DeployedIsStored, Settled, Open, store, ghosts, Trails, Stops
<1>20. ASSUME NEW s \in Server, RemoveFromIndex(s) PROVE DeployedIsStored'
  BY <1>20, RemoveEffect DEF DeployedIsStored, Settled, Open, Trails, Stops
<1>21. CASE Crash
  BY <1>21, CrashEffect DEF DeployedIsStored, Settled, Open, store, ghosts
<1>22. QED BY StepCases, <1>1, <1>2, <1>3, <1>4, <1>5, <1>6, <1>7, <1>8, <1>9, <1>10, <1>11,
   <1>12, <1>13, <1>14, <1>15, <1>16, <1>17, <1>18, <1>19, <1>20, <1>21

LEMMA CreatedNext ==
    ASSUME TypeOK, RequestsInOrder, FreshIsUntouched, JobsInOrder, CreatedIsListed, Next
    PROVE  CreatedIsListed'
<1>1. ASSUME NEW r \in Request, NEW name \in Name, Create(r, name) PROVE CreatedIsListed'
  BY <1>1, CreateEffect, BlankType
     DEF CreatedIsListed, Open, store, ghosts, Moves, Touches
<1>2. ASSUME NEW r \in Request, NEW kind \in Kinds \ {"create"}, NEW s \in Server,
             NEW name \in Name, Begin(r, kind, s, name) PROVE CreatedIsListed'
  BY <1>2, BeginEffect DEF CreatedIsListed, Open, store, Touches
<1>3. ASSUME NEW r \in Request, SaveConfigSnapshot(r) PROVE CreatedIsListed'
  BY <1>3, SnapshotEffect DEF CreatedIsListed, Open, ghosts, Ends, Goes, Moves, Touches
<1>4. ASSUME NEW r \in Request, ListIndex(r) PROVE CreatedIsListed'
  BY <1>4, ListIndexEffect DEF CreatedIsListed, Open, store, Ends, Moves, Touches
<1>5. ASSUME NEW r \in Request, CheckName(r) PROVE CreatedIsListed'
  BY <1>5, CheckNameEffect DEF CreatedIsListed, Open, store, Ends, Moves, Touches
<1>6. ASSUME NEW r \in Request, SaveConfig(r) PROVE CreatedIsListed'
  BY <1>6, SaveConfigEffect, ConfigWritten, RequestType
     DEF CreatedIsListed, Open, Ends, Goes, Moves, Touches, TypeOK
<1>7. ASSUME NEW r \in Request, ReadIndex(r) PROVE CreatedIsListed'
  BY <1>7, ReadIndexEffect DEF CreatedIsListed, Open, store, ghosts, Ends, Moves, Touches
<1>8. ASSUME NEW r \in Request, AddToIndex(r) PROVE CreatedIsListed'
  BY <1>8, AddToIndexEffect DEF CreatedIsListed, Open, Ends, Goes, Moves, Touches
<1>9. ASSUME NEW r \in Request, Accept(r) PROVE CreatedIsListed'
  BY <1>9, AcceptEffect DEF CreatedIsListed, Open, store, Ends, Touches, Works
<1>10. ASSUME NEW r \in Request, Refuse(r) PROVE CreatedIsListed'
  BY <1>10, RefuseEffect
     DEF CreatedIsListed, Open, store, ghosts, Ends, Goes, Moves, Touches
<1>11. ASSUME NEW r \in Request, GetConfigSnapshot(r) PROVE CreatedIsListed'
  BY <1>11, GetSnapshotEffect
     DEF CreatedIsListed, Open, store, ghosts, Ends, Moves, Touches
<1>12. ASSUME NEW r \in Request, RevertConfig(r) PROVE CreatedIsListed'
  BY <1>12, RevertEffect, ConfigWritten, RequestType
     DEF CreatedIsListed, Open, Ends, Touches, TypeOK
<1>13. ASSUME NEW s \in Server, Deliver(s) PROVE CreatedIsListed'
  BY <1>13, DeliverEffect DEF CreatedIsListed, Open, store, Works, Finishes
<1>14. ASSUME NEW s \in Server, Deploy(s) PROVE CreatedIsListed'
  BY <1>14, DeployEffect DEF CreatedIsListed, Open, store, ghosts, Works, Finishes
<1>15. ASSUME NEW s \in Server, GetConfigToStamp(s) PROVE CreatedIsListed'
  BY <1>15, GetToStampEffect DEF CreatedIsListed, Open, store, ghosts, Works, Finishes
<1>16. ASSUME NEW s \in Server, Stamp(s) PROVE CreatedIsListed'
  BY <1>16, StampEffect, ConfigWritten DEF CreatedIsListed, Open, Works, Finishes
<1>17. ASSUME NEW s \in Server, Destroy(s) PROVE CreatedIsListed'
  BY <1>17, DestroyEffect
     DEF CreatedIsListed, Open, store, ghosts, Works, Finishes, Trails
<1>18. ASSUME NEW s \in Server, DeleteConfig(s) PROVE CreatedIsListed'
  BY <1>18, DeleteConfigEffect DEF CreatedIsListed, Open, Trails, Stops
<1>19. ASSUME NEW s \in Server, ReadIndexToDelete(s) PROVE CreatedIsListed'
  BY <1>19, ReadToDeleteEffect DEF CreatedIsListed, Open, store, ghosts, Trails, Stops
<1>20. ASSUME NEW s \in Server, RemoveFromIndex(s) PROVE CreatedIsListed'
  BY <1>20, RemoveEffect DEF CreatedIsListed, Open, Trails, Stops, JobsInOrder
<1>21. CASE Crash
  BY <1>21, CrashEffect DEF CreatedIsListed, Open, store, ghosts
<1>22. QED BY StepCases, <1>1, <1>2, <1>3, <1>4, <1>5, <1>6, <1>7, <1>8, <1>9, <1>10, <1>11,
   <1>12, <1>13, <1>14, <1>15, <1>16, <1>17, <1>18, <1>19, <1>20, <1>21

LEMMA AcceptedNext ==
    ASSUME TypeOK, RequestsInOrder, JobsInOrder, CreatedIsListed, AcceptedIsListed, Next
    PROVE  AcceptedIsListed'
<1>1. ASSUME NEW r \in Request, NEW name \in Name, Create(r, name) PROVE AcceptedIsListed'
  BY <1>1, CreateEffect DEF AcceptedIsListed, Open, store, ghosts, Moves, Touches
<1>2. ASSUME NEW r \in Request, NEW kind \in Kinds \ {"create"}, NEW s \in Server,
             NEW name \in Name, Begin(r, kind, s, name) PROVE AcceptedIsListed'
  BY <1>2, BeginEffect DEF AcceptedIsListed, Open, store, Touches
<1>3. ASSUME NEW r \in Request, SaveConfigSnapshot(r) PROVE AcceptedIsListed'
  BY <1>3, SnapshotEffect DEF AcceptedIsListed, Open, ghosts, Ends, Goes, Moves, Touches
<1>4. ASSUME NEW r \in Request, ListIndex(r) PROVE AcceptedIsListed'
  BY <1>4, ListIndexEffect DEF AcceptedIsListed, Open, store, Ends, Moves, Touches
<1>5. ASSUME NEW r \in Request, CheckName(r) PROVE AcceptedIsListed'
  BY <1>5, CheckNameEffect DEF AcceptedIsListed, Open, store, Ends, Moves, Touches
<1>6. ASSUME NEW r \in Request, SaveConfig(r) PROVE AcceptedIsListed'
  BY <1>6, SaveConfigEffect, ConfigWritten, RequestType
     DEF AcceptedIsListed, Open, Ends, Goes, Moves, Touches, TypeOK
<1>7. ASSUME NEW r \in Request, ReadIndex(r) PROVE AcceptedIsListed'
  BY <1>7, ReadIndexEffect DEF AcceptedIsListed, Open, store, ghosts, Ends, Moves, Touches
<1>8. ASSUME NEW r \in Request, AddToIndex(r) PROVE AcceptedIsListed'
  BY <1>8, AddToIndexEffect DEF AcceptedIsListed, Open, Ends, Goes, Moves, Touches
<1>9. ASSUME NEW r \in Request, Accept(r) PROVE AcceptedIsListed'
  BY <1>9, AcceptEffect
     DEF AcceptedIsListed, Open, store, Ends, Touches, Works, CreatedIsListed,
        RequestsInOrder
<1>10. ASSUME NEW r \in Request, Refuse(r) PROVE AcceptedIsListed'
  BY <1>10, RefuseEffect
     DEF AcceptedIsListed, Open, store, ghosts, Ends, Goes, Moves, Touches
<1>11. ASSUME NEW r \in Request, GetConfigSnapshot(r) PROVE AcceptedIsListed'
  BY <1>11, GetSnapshotEffect
     DEF AcceptedIsListed, Open, store, ghosts, Ends, Moves, Touches
<1>12. ASSUME NEW r \in Request, RevertConfig(r) PROVE AcceptedIsListed'
  BY <1>12, RevertEffect, ConfigWritten, RequestType
     DEF AcceptedIsListed, Open, Ends, Touches, TypeOK
<1>13. ASSUME NEW s \in Server, Deliver(s) PROVE AcceptedIsListed'
  BY <1>13, DeliverEffect DEF AcceptedIsListed, Open, store, Works, Finishes
<1>14. ASSUME NEW s \in Server, Deploy(s) PROVE AcceptedIsListed'
  BY <1>14, DeployEffect DEF AcceptedIsListed, Open, store, ghosts, Works, Finishes
<1>15. ASSUME NEW s \in Server, GetConfigToStamp(s) PROVE AcceptedIsListed'
  BY <1>15, GetToStampEffect DEF AcceptedIsListed, Open, store, ghosts, Works, Finishes
<1>16. ASSUME NEW s \in Server, Stamp(s) PROVE AcceptedIsListed'
  BY <1>16, StampEffect, ConfigWritten DEF AcceptedIsListed, Open, Works, Finishes
<1>17. ASSUME NEW s \in Server, Destroy(s) PROVE AcceptedIsListed'
  BY <1>17, DestroyEffect
     DEF AcceptedIsListed, Open, store, ghosts, Works, Finishes, Trails
<1>18. ASSUME NEW s \in Server, DeleteConfig(s) PROVE AcceptedIsListed'
  BY <1>18, DeleteConfigEffect DEF AcceptedIsListed, Open, Trails, Stops
<1>19. ASSUME NEW s \in Server, ReadIndexToDelete(s) PROVE AcceptedIsListed'
  BY <1>19, ReadToDeleteEffect DEF AcceptedIsListed, Open, store, ghosts, Trails, Stops
<1>20. ASSUME NEW s \in Server, RemoveFromIndex(s) PROVE AcceptedIsListed'
  BY <1>20, RemoveEffect DEF AcceptedIsListed, Open, Trails, Stops, JobsInOrder
<1>21. CASE Crash
  BY <1>21, CrashEffect DEF AcceptedIsListed, Open, store, ghosts
<1>22. QED BY StepCases, <1>1, <1>2, <1>3, <1>4, <1>5, <1>6, <1>7, <1>8, <1>9, <1>10, <1>11,
   <1>12, <1>13, <1>14, <1>15, <1>16, <1>17, <1>18, <1>19, <1>20, <1>21

LEMMA CalmStays ==
    ASSUME TypeOK, ~Disturbed', Next
    PROVE  ~Disturbed
<1>1. ASSUME NEW r \in Request, NEW name \in Name, Create(r, name) PROVE ~Disturbed
  BY <1>1, CreateEffect DEF Disturbed, store, ghosts
<1>2. ASSUME NEW r \in Request, NEW kind \in Kinds \ {"create"}, NEW s \in Server,
             NEW name \in Name, Begin(r, kind, s, name) PROVE ~Disturbed
  BY <1>2, BeginEffect DEF Disturbed, store
<1>3. ASSUME NEW r \in Request, SaveConfigSnapshot(r) PROVE ~Disturbed
  BY <1>3, SnapshotEffect DEF Disturbed, ghosts
<1>4. ASSUME NEW r \in Request, ListIndex(r) PROVE ~Disturbed
  BY <1>4, ListIndexEffect DEF Disturbed, store
<1>5. ASSUME NEW r \in Request, CheckName(r) PROVE ~Disturbed
  BY <1>5, CheckNameEffect DEF Disturbed, store
<1>6. ASSUME NEW r \in Request, SaveConfig(r) PROVE ~Disturbed
  BY <1>6, SaveConfigEffect, ConfigWritten, RequestType DEF Disturbed, TypeOK
<1>7. ASSUME NEW r \in Request, ReadIndex(r) PROVE ~Disturbed
  BY <1>7, ReadIndexEffect DEF Disturbed, store, ghosts
<1>8. ASSUME NEW r \in Request, AddToIndex(r) PROVE ~Disturbed
  BY <1>8, AddToIndexEffect DEF Disturbed
<1>9. ASSUME NEW r \in Request, Accept(r) PROVE ~Disturbed
  BY <1>9, AcceptEffect DEF Disturbed, store
<1>10. ASSUME NEW r \in Request, Refuse(r) PROVE ~Disturbed
  BY <1>10, RefuseEffect DEF Disturbed, store, ghosts
<1>11. ASSUME NEW r \in Request, GetConfigSnapshot(r) PROVE ~Disturbed
  BY <1>11, GetSnapshotEffect DEF Disturbed, store, ghosts
<1>12. ASSUME NEW r \in Request, RevertConfig(r) PROVE ~Disturbed
  BY <1>12, RevertEffect, ConfigWritten, RequestType DEF Disturbed, TypeOK
<1>13. ASSUME NEW s \in Server, Deliver(s) PROVE ~Disturbed
  BY <1>13, DeliverEffect DEF Disturbed, store
<1>14. ASSUME NEW s \in Server, Deploy(s) PROVE ~Disturbed
  BY <1>14, DeployEffect DEF Disturbed, store, ghosts
<1>15. ASSUME NEW s \in Server, GetConfigToStamp(s) PROVE ~Disturbed
  BY <1>15, GetToStampEffect DEF Disturbed, store, ghosts
<1>16. ASSUME NEW s \in Server, Stamp(s) PROVE ~Disturbed
  BY <1>16, StampEffect, ConfigWritten DEF Disturbed
<1>17. ASSUME NEW s \in Server, Destroy(s) PROVE ~Disturbed
  BY <1>17, DestroyEffect DEF Disturbed, store, ghosts
<1>18. ASSUME NEW s \in Server, DeleteConfig(s) PROVE ~Disturbed
  BY <1>18, DeleteConfigEffect DEF Disturbed
<1>19. ASSUME NEW s \in Server, ReadIndexToDelete(s) PROVE ~Disturbed
  BY <1>19, ReadToDeleteEffect DEF Disturbed, store, ghosts
<1>20. ASSUME NEW s \in Server, RemoveFromIndex(s) PROVE ~Disturbed
  BY <1>20, RemoveEffect DEF Disturbed
<1>21. CASE Crash
  BY <1>21, CrashEffect DEF Disturbed, store, ghosts
<1>22. QED BY StepCases, <1>1, <1>2, <1>3, <1>4, <1>5, <1>6, <1>7, <1>8, <1>9, <1>10, <1>11,
   <1>12, <1>13, <1>14, <1>15, <1>16, <1>17, <1>18, <1>19, <1>20, <1>21

(***************************************************************************)
(* A config is written over the one that was read: either no listed name   *)
(* changes, or a rename puts one that no other server listed has.          *)
(***************************************************************************)
SameNames(S) ==
    \A t \in S : (config'[t] = Absent <=> config[t] = Absent) /\ config'[t].name = config[t].name

OneName(r) ==
    /\ req[r].kind = "rename" /\ SameNames(index \ {req[r].id})
    /\ config[req[r].id] # Absent /\ config'[req[r].id] # Absent
    /\ req[r].id \in index
           => \A t \in Listed(index) \ {req[r].id} : config[t].name # config'[req[r].id].name

LEMMA NamesSaved ==
    ASSUME TypeOK, RequestsInOrder, FreshIsUntouched, NamesInOrder, ~Disturbed, crossed' = {},
           NEW r \in Request, req[r].pc = "save",
           WriteConfig(req[r].id, req[r].mine, req[r].seen)
    PROVE  SameNames(index) \/ OneName(r)
<1> DEFINE s == req[r].id
<1>1. s \in Server /\ index \subseteq Server /\ req[r].kind \in Kinds
  BY RequestType DEF TypeOK
<1>2. /\ config'[s] = req[r].mine /\ config[s] = req[r].seen
      /\ \A t \in Server \ {s} : config'[t] = config[t]
  BY <1>1, ConfigWritten
<1>3. req[r].mine # Absent /\ (req[r].kind # "create" => req[r].seen # Absent)
  BY DEF RequestsInOrder, Open
<1>4. CASE req[r].kind = "create"
  <2>1. s = r /\ r \notin index
    BY <1>4 DEF RequestsInOrder, FreshIsUntouched, Unsaved
  <2>2. QED BY <1>1, <1>2, <2>1 DEF SameNames
<1>5. CASE req[r].kind \in {"update", "backup"}
  <2>1. req[r].mine.name = req[r].seen.name
    BY <1>5 DEF RequestsInOrder, Open
  <2>2. QED BY <1>1, <1>2, <1>3, <1>5, <2>1 DEF SameNames
<1>6. CASE req[r].kind = "rename"
  <2>1. \A t \in Listed(index) \ {s} : config[t].name # req[r].mine.name
    BY <1>6 DEF NamesInOrder, Naming
  <2>2. SameNames(index \ {s})
    BY <1>1, <1>2 DEF SameNames
  <2>3. QED BY <1>2, <1>3, <1>6, <2>1, <2>2 DEF OneName
<1>7. CASE req[r].kind = "delete"
  BY <1>7 DEF RequestsInOrder, Open
<1>8. QED BY <1>1, <1>4, <1>5, <1>6, <1>7 DEF Kinds

LEMMA NamesReverted ==
    ASSUME TypeOK, RequestsInOrder, SnapshotIsSeen, NamesInOrder, ~Disturbed, crossed' = {},
           NEW r \in Request, req[r].pc = "revert",
           WriteConfig(req[r].id, req[r].back, req[r].mine)
    PROVE  SameNames(index) \/ OneName(r)
<1> DEFINE s == req[r].id
<1>1. s \in Server /\ index \subseteq Server /\ req[r].kind \in Kinds
  BY RequestType DEF TypeOK
<1>2. req[r].kind \notin {"create", "delete"}
  BY DEF RequestsInOrder, Open
<1>3. req[r].mine # Absent /\ req[r].seen # Absent
  BY <1>2 DEF RequestsInOrder, Open
<1>4. req[r].back = req[r].seen
  BY <1>2 DEF SnapshotIsSeen, Alone, Open, Disturbed
<1>5. /\ config'[s] = req[r].seen /\ config[s] = req[r].mine
      /\ \A t \in Server \ {s} : config'[t] = config[t]
  BY <1>1, <1>4, ConfigWritten
<1>6. CASE req[r].kind \in {"update", "backup"}
  <2>1. req[r].mine.name = req[r].seen.name
    BY <1>6 DEF RequestsInOrder, Open
  <2>2. QED BY <1>1, <1>3, <1>5, <1>6, <2>1 DEF SameNames
<1>7. CASE req[r].kind = "rename"
  <2>1. s \in index => \A t \in Listed(index) \ {s} : config[t].name # req[r].seen.name
    BY <1>3, <1>5, <1>7 DEF NamesInOrder, Open, Listed
  <2>2. SameNames(index \ {s})
    BY <1>1, <1>5 DEF SameNames
  <2>3. QED BY <1>3, <1>5, <1>7, <2>1, <2>2 DEF OneName
<1>8. QED BY <1>1, <1>2, <1>6, <1>7 DEF Kinds

LEMMA RenamersDiffer ==
    ASSUME TypeOK, OverlapIsSeen, ConfigIsSeen, NamesInOrder, ~Disturbed,
           NEW r \in Request, NEW q \in Request, q # r, Naming(r), Open(q),
           req[q].kind = "rename"
    PROVE  /\ ~Naming(q) /\ req[q].id # req[r].id
           /\ config[req[q].id] \in {req[q].seen, Absent}
<1>1. ~Naming(q)
  BY DEF NamesInOrder
<1>2. req[q].pc \in Unsaved
  BY <1>1 DEF Naming, Open, Unsaved, TypeOK, Requests, RequestPCs
<1>3. Alone(q) /\ Open(r) /\ req[q].id \notin crossed
  BY DEF Alone, Naming, Open, Disturbed
<1>4. config[req[q].id] \in {req[q].seen, Absent}
  BY <1>2, <1>3 DEF ConfigIsSeen
<1>5. QED BY <1>1, <1>3, <1>4, WorksAlone

LEMMA NamesStayInOrder ==
    ASSUME TypeOK, OverlapIsSeen, ConfigIsSeen, NamesInOrder, ~Disturbed, index' = index,
           NEW r \in Request, SameNames(index) \/ (Naming(r) /\ OneName(r)),
           req[r].pc \in {"save", "revert"},
           Ends(r) \/ Goes(r, "readindex") \/ Goes(r, "provision")
    PROVE  NamesInOrder'
<1> DEFINE s == req[r].id
<1>1. ASSUME NEW q \in Request, Naming(q)'
      PROVE  /\ Naming(q) /\ req'[q].id = req[q].id /\ req'[q].idx = req[q].idx
             /\ req'[q].mine = req[q].mine /\ (req'[q].pc = "check" <=> req[q].pc = "check")
  BY <1>1 DEF Naming, Ends, Goes, Moves, Touches
<1>2. ASSUME NEW q \in Request, Open(q)', req'[q].kind = "rename"
      PROVE  /\ Open(q) /\ req[q].kind = "rename"
             /\ req'[q].id = req[q].id /\ req'[q].seen = req[q].seen
  BY <1>2 DEF Open, Ends, Goes, Moves, Touches
<1>3. \A q, p \in Request : Naming(q)' /\ Naming(p)' => q = p
  BY <1>1 DEF NamesInOrder
<1>4. ASSUME NEW q \in Request, NEW t \in Listed(index)' \ {req'[q].id}
      PROVE  /\ (Naming(q) /\ req[q].pc = "check")' => t \in req'[q].idx
             /\ (Naming(q) /\ req[q].pc # "check")' => config'[t].name # req'[q].mine.name
             /\ Open(q)' /\ req'[q].kind = "rename" /\ req'[q].id \in Listed(index)'
                    => config'[t].name # req'[q].seen.name
  <2>1. CASE SameNames(index)
    <3>1. /\ \A u \in Listed(index)' : u \in Listed(index)
          /\ config'[t].name = config[t].name
      BY <2>1 DEF SameNames, Listed
    <3>2. QED BY <1>1, <1>2, <3>1 DEF NamesInOrder
  <2>2. CASE Naming(r) /\ OneName(r)
    <3>1. \A u \in Listed(index)' : u \in Listed(index)
      BY <2>2 DEF OneName, SameNames, Listed
    <3>2. t # s => config'[t].name = config[t].name
      BY <2>2, <3>1 DEF OneName, SameNames, Listed
    <3>3. CASE q = r
      <4>1. Open(r)' => req'[r].id = s
        BY DEF Open, Ends, Goes, Moves
      <4>2. Naming(r)' => Open(r)'
        BY DEF Naming, Open
      <4>3. QED BY <1>1, <1>2, <3>1, <3>2, <3>3, <4>1, <4>2 DEF NamesInOrder
    <3>4. CASE q # r
      <4>1. ~Naming(q)'
        BY <1>1, <2>2, <3>4 DEF NamesInOrder
      <4>2. ASSUME Open(q)', req'[q].kind = "rename", req'[q].id \in Listed(index)'
            PROVE  config'[t].name # req'[q].seen.name
        <5>1. /\ req[q].id # s /\ req[q].id \in Listed(index)
              /\ req'[q].id = req[q].id /\ req'[q].seen = req[q].seen
              /\ config[req[q].id] \in {req[q].seen, Absent}
          BY <1>2, <2>2, <3>1, <3>4, <4>2, RenamersDiffer
        <5>2. config[req[q].id] = req[q].seen
          BY <5>1 DEF Listed
        <5>3. CASE t = s
          BY <2>2, <3>1, <5>1, <5>2, <5>3 DEF OneName, Listed
        <5>4. CASE t # s
          BY <1>2, <3>1, <3>2, <4>2, <5>1, <5>4 DEF NamesInOrder
        <5>5. QED BY <5>3, <5>4
      <4>3. QED BY <4>1, <4>2
    <3>5. QED BY <3>3, <3>4
  <2>3. QED BY <2>1, <2>2
<1>5. QED BY <1>3, <1>4 DEF NamesInOrder

LEMMA UniqueStays ==
    ASSUME NamesAreUnique, ~Disturbed, index' = index, NEW r \in Request,
           SameNames(index) \/ OneName(r)
    PROVE  NamesAreUnique'
<1>1. CASE SameNames(index)
  BY <1>1 DEF SameNames, NamesAreUnique, Listed
<1>2. CASE OneName(r)
  <2>1. ASSUME NEW t \in Listed(index)'
        PROVE  t \in Listed(index) /\ (t # req[r].id => config'[t].name = config[t].name)
    BY <1>2, <2>1 DEF OneName, SameNames, Listed
  <2>2. ASSUME NEW t \in Listed(index)', NEW u \in Listed(index)', config'[t].name = config'[u].name
        PROVE  t = u
    <3>1. CASE t # req[r].id /\ u # req[r].id
      BY <2>1, <2>2, <3>1 DEF NamesAreUnique
    <3>2. CASE (t = req[r].id) # (u = req[r].id)
      BY <1>2, <2>1, <2>2, <3>2 DEF OneName, Listed
    <3>3. QED BY <3>1, <3>2
  <2>3. QED BY <2>2 DEF NamesAreUnique
<1>3. QED BY <1>1, <1>2

LEMMA NewNameDiffers ==
    ASSUME TypeOK, RequestsInOrder, ConfigIsSeen, NamesInOrder, ~Disturbed,
           NEW r \in Request, req[r].pc = "writeindex", config[r] # Absent
    PROVE  /\ req[r].id = r /\ Naming(r) /\ config[r] = req[r].mine
           /\ \A t \in Listed(index) \ {r} : config[t].name # req[r].mine.name
<1>1. req[r].kind = "create" /\ req[r].id = r
  BY DEF RequestsInOrder
<1>2. Alone(r) /\ r \notin crossed /\ req[r].pc \in Saved /\ Naming(r)
  BY <1>1 DEF Alone, Open, Disturbed, Saved, Naming
<1>3. config[r] \in {req[r].mine, Absent}
  BY <1>1, <1>2 DEF ConfigIsSeen
<1>4. QED BY <1>1, <1>2, <1>3 DEF NamesInOrder

LEMMA NamesNext ==
    ASSUME TypeOK, RequestsInOrder, FreshIsUntouched, OverlapIsSeen, SnapshotIsSeen,
       ConfigIsSeen, NamesInOrder, NamesAreUnique, Next
    PROVE  NamesInOrder'
<1>1. ASSUME NEW r \in Request, NEW name \in Name, Create(r, name) PROVE NamesInOrder'
  BY <1>1, CreateEffect, CalmStays, BlankType
     DEF NamesInOrder, Naming, Listed, Disturbed, Open, store, ghosts, Moves, Touches,
        RequestsInOrder
<1>2. ASSUME NEW r \in Request, NEW kind \in Kinds \ {"create"}, NEW s \in Server,
             NEW name \in Name, Begin(r, kind, s, name) PROVE NamesInOrder'
  BY <1>2, BeginEffect, CalmStays
     DEF NamesInOrder, Naming, Listed, Disturbed, Open, store, Touches, NamesAreUnique
<1>3. ASSUME NEW r \in Request, SaveConfigSnapshot(r) PROVE NamesInOrder'
  BY <1>3, SnapshotEffect, CalmStays
     DEF NamesInOrder, Naming, Listed, Disturbed, Open, ghosts, Ends, Goes, Moves, Touches,
        RequestsInOrder
<1>4. ASSUME NEW r \in Request, ListIndex(r) PROVE NamesInOrder'
  BY <1>4, ListIndexEffect, CalmStays
     DEF NamesInOrder, Naming, Listed, Disturbed, Open, store, Ends, Moves, Touches
<1>5. ASSUME NEW r \in Request, CheckName(r) PROVE NamesInOrder'
  BY <1>5, CheckNameEffect, CalmStays
     DEF NamesInOrder, Naming, Listed, Disturbed, Open, store, Ends, Moves, Touches, Taken
<1>6. ASSUME NEW r \in Request, SaveConfig(r) PROVE NamesInOrder'
  <2> SUFFICES ASSUME ~Disturbed' PROVE NamesInOrder'
    BY DEF NamesInOrder
  <2>1. ~Disturbed /\ crossed' = {}
    BY CalmStays DEF Disturbed
  <2>2. /\ req[r].pc = "save" /\ index' = index
        /\ Ends(r) \/ Goes(r, "readindex") \/ Goes(r, "provision")
        /\ config' = config \/ WriteConfig(req[r].id, req[r].mine, req[r].seen)
    BY <1>6, SaveConfigEffect
  <2>3. SameNames(index) \/ OneName(r)
    BY <2>1, <2>2, NamesSaved DEF SameNames
  <2>4. OneName(r) => Naming(r)
    BY <2>2 DEF OneName, Naming
  <2>5. QED BY <2>1, <2>2, <2>3, <2>4, NamesStayInOrder
<1>7. ASSUME NEW r \in Request, ReadIndex(r) PROVE NamesInOrder'
  BY <1>7, ReadIndexEffect, CalmStays
     DEF NamesInOrder, Naming, Listed, Disturbed, Open, store, ghosts, Ends, Moves, Touches
<1>8. ASSUME NEW r \in Request, AddToIndex(r) PROVE NamesInOrder'
  <2> SUFFICES ASSUME ~Disturbed' PROVE NamesInOrder'
    BY DEF NamesInOrder
  <2>1. ~Disturbed /\ crossed' = {}
    BY CalmStays DEF Disturbed
  <2>2. /\ req[r].pc = "writeindex" /\ config' = config
        /\ index' \in {index, index \union {r}}
        /\ Ends(r) \/ Goes(r, "provision")
    BY <2>1, <1>8, AddToIndexEffect
  <2>3. req[r].id = r /\ req[r].kind = "create" /\ Naming(r)
    BY <2>2 DEF RequestsInOrder, Naming
  <2>4. ASSUME NEW q \in Request, Naming(q)' \/ (Open(q)' /\ req'[q].kind = "rename")
        PROVE  /\ req'[q].kind = req[q].kind /\ req'[q].id = req[q].id
               /\ req'[q].mine = req[q].mine /\ req'[q].seen = req[q].seen
               /\ Naming(q)' => Naming(q) /\ (req'[q].pc = "check" <=> req[q].pc = "check")
               /\ Open(q)' => Open(q)
               /\ req'[q].idx = req[q].idx
    BY <2>2, <2>4 DEF Naming, Open, Ends, Goes, Moves, Touches
  <2>5. \A q, p \in Request : Naming(q)' /\ Naming(p)' => q = p
    BY <2>1, <2>4 DEF NamesInOrder
  <2>6. ASSUME NEW q \in Request, NEW t \in Listed(index)' \ {req'[q].id}
        PROVE  /\ (Naming(q) /\ req[q].pc = "check")' => t \in req'[q].idx
               /\ (Naming(q) /\ req[q].pc # "check")' => config'[t].name # req'[q].mine.name
               /\ Open(q)' /\ req'[q].kind = "rename" /\ req'[q].id \in Listed(index)'
                      => config'[t].name # req'[q].seen.name
    <3>1. Naming(q)' => q = r
      BY <2>1, <2>3, <2>4 DEF NamesInOrder
    <3>2. Naming(q)' => t \in Listed(index) /\ t # r
      BY <2>2, <2>3, <2>4, <3>1 DEF Listed
    <3>3. ASSUME Open(q)', req'[q].kind = "rename", req'[q].id \in Listed(index)'
          PROVE  config'[t].name # req'[q].seen.name
      <4>1. /\ Open(q) /\ q # r /\ req[q].kind = "rename" /\ req'[q].id = req[q].id
            /\ req'[q].seen = req[q].seen
        BY <2>3, <2>4, <3>3
      <4>2. req[q].id # r /\ config[req[q].id] \in {req[q].seen, Absent}
        BY <2>1, <2>3, <4>1, RenamersDiffer
      <4>3. req[q].id \in Listed(index) /\ config[req[q].id] = req[q].seen
        BY <2>2, <3>3, <4>1, <4>2 DEF Listed
      <4>4. CASE t = r
        <5>1. config[r] # Absent
          BY <2>2, <4>4 DEF Listed
        <5>2. QED BY <2>1, <2>2, <4>1, <4>2, <4>3, <4>4, <5>1, NewNameDiffers
      <4>5. CASE t # r
        <5>1. t \in Listed(index) \ {req[q].id}
          BY <2>2, <4>1, <4>5 DEF Listed
        <5>2. QED BY <2>1, <2>2, <4>1, <4>3, <5>1 DEF NamesInOrder
      <4>6. QED BY <4>4, <4>5
    <3>4. QED BY <2>1, <2>2, <2>3, <2>4, <3>2, <3>3 DEF NamesInOrder
  <2>7. QED BY <2>5, <2>6 DEF NamesInOrder
<1>9. ASSUME NEW r \in Request, Accept(r) PROVE NamesInOrder'
  BY <1>9, AcceptEffect, CalmStays
     DEF NamesInOrder, Naming, Listed, Disturbed, Open, store, Ends, Touches, Works
<1>10. ASSUME NEW r \in Request, Refuse(r) PROVE NamesInOrder'
  BY <1>10, RefuseEffect, CalmStays
     DEF NamesInOrder, Naming, Listed, Disturbed, Open, store, ghosts, Ends, Goes, Moves,
        Touches
<1>11. ASSUME NEW r \in Request, GetConfigSnapshot(r) PROVE NamesInOrder'
  BY <1>11, GetSnapshotEffect, CalmStays
     DEF NamesInOrder, Naming, Listed, Disturbed, Open, store, ghosts, Ends, Moves, Touches
<1>12. ASSUME NEW r \in Request, RevertConfig(r) PROVE NamesInOrder'
  <2> SUFFICES ASSUME ~Disturbed' PROVE NamesInOrder'
    BY DEF NamesInOrder
  <2>1. ~Disturbed /\ crossed' = {}
    BY CalmStays DEF Disturbed
  <2>2. /\ req[r].pc = "revert" /\ index' = index /\ Ends(r)
        /\ config' = config \/ WriteConfig(req[r].id, req[r].back, req[r].mine)
    BY <1>12, RevertEffect
  <2>3. SameNames(index) \/ OneName(r)
    BY <2>1, <2>2, NamesReverted DEF SameNames
  <2>4. OneName(r) => Naming(r)
    BY <2>2 DEF OneName, Naming
  <2>5. QED BY <2>1, <2>2, <2>3, <2>4, NamesStayInOrder
<1>13. ASSUME NEW s \in Server, Deliver(s) PROVE NamesInOrder'
  BY <1>13, DeliverEffect, CalmStays
     DEF NamesInOrder, Naming, Listed, Disturbed, Open, store, Works, Finishes
<1>14. ASSUME NEW s \in Server, Deploy(s) PROVE NamesInOrder'
  BY <1>14, DeployEffect, CalmStays
     DEF NamesInOrder, Naming, Listed, Disturbed, Open, store, ghosts, Works, Finishes
<1>15. ASSUME NEW s \in Server, GetConfigToStamp(s) PROVE NamesInOrder'
  BY <1>15, GetToStampEffect, CalmStays
     DEF NamesInOrder, Naming, Listed, Disturbed, Open, store, ghosts, Works, Finishes
<1>16. ASSUME NEW s \in Server, Stamp(s) PROVE NamesInOrder'
  BY <1>16, StampEffect, CalmStays, ConfigWritten
     DEF NamesInOrder, Naming, Listed, Disturbed, Open, Works, Finishes, TypeOK
<1>17. ASSUME NEW s \in Server, Destroy(s) PROVE NamesInOrder'
  BY <1>17, DestroyEffect, CalmStays
     DEF NamesInOrder, Naming, Listed, Disturbed, Open, store, ghosts, Works, Finishes,
        Trails
<1>18. ASSUME NEW s \in Server, DeleteConfig(s) PROVE NamesInOrder'
  BY <1>18, DeleteConfigEffect, CalmStays
     DEF NamesInOrder, Naming, Listed, Disturbed, Open, Trails, Stops, TypeOK
<1>19. ASSUME NEW s \in Server, ReadIndexToDelete(s) PROVE NamesInOrder'
  BY <1>19, ReadToDeleteEffect, CalmStays
     DEF NamesInOrder, Naming, Listed, Disturbed, Open, store, ghosts, Trails, Stops
<1>20. ASSUME NEW s \in Server, RemoveFromIndex(s) PROVE NamesInOrder'
  BY <1>20, RemoveEffect, CalmStays
     DEF NamesInOrder, Naming, Listed, Disturbed, Open, Trails, Stops
<1>21. CASE Crash
  BY <1>21, CrashEffect, CalmStays
     DEF NamesInOrder, Naming, Listed, Disturbed, Open, store, ghosts
<1>22. QED BY StepCases, <1>1, <1>2, <1>3, <1>4, <1>5, <1>6, <1>7, <1>8, <1>9, <1>10, <1>11,
   <1>12, <1>13, <1>14, <1>15, <1>16, <1>17, <1>18, <1>19, <1>20, <1>21

LEMMA UniqueNext ==
    ASSUME TypeOK, RequestsInOrder, FreshIsUntouched, OverlapIsSeen, SnapshotIsSeen,
       ConfigIsSeen, NamesInOrder, NamesAreUnique, Next
    PROVE  NamesAreUnique'
<1>1. ASSUME NEW r \in Request, NEW name \in Name, Create(r, name) PROVE NamesAreUnique'
  BY <1>1, CreateEffect, CalmStays, BlankType
     DEF NamesAreUnique, Listed, Disturbed, store, ghosts
<1>2. ASSUME NEW r \in Request, NEW kind \in Kinds \ {"create"}, NEW s \in Server,
             NEW name \in Name, Begin(r, kind, s, name) PROVE NamesAreUnique'
  BY <1>2, BeginEffect, CalmStays DEF NamesAreUnique, Listed, Disturbed, store
<1>3. ASSUME NEW r \in Request, SaveConfigSnapshot(r) PROVE NamesAreUnique'
  BY <1>3, SnapshotEffect, CalmStays DEF NamesAreUnique, Listed, Disturbed, ghosts
<1>4. ASSUME NEW r \in Request, ListIndex(r) PROVE NamesAreUnique'
  BY <1>4, ListIndexEffect, CalmStays DEF NamesAreUnique, Listed, Disturbed, store
<1>5. ASSUME NEW r \in Request, CheckName(r) PROVE NamesAreUnique'
  BY <1>5, CheckNameEffect, CalmStays DEF NamesAreUnique, Listed, Disturbed, store
<1>6. ASSUME NEW r \in Request, SaveConfig(r) PROVE NamesAreUnique'
  <2> SUFFICES ASSUME ~Disturbed' PROVE NamesAreUnique'
    BY DEF NamesAreUnique
  <2>1. ~Disturbed /\ crossed' = {}
    BY CalmStays DEF Disturbed
  <2>2. /\ req[r].pc = "save" /\ index' = index
        /\ config' = config \/ WriteConfig(req[r].id, req[r].mine, req[r].seen)
    BY <1>6, SaveConfigEffect
  <2>3. SameNames(index) \/ OneName(r)
    BY <2>1, <2>2, NamesSaved DEF SameNames
  <2>4. QED BY <2>1, <2>2, <2>3, UniqueStays
<1>7. ASSUME NEW r \in Request, ReadIndex(r) PROVE NamesAreUnique'
  BY <1>7, ReadIndexEffect, CalmStays DEF NamesAreUnique, Listed, Disturbed, store, ghosts
<1>8. ASSUME NEW r \in Request, AddToIndex(r) PROVE NamesAreUnique'
  <2> SUFFICES ASSUME ~Disturbed' PROVE NamesAreUnique'
    BY DEF NamesAreUnique
  <2>1. ~Disturbed /\ crossed' = {}
    BY CalmStays DEF Disturbed
  <2>2. /\ req[r].pc = "writeindex" /\ config' = config
        /\ index' \in {index, index \union {r}}
    BY <2>1, <1>8, AddToIndexEffect
  <2>3. config[r] # Absent => \A t \in Listed(index) \ {r} : config[t].name # config[r].name
    BY <2>1, <2>2, NewNameDiffers
  <2>4. QED BY <2>1, <2>2, <2>3 DEF NamesAreUnique, Listed
<1>9. ASSUME NEW r \in Request, Accept(r) PROVE NamesAreUnique'
  BY <1>9, AcceptEffect, CalmStays DEF NamesAreUnique, Listed, Disturbed, store
<1>10. ASSUME NEW r \in Request, Refuse(r) PROVE NamesAreUnique'
  BY <1>10, RefuseEffect, CalmStays DEF NamesAreUnique, Listed, Disturbed, store, ghosts
<1>11. ASSUME NEW r \in Request, GetConfigSnapshot(r) PROVE NamesAreUnique'
  BY <1>11, GetSnapshotEffect, CalmStays
     DEF NamesAreUnique, Listed, Disturbed, store, ghosts
<1>12. ASSUME NEW r \in Request, RevertConfig(r) PROVE NamesAreUnique'
  <2> SUFFICES ASSUME ~Disturbed' PROVE NamesAreUnique'
    BY DEF NamesAreUnique
  <2>1. ~Disturbed /\ crossed' = {}
    BY CalmStays DEF Disturbed
  <2>2. /\ req[r].pc = "revert" /\ index' = index
        /\ config' = config \/ WriteConfig(req[r].id, req[r].back, req[r].mine)
    BY <1>12, RevertEffect
  <2>3. SameNames(index) \/ OneName(r)
    BY <2>1, <2>2, NamesReverted DEF SameNames
  <2>4. QED BY <2>1, <2>2, <2>3, UniqueStays
<1>13. ASSUME NEW s \in Server, Deliver(s) PROVE NamesAreUnique'
  BY <1>13, DeliverEffect, CalmStays DEF NamesAreUnique, Listed, Disturbed, store
<1>14. ASSUME NEW s \in Server, Deploy(s) PROVE NamesAreUnique'
  BY <1>14, DeployEffect, CalmStays DEF NamesAreUnique, Listed, Disturbed, store, ghosts
<1>15. ASSUME NEW s \in Server, GetConfigToStamp(s) PROVE NamesAreUnique'
  BY <1>15, GetToStampEffect, CalmStays
     DEF NamesAreUnique, Listed, Disturbed, store, ghosts
<1>16. ASSUME NEW s \in Server, Stamp(s) PROVE NamesAreUnique'
  BY <1>16, StampEffect, CalmStays, ConfigWritten
     DEF NamesAreUnique, Listed, Disturbed, TypeOK
<1>17. ASSUME NEW s \in Server, Destroy(s) PROVE NamesAreUnique'
  BY <1>17, DestroyEffect, CalmStays DEF NamesAreUnique, Listed, Disturbed, store, ghosts
<1>18. ASSUME NEW s \in Server, DeleteConfig(s) PROVE NamesAreUnique'
  BY <1>18, DeleteConfigEffect, CalmStays DEF NamesAreUnique, Listed, Disturbed, TypeOK
<1>19. ASSUME NEW s \in Server, ReadIndexToDelete(s) PROVE NamesAreUnique'
  BY <1>19, ReadToDeleteEffect, CalmStays
     DEF NamesAreUnique, Listed, Disturbed, store, ghosts
<1>20. ASSUME NEW s \in Server, RemoveFromIndex(s) PROVE NamesAreUnique'
  BY <1>20, RemoveEffect, CalmStays DEF NamesAreUnique, Listed, Disturbed
<1>21. CASE Crash
  BY <1>21, CrashEffect, CalmStays DEF NamesAreUnique, Listed, Disturbed, store, ghosts
<1>22. QED BY StepCases, <1>1, <1>2, <1>3, <1>4, <1>5, <1>6, <1>7, <1>8, <1>9, <1>10, <1>11,
   <1>12, <1>13, <1>14, <1>15, <1>16, <1>17, <1>18, <1>19, <1>20, <1>21

-----------------------------------------------------------------------------
LEMMA InvInit == ASSUME Init PROVE IInv
<1>1. \A s \in Existing : [present |-> TRUE, name |-> Named[s], by |-> s] \in Configs
  BY NamesDiffer DEF Configs, Server
<1>2. /\ config \in [Server -> Configs \union {Absent}] /\ deployed = config
      /\ \A s \in Existing : config[s] = [present |-> TRUE, name |-> Named[s], by |-> s]
      /\ \A s \in Server \ Existing : config[s] = Absent
  BY <1>1 DEF Init, Server
<1>3. /\ executor \in {"local", "cloud"} /\ index = Existing /\ accepted = {} /\ forgotten = {}
      /\ crossed = {} /\ overlapped = {} /\ drifted = {} /\ blurred = FALSE
  BY ExecutorsType DEF Init
<1>4. /\ req \in [Request -> Requests]
      /\ \A r \in Request :
             /\ req[r] = Blank(r, "new") /\ req[r].pc = "new" /\ req[r].kind = "create"
             /\ req[r].id = r /\ req[r].idx = {} /\ req[r].seen = Absent
  <2>1. req = [r \in Request |-> Blank(r, "new")]
    BY DEF Init
  <2>2. \A r \in Request : Blank(r, "new") \in Requests
    BY BlankType
  <2>3. QED BY <2>1, <2>2, BlankType
<1>5. /\ job \in [Server -> Jobs] /\ tail \in [Server -> Tails]
      /\ \A s \in Server : /\ job[s] = NoJob /\ job[s].pc = "idle" /\ job[s].want = Absent
                           /\ tail[s] = NoTail /\ tail[s].pc = "none" /\ tail[s].idx = {}
  <2>1. job = [s \in Server |-> NoJob] /\ tail = [s \in Server |-> NoTail]
    BY DEF Init
  <2>2. QED BY <2>1, NoJobType, NoTailType
<1>6. TypeOK
  <2>1. snapshot \in [Server -> Configs \union {Absent}]
    BY DEF Init
  <2>2. QED BY <1>2, <1>3, <1>4, <1>5, <2>1 DEF TypeOK, Server
<1>7. \A r \in Request : ~Open(r)
  BY <1>4 DEF Open
<1>8. RequestsInOrder /\ OverlapIsSeen
  BY <1>4, <1>7 DEF RequestsInOrder, OverlapIsSeen
<1>9. FreshIsUntouched
  BY <1>2, <1>3, <1>4, <1>5, ServersDiffer DEF FreshIsUntouched, Server
<1>10. SnapshotIsSeen /\ DriftIsSeen /\ ConfigIsSeen /\ DeployedIsSeen
  BY <1>7 DEF SnapshotIsSeen, DriftIsSeen, ConfigIsSeen, DeployedIsSeen, Alone
<1>11. JobsInOrder /\ CreatedIsListed
  BY <1>4, <1>5 DEF JobsInOrder, CreatedIsListed
<1>12. NamesInOrder
  BY <1>4, <1>7 DEF NamesInOrder, Naming
<1>13. AcceptedIsListed /\ DeployedIsStored
  BY <1>2, <1>3 DEF AcceptedIsListed, DeployedIsStored
<1>14. NamesAreUnique
  <2>1. ASSUME NEW s \in Existing PROVE config[s].name = Named[s]
    <3>1. config[s] = [present |-> TRUE, name |-> Named[s], by |-> s]
      BY <1>2
    <3>2. QED BY <3>1
  <2>2. QED BY <1>3, <2>1, NamesDiffer DEF NamesAreUnique, Listed
<1>15. QED BY <1>6, <1>8, <1>9, <1>10, <1>11, <1>12, <1>13, <1>14 DEF IInv

LEMMA InvNext == ASSUME IInv, [Next]_vars PROVE IInv'
<1>1. CASE Next
  <2>1. TypeOK' /\ RequestsInOrder' /\ FreshIsUntouched' /\ OverlapIsSeen'
    BY <1>1, TypeNext, RequestsNext, FreshNext, OverlapNext DEF IInv
  <2>2. SnapshotIsSeen' /\ DriftIsSeen' /\ ConfigIsSeen' /\ DeployedIsSeen'
    BY <1>1, SnapshotNext, DriftNext, ConfigNext, DeployedNext DEF IInv
  <2>3. JobsInOrder' /\ DeployedIsStored' /\ CreatedIsListed' /\ AcceptedIsListed'
    BY <1>1, JobsNext, StoredNext, CreatedNext, AcceptedNext DEF IInv
  <2>4. NamesInOrder' /\ NamesAreUnique'
    BY <1>1, NamesNext, UniqueNext DEF IInv
  <2>5. QED BY <2>1, <2>2, <2>3, <2>4 DEF IInv
<1>2. CASE UNCHANGED vars
  <2>1. TypeOK' /\ RequestsInOrder' /\ FreshIsUntouched' /\ OverlapIsSeen'
    BY <1>2 DEF IInv, vars, store, ghosts, TypeOK, RequestsInOrder, FreshIsUntouched,
                OverlapIsSeen, Open
  <2>2. SnapshotIsSeen' /\ DriftIsSeen' /\ ConfigIsSeen' /\ DeployedIsSeen'
    BY <1>2 DEF IInv, vars, store, ghosts, SnapshotIsSeen, DriftIsSeen, ConfigIsSeen,
                DeployedIsSeen, Alone, Open
  <2>3. JobsInOrder' /\ DeployedIsStored' /\ CreatedIsListed' /\ AcceptedIsListed'
    BY <1>2 DEF IInv, vars, store, ghosts, JobsInOrder, DeployedIsStored, CreatedIsListed,
                AcceptedIsListed, Settled
  <2>4. NamesInOrder' /\ NamesAreUnique'
    BY <1>2 DEF IInv, vars, store, ghosts, NamesInOrder, NamesAreUnique, Disturbed, Naming,
                Listed, Open
  <2>5. QED BY <2>1, <2>2, <2>3, <2>4 DEF IInv
<1>3. QED BY <1>1, <1>2

(***************************************************************************)
(* The invariant of the handlers of internal/handlers/servers, the writes  *)
(* of internal/db/dapr.go and the operations holds for any requests,       *)
(* servers and names.                                                      *)
(***************************************************************************)
THEOREM InvariantHolds == Spec => []IInv
<1>1. Init => IInv
  BY InvInit
<1>2. IInv /\ [Next]_vars => IInv'
  BY InvNext
<1>3. QED BY <1>1, <1>2, PTL DEF Spec

(***************************************************************************)
(* Every server whose creation was accepted is in the server index until   *)
(* its config is deleted, whichever write of CreateServerConfig fails and  *)
(* wherever the controller dies, unless two writes of the index crossed.   *)
(***************************************************************************)
THEOREM AcceptedStaysListed == Spec => []AcceptedIsListed
<1>1. IInv => AcceptedIsListed
  BY DEF IInv
<1>2. QED BY <1>1, InvariantHolds, PTL

(***************************************************************************)
(* isServerNameTaken keeps the names of the listed servers apart, through  *)
(* creations, renames, refusals and reverts, as long as no two checks run  *)
(* at once, no config is missed, no requests overlap and no write crosses. *)
(***************************************************************************)
THEOREM NamesStayUnique == Spec => []NamesAreUnique
<1>1. IInv => NamesAreUnique
  BY DEF IInv
<1>2. QED BY <1>1, InvariantHolds, PTL

(***************************************************************************)
(* The stored config of a server that is settled is the one its last       *)
(* COMPLETED create or update deployed: stampServerConfig, the handlers    *)
(* and RevertServerConfig do not leave another.                            *)
(***************************************************************************)
THEOREM DeployedStaysStored == Spec => []DeployedIsStored
<1>1. IInv => DeployedIsStored
  BY DEF IInv
<1>2. QED BY <1>1, InvariantHolds, PTL

Restored(r) == config'[req[r].id] \in {config[req[r].id], req[r].seen}

LEMMA RevertNext ==
    ASSUME TypeOK, RequestsInOrder, OverlapIsSeen, SnapshotIsSeen, NEW p \in Request,
       req[p].pc = "revert", req'[p].pc = "done", req[p].id \notin overlapped, Next
    PROVE  Restored(p)
<1>1. ASSUME NEW r \in Request, NEW name \in Name, Create(r, name) PROVE Restored(p)
  BY <1>1, CreateEffect DEF Restored, store, ghosts, Touches
<1>2. ASSUME NEW r \in Request, NEW kind \in Kinds \ {"create"}, NEW s \in Server,
             NEW name \in Name, Begin(r, kind, s, name) PROVE Restored(p)
  BY <1>2, BeginEffect DEF Restored, store, Touches
<1>3. ASSUME NEW r \in Request, SaveConfigSnapshot(r) PROVE Restored(p)
  BY <1>3, SnapshotEffect DEF Restored, ghosts, Touches
<1>4. ASSUME NEW r \in Request, ListIndex(r) PROVE Restored(p)
  BY <1>4, ListIndexEffect DEF Restored, store, Touches
<1>5. ASSUME NEW r \in Request, CheckName(r) PROVE Restored(p)
  BY <1>5, CheckNameEffect DEF Restored, store, Touches
<1>6. ASSUME NEW r \in Request, SaveConfig(r) PROVE Restored(p)
  <2>1. p # r /\ req'[p] # req[p]
    BY <1>6, SaveConfigEffect
  <2>2. QED BY <1>6, <2>1, SaveConfigEffect DEF Ends, Goes, Moves, Touches
<1>7. ASSUME NEW r \in Request, ReadIndex(r) PROVE Restored(p)
  BY <1>7, ReadIndexEffect DEF Restored, store, ghosts, Touches
<1>8. ASSUME NEW r \in Request, AddToIndex(r) PROVE Restored(p)
  BY <1>8, AddToIndexEffect DEF Restored, Touches
<1>9. ASSUME NEW r \in Request, Accept(r) PROVE Restored(p)
  BY <1>9, AcceptEffect DEF Restored, store, Touches
<1>10. ASSUME NEW r \in Request, Refuse(r) PROVE Restored(p)
  BY <1>10, RefuseEffect DEF Restored, store, ghosts, Touches
<1>11. ASSUME NEW r \in Request, GetConfigSnapshot(r) PROVE Restored(p)
  BY <1>11, GetSnapshotEffect DEF Restored, store, ghosts, Touches
<1>12. ASSUME NEW r \in Request, RevertConfig(r) PROVE Restored(p)
  <2>1. p = r
    BY <1>12, RevertEffect DEF Ends, Touches
  <2>2. req[r].back = req[r].seen
    BY <2>1 DEF SnapshotIsSeen, RequestsInOrder, Alone, Open
  <2>3. req[r].id \in Server
    BY RequestType DEF TypeOK
  <2>4. QED BY <1>12, <2>1, <2>2, <2>3, RevertEffect, ConfigWritten DEF Restored
<1>13. ASSUME NEW s \in Server, Deliver(s) PROVE Restored(p)
  BY <1>13, DeliverEffect DEF Restored, store
<1>14. ASSUME NEW s \in Server, Deploy(s) PROVE Restored(p)
  BY <1>14, DeployEffect DEF Restored, store, ghosts
<1>15. ASSUME NEW s \in Server, GetConfigToStamp(s) PROVE Restored(p)
  BY <1>15, GetToStampEffect DEF Restored, store, ghosts
<1>16. ASSUME NEW s \in Server, Stamp(s) PROVE Restored(p)
  BY <1>16, StampEffect DEF Restored
<1>17. ASSUME NEW s \in Server, Destroy(s) PROVE Restored(p)
  BY <1>17, DestroyEffect DEF Restored, store, ghosts
<1>18. ASSUME NEW s \in Server, DeleteConfig(s) PROVE Restored(p)
  BY <1>18, DeleteConfigEffect DEF Restored
<1>19. ASSUME NEW s \in Server, ReadIndexToDelete(s) PROVE Restored(p)
  BY <1>19, ReadToDeleteEffect DEF Restored, store, ghosts
<1>20. ASSUME NEW s \in Server, RemoveFromIndex(s) PROVE Restored(p)
  BY <1>20, RemoveEffect DEF Restored
<1>21. CASE Crash
  BY <1>21, CrashEffect DEF Restored, store, ghosts
<1>22. QED BY StepCases, <1>1, <1>2, <1>3, <1>4, <1>5, <1>6, <1>7, <1>8, <1>9, <1>10, <1>11,
   <1>12, <1>13, <1>14, <1>15, <1>16, <1>17, <1>18, <1>19, <1>20, <1>21

(***************************************************************************)
(* A request that ends in RevertServerConfig leaves the config alone or    *)
(* puts back the one it had read, unless another request on the server     *)
(* overlapped: SaveConfigSnapshot kept that very config for it.            *)
(***************************************************************************)
THEOREM RevertHolds == Spec => RevertRestores
<1> DEFINE A == \A r \in Request :
                    LET s == req[r].id
                    IN req[r].pc = "revert" /\ req'[r].pc = "done" /\ s \notin overlapped
                           => config'[s] \in {config[s], req[r].seen}
<1>1. IInv /\ [Next]_vars => [A]_vars
  <2> SUFFICES ASSUME IInv, Next PROVE A
    OBVIOUS
  <2>1. TypeOK /\ RequestsInOrder /\ OverlapIsSeen /\ SnapshotIsSeen
    BY DEF IInv
  <2>2. QED BY <2>1, RevertNext DEF Restored
<1>2. QED BY <1>1, InvariantHolds, PTL DEF Spec, RevertRestores
=============================================================================
