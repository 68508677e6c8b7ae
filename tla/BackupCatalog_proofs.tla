------------------------ MODULE BackupCatalog_proofs ------------------------
(***************************************************************************)
(* Proofs about the backup catalog, for any servers, snapshots and number  *)
(* of destructions, with updates and with faults.                          *)
(***************************************************************************)
EXTENDS BackupCatalog, TLAPS

LEMMA StampFacts ==
    /\ Stamp \subseteq Nat /\ 0 \notin Stamp /\ NoRecord \notin Stamp
    /\ NoRecord \in Nat /\ Unstamped # NoRecord /\ Unstamped \notin Stamp
  BY MaxDestroysType DEF Stamp, NoRecord, Unstamped

LEMMA OfType ==
    /\ \A s \in Server : Of(s) \subseteq Snapshot
    /\ \A sn \in Snapshot : sn \in Of(ServerOf[sn]) /\ ServerOf[sn] \in Server
  BY ServerOfType DEF Of

LEMMA BulkFacts ==
    ASSUME NEW listed, NEW found \in BulkReads(listed)
    PROVE  found \subseteq listed /\ found \subseteq Snapshot
  BY DEF BulkReads, Recorded

LEMMA IdleFacts == NoReport \in Reports /\ NoDestroy \in Destroys /\ NoSweep \in Sweeps
  BY MaxDestroysType DEF NoReport, NoDestroy, NoSweep, Reports, Destroys, Sweeps

LEMMA NextServerFacts ==
    ASSUME sweep \in Sweeps
    PROVE  /\ NextServer \in Sweeps /\ NextServer.pc = "next" /\ NextServer.plan = sweep.plan
           /\ NextServer.keys = {} /\ NextServer.all = {}
  BY IdleFacts DEF NextServer, NoSweep, Sweeps

LEMMA StepFacts ==
    ASSUME report \in [Server -> Reports], NEW s \in Server,
           NEW pc \in {"sread", "swrite", "gread", "gwrite", "reply"},
           NEW copy \in SUBSET Snapshot, Step(s, pc, copy)
    PROVE  /\ report' \in [Server -> Reports]
           /\ report'[s].pc = pc /\ report'[s].sn = report[s].sn /\ report'[s].copy = copy
           /\ \A r \in Server \ {s} : report'[r] = report[r]
  BY DEF Step, Reports

-----------------------------------------------------------------------------
LEMMA IInvInit == Init => IInv
<1> SUFFICES ASSUME Init PROVE IInv
  OBVIOUS
<1> USE IdleFacts, StampFacts, MaxDestroysType DEF Init
<1>1. TypeOK
  BY DEF TypeOK
<1>2. StampsAreTrue /\ DestroyedIsGone
  BY DEF StampsAreTrue, DestroyedIsGone, NoDestroy
<1>3. PlanIsTrue /\ ObjectsAreGone
  BY DEF PlanIsTrue, ObjectsAreGone, NoSweep
<1>4. ReportIsTrue /\ AckedIsRecorded
  BY DEF ReportIsTrue, AckedIsRecorded, NoReport
<1>5. QED BY <1>1, <1>2, <1>3, <1>4 DEF IInv

LEMMA TypeOKNext == IInv /\ [Next]_vars => TypeOK'
<1> SUFFICES ASSUME IInv, [Next]_vars PROVE TypeOK'
  OBVIOUS
<1> USE DEF IInv, TypeOK, store
<1>1. ASSUME NEW sn \in Snapshot, Backup(sn) PROVE TypeOK'
  BY <1>1 DEF Backup
<1>2. ASSUME NEW s \in Server, WriteConfig(s) PROVE TypeOK'
  BY <1>2 DEF WriteConfig
<1>3. ASSUME NEW s \in Server, NEW sn \in Snapshot, Receive(s, sn) PROVE TypeOK'
  <2>1. report' \in [Server -> Reports]
    BY <1>3 DEF Receive, Reports
  <2>2. QED BY <1>3, <2>1 DEF Receive
<1>4. ASSUME NEW s \in Server, SaveRecord(s) PROVE TypeOK'
  <2>1. report' \in [Server -> Reports]
    BY <1>4, StepFacts DEF SaveRecord
  <2>2. record' \in [Snapshot -> Stamp \union {Unstamped, NoRecord}]
    BY <1>4 DEF SaveRecord
  <2>3. QED BY <1>4, <2>1, <2>2 DEF SaveRecord
<1>5. ASSUME NEW s \in Server, ReadServerIndex(s) PROVE TypeOK'
  <2>1. sidx \intersect Of(s) \in SUBSET Snapshot
    BY DEF Of
  <2>2. report' \in [Server -> Reports]
    BY <1>5, <2>1, StepFacts DEF ReadServerIndex
  <2>3. QED BY <1>5, <2>2 DEF ReadServerIndex
<1>6. ASSUME NEW s \in Server, WriteServerIndex(s) PROVE TypeOK'
  <2>1. report' \in [Server -> Reports]
    BY <1>6, StepFacts DEF WriteServerIndex
  <2>2. sidx' \subseteq taken
    BY <1>6 DEF WriteServerIndex, ReportIsTrue
  <2>3. QED BY <1>6, <2>1, <2>2 DEF WriteServerIndex
<1>7. ASSUME NEW s \in Server, ReadGlobalIndex(s) PROVE TypeOK'
  BY <1>7, StepFacts DEF ReadGlobalIndex
<1>8. ASSUME NEW s \in Server, WriteGlobalIndex(s) PROVE TypeOK'
  <2>1. report' \in [Server -> Reports]
    BY <1>8, StepFacts DEF WriteGlobalIndex
  <2>2. gidx' \subseteq Snapshot
    <3>1. report[s].sn \in Snapshot
      BY <1>8, OfType DEF WriteGlobalIndex, ReportIsTrue
    <3>2. report[s].copy \subseteq Snapshot
      BY DEF Reports
    <3>3. QED BY <1>8, <3>1, <3>2 DEF WriteGlobalIndex
  <2>3. QED BY <1>8, <2>1, <2>2 DEF WriteGlobalIndex
<1>9. ASSUME NEW s \in Server, Acknowledge(s) \/ Abort(s) PROVE TypeOK'
  BY <1>9, IdleFacts DEF Acknowledge, Abort, Answered
<1>10. ASSUME NEW s \in Server, DeleteServerConfig(s) PROVE TypeOK'
  <2>1. PICK ok \in BOOLEAN, k \in Stamp :
            /\ config' \subseteq config
            /\ \/ /\ destroy' = [destroy EXCEPT ![s] = [pc |-> "list", keys |-> {}, stamp |-> k]]
                  /\ stamps' = [stamps EXCEPT ![s] = @ \union {k}]
               \/ UNCHANGED <<destroy, stamps>>
    BY <1>10 DEF DeleteServerConfig
  <2>2. destroy' \in [Server -> Destroys]
    BY <2>1, MaxDestroysType DEF Destroys, Stamp
  <2>3. stamps' \in [Server -> SUBSET Stamp]
    BY <2>1
  <2>4. QED BY <1>10, <2>1, <2>2, <2>3 DEF DeleteServerConfig
<1>11. ASSUME NEW s \in Server, ListToStamp(s) PROVE TypeOK'
  <2>1. PICK found \in BulkReads(sidx \intersect Of(s)) :
            destroy' = [destroy EXCEPT ![s].pc = "stamp", ![s].keys = found]
    BY <1>11 DEF ListToStamp
  <2>2. found \in SUBSET Snapshot
    BY BulkFacts
  <2>3. destroy' \in [Server -> Destroys]
    BY <2>1, <2>2 DEF Destroys
  <2>4. QED BY <1>11, <2>3 DEF ListToStamp
<1>12. ASSUME NEW s \in Server, EndDestroy(s) PROVE TypeOK'
  BY <1>12, IdleFacts DEF EndDestroy
<1>13. ASSUME NEW s \in Server, NEW sn \in Snapshot, StampRecord(s, sn) PROVE TypeOK'
  <2>1. destroy[s].stamp \in Stamp
    BY <1>13 DEF StampRecord, StampsAreTrue
  <2>2. destroy' \in [Server -> Destroys]
    BY <1>13 DEF StampRecord, Destroys
  <2>3. QED BY <1>13, <2>1, <2>2 DEF StampRecord
<1>14. CASE PeriodEnds
  BY <1>14 DEF PeriodEnds
<1>15. ASSUME NEW found \in SUBSET Snapshot, StartSweep(found) PROVE TypeOK'
  BY <1>15 DEF StartSweep, NoSweep, Sweeps, Planned
<1>16. ASSUME NEW s \in Server, NEW ok \in BOOLEAN, DeletePrefix(s, ok) PROVE TypeOK'
  <2>1. sweep' \in Sweeps
    BY <1>16, NextServerFacts DEF DeletePrefix, AfterPrefix, Sweeps
  <2>2. repo' \subseteq taken
    BY <1>16 DEF DeletePrefix
  <2>3. QED BY <1>16, <2>1, <2>2 DEF DeletePrefix
<1>17. ASSUME NEW sn \in Snapshot, DeleteRecord(sn) PROVE TypeOK'
  BY <1>17 DEF DeleteRecord, Sweeps
<1>18. CASE CleanServer \/ SkipServer \/ EndSweep
  <2>1. CASE ListToDelete
    <3>1. PICK found \in BulkReads(sidx \intersect Of(sweep.at)) :
              sweep' = [sweep EXCEPT !.pc = "records", !.keys = found, !.all = found]
      BY <2>1 DEF ListToDelete
    <3>2. found \in SUBSET Snapshot
      BY BulkFacts
    <3>3. sweep' \in Sweeps
      BY <3>1, <3>2 DEF Sweeps
    <3>4. QED BY <2>1, <3>3 DEF ListToDelete
  <2>2. CASE DeleteServerIndex \/ ReadGlobal
    BY <2>2 DEF DeleteServerIndex, ReadGlobal, Sweeps
  <2>3. CASE WriteGlobal \/ SkipServer \/ EndSweep
    <3>1. sweep' \in Sweeps
      BY <2>3, NextServerFacts, IdleFacts DEF WriteGlobal, SkipServer, EndSweep
    <3>2. gidx' \subseteq Snapshot
      BY <2>3 DEF WriteGlobal, SkipServer, EndSweep, Sweeps
    <3>3. QED BY <2>3, <3>1, <3>2 DEF WriteGlobal, SkipServer, EndSweep
  <2>4. QED BY <1>18, <2>1, <2>2, <2>3 DEF CleanServer
<1>19. CASE UNCHANGED vars
  BY <1>19 DEF vars
<1>20. QED
  BY <1>1, <1>2, <1>3, <1>4, <1>5, <1>6, <1>7, <1>8, <1>9, <1>10, <1>11, <1>12,
     <1>13, <1>14, <1>15, <1>16, <1>17, <1>18, <1>19 DEF Next

(***************************************************************************)
(* Stamps: a destruction writes the stamp it was given, on records of its  *)
(* own server.                                                             *)
(***************************************************************************)
LEMMA StampsNext == IInv /\ [Next]_vars => StampsAreTrue'
<1> SUFFICES ASSUME IInv, [Next]_vars PROVE StampsAreTrue'
  OBVIOUS
<1> USE OfType, StampFacts DEF IInv, TypeOK, StampsAreTrue
<1>1. CASE UNCHANGED <<record, destroy, stamps>>
  BY <1>1 DEF Of
<1>2. ASSUME NEW s \in Server, SaveRecord(s) PROVE StampsAreTrue'
  BY <1>2 DEF SaveRecord, Of
<1>3. ASSUME NEW s \in Server, DeleteServerConfig(s) PROVE StampsAreTrue'
  <2>1. PICK k \in Stamp :
            \/ /\ destroy' = [destroy EXCEPT ![s] = [pc |-> "list", keys |-> {}, stamp |-> k]]
               /\ stamps' = [stamps EXCEPT ![s] = @ \union {k}]
            \/ UNCHANGED <<destroy, stamps>>
    BY <1>3 DEF DeleteServerConfig
  <2>2. record' = record
    BY <1>3 DEF DeleteServerConfig, store
  <2>3. \A r \in Server : stamps[r] \subseteq stamps'[r]
    BY <2>1
  <2>4. \A sn \in Snapshot : record'[sn] \in Stamp => record'[sn] \in stamps'[ServerOf[sn]]
    BY <2>2, <2>3
  <2>5. ASSUME NEW r \in Server
        PROVE  /\ destroy'[r].pc # "idle" => destroy'[r].stamp \in stamps'[r]
               /\ destroy'[r].keys \subseteq Of(r)
    BY <2>1, <2>3
  <2>6. QED BY <2>4, <2>5 DEF Of
<1>4. ASSUME NEW s \in Server, ListToStamp(s) PROVE StampsAreTrue'
  <2>1. PICK found \in BulkReads(sidx \intersect Of(s)) :
            destroy' = [destroy EXCEPT ![s].pc = "stamp", ![s].keys = found]
    BY <1>4 DEF ListToStamp
  <2>2. found \subseteq Of(s)
    BY BulkFacts
  <2>3. record' = record /\ stamps' = stamps
    BY <1>4 DEF ListToStamp, store
  <2>4. \A r \in Server : destroy'[r].stamp = destroy[r].stamp
    BY <2>1 DEF Destroys
  <2>5. destroy'[s].keys = found /\ destroy[s].pc # "idle"
    BY <1>4, <2>1 DEF ListToStamp, Destroys
  <2>6. \A r \in Server \ {s} : destroy'[r] = destroy[r]
    BY <2>1
  <2>7. QED BY <2>2, <2>3, <2>4, <2>5, <2>6 DEF Of
<1>5. ASSUME NEW s \in Server, NEW sn \in Snapshot, StampRecord(s, sn) PROVE StampsAreTrue'
  <2>1. ServerOf[sn] = s /\ destroy[s].stamp \in stamps[s]
    BY <1>5 DEF StampRecord, Of
  <2>2. stamps' = stamps /\ record' = [record EXCEPT ![sn] = destroy[s].stamp]
    BY <1>5 DEF StampRecord
  <2>3. \A r \in Server : /\ destroy'[r].pc = destroy[r].pc
                          /\ destroy'[r].stamp = destroy[r].stamp
                          /\ destroy'[r].keys \subseteq destroy[r].keys
    BY <1>5 DEF StampRecord, Destroys
  <2>4. QED BY <2>1, <2>2, <2>3 DEF Of
<1>6. ASSUME NEW s \in Server, EndDestroy(s) PROVE StampsAreTrue'
  BY <1>6 DEF EndDestroy, NoDestroy, store, Of
<1>7. ASSUME NEW sn \in Snapshot, DeleteRecord(sn) PROVE StampsAreTrue'
  BY <1>7 DEF DeleteRecord, Of
<1>8. QED
  BY <1>1, <1>2, <1>3, <1>4, <1>5, <1>6, <1>7
     DEF Next, vars, store, Backup, WriteConfig, Receive, ReadServerIndex, WriteServerIndex,
         ReadGlobalIndex, WriteGlobalIndex, Acknowledge, Abort, Answered, PeriodEnds, StartSweep,
         DeletePrefix, CleanServer, ListToDelete, DeleteServerIndex, ReadGlobal, WriteGlobal,
         SkipServer, EndSweep

\* Stamps are only added and time only goes on.
LEMMA OverGrows ==
    ASSUME IInv, [Next]_vars, NEW s \in Server, Over(s)
    PROVE  Over(s)'
<1> USE DEF IInv, TypeOK
<1>1. stamps[s] \subseteq stamps'[s]
  <2>1. ASSUME NEW r \in Server, DeleteServerConfig(r) PROVE stamps[s] \subseteq stamps'[s]
    BY <2>1 DEF DeleteServerConfig
  <2>2. CASE UNCHANGED stamps
    BY <2>2
  <2>3. QED
    BY <2>1, <2>2
       DEF Next, vars, store, Backup, WriteConfig, Receive, SaveRecord, ReadServerIndex,
           WriteServerIndex, ReadGlobalIndex, WriteGlobalIndex, Acknowledge, Abort, Answered,
           ListToStamp, EndDestroy, StampRecord, PeriodEnds, StartSweep, DeletePrefix,
           DeleteRecord, CleanServer, ListToDelete, DeleteServerIndex, ReadGlobal, WriteGlobal,
           SkipServer, EndSweep
<1>2. clock' = clock \/ clock' = clock + 1
  BY DEF Next, vars, store, Backup, WriteConfig, Receive, SaveRecord, ReadServerIndex,
         WriteServerIndex, ReadGlobalIndex, WriteGlobalIndex, Acknowledge, Abort, Answered,
         DeleteServerConfig, ListToStamp, EndDestroy, StampRecord, PeriodEnds, StartSweep,
         DeletePrefix, DeleteRecord, CleanServer, ListToDelete, DeleteServerIndex, ReadGlobal,
         WriteGlobal, SkipServer, EndSweep
<1>3. PICK k \in stamps[s] : k <= clock
  BY DEF Over
<1>4. k \in Nat /\ clock \in Nat
  BY StampFacts
<1>5. k <= clock'
  BY <1>2, <1>3, <1>4
<1>6. QED BY <1>1, <1>3, <1>5 DEF Over

(***************************************************************************)
(* The sweep's plan.                                                       *)
(***************************************************************************)
LEMMA PlannedIsOver ==
    ASSUME IInv, NEW found, NEW s \in Planned(found)
    PROVE  s \in Server /\ Over(s)
<1> USE DEF IInv, TypeOK
<1>1. PICK sn \in found \intersect Stamped \intersect Of(s) : record[sn] <= clock
  BY DEF Planned, AllExpired
<1>2. record[sn] \in stamps[s]
  BY <1>1 DEF StampsAreTrue, Stamped, Of
<1>3. QED BY <1>1, <1>2 DEF Planned, Over

LEMMA PlanNext == IInv /\ [Next]_vars => PlanIsTrue'
<1> SUFFICES ASSUME IInv, [Next]_vars PROVE PlanIsTrue'
  OBVIOUS
<1> USE OverGrows DEF PlanIsTrue
<1>1. sweep \in Sweeps /\ PlanIsTrue
  BY DEF IInv, TypeOK
<1>2. CASE UNCHANGED sweep
  <2>1. sweep.plan \subseteq Server
    BY <1>1 DEF Sweeps
  <2>2. QED BY <1>1, <1>2, <2>1
<1>3. ASSUME NEW found \in SUBSET Snapshot, StartSweep(found) PROVE PlanIsTrue'
  <2>1. sweep'.pc = "next" /\ sweep'.plan = Planned(found)
    BY <1>3 DEF StartSweep, NoSweep
  <2>2. QED BY <2>1, PlannedIsOver
<1>4. ASSUME NEW s \in Server, NEW ok \in BOOLEAN, DeletePrefix(s, ok) PROVE PlanIsTrue'
  <2>1. sweep'.plan \subseteq sweep.plan /\ (sweep'.pc = "next" \/ sweep'.at = s)
    BY <1>1, <1>4, NextServerFacts DEF DeletePrefix, AfterPrefix, Sweeps
  <2>2. s \in sweep.plan /\ sweep.plan \subseteq Server
    BY <1>1, <1>4 DEF DeletePrefix, Sweeps
  <2>3. QED BY <1>1, <2>1, <2>2
<1>5. CASE ListToDelete \/ DeleteServerIndex \/ ReadGlobal \/ \E sn \in Snapshot : DeleteRecord(sn)
  <2>1. /\ sweep'.plan = sweep.plan /\ sweep'.at = sweep.at
        /\ sweep.pc \in {"list", "records", "gread"}
    BY <1>1, <1>5 DEF ListToDelete, DeleteServerIndex, ReadGlobal, DeleteRecord, Sweeps
  <2>2. sweep.plan \subseteq Server
    BY <1>1 DEF Sweeps
  <2>3. QED BY <1>1, <2>1, <2>2
<1>6. CASE WriteGlobal \/ SkipServer
  <2>1. sweep'.plan = sweep.plan /\ sweep'.pc = "next" /\ sweep.plan \subseteq Server
    BY <1>1, <1>6, NextServerFacts DEF WriteGlobal, SkipServer, Sweeps
  <2>2. QED BY <1>1, <2>1
<1>7. CASE EndSweep
  BY <1>7 DEF EndSweep, NoSweep
<1>8. QED
  BY <1>2, <1>3, <1>4, <1>5, <1>6, <1>7
     DEF Next, vars, store, Backup, WriteConfig, Receive, SaveRecord, ReadServerIndex,
         WriteServerIndex, ReadGlobalIndex, WriteGlobalIndex, Acknowledge, Abort, Answered,
         DeleteServerConfig, ListToStamp, EndDestroy, StampRecord, PeriodEnds, CleanServer

(***************************************************************************)
(* Configs: a server is destroyed for good.                                *)
(***************************************************************************)
LEMMA DestroyedNext == IInv /\ [Next]_vars => DestroyedIsGone'
<1> SUFFICES ASSUME IInv, [Next]_vars PROVE DestroyedIsGone'
  OBVIOUS
<1> USE DEF IInv, TypeOK, DestroyedIsGone
<1>1. CASE UNCHANGED <<config, stamps>>
  BY <1>1
<1>2. ASSUME NEW s \in Server, WriteConfig(s) PROVE DestroyedIsGone'
  BY <1>2 DEF WriteConfig
<1>3. ASSUME NEW s \in Server, DeleteServerConfig(s) PROVE DestroyedIsGone'
  <2>1. config' \subseteq config /\ (UNCHANGED stamps \/ config' = config \ {s})
    BY <1>3 DEF DeleteServerConfig, AfterDelete
  <2>2. \A r \in Server \ {s} : stamps'[r] = stamps[r]
    BY <1>3 DEF DeleteServerConfig
  <2>3. QED BY <2>1, <2>2
<1>4. QED
  BY <1>1, <1>2, <1>3
     DEF Next, vars, store, Backup, Receive, SaveRecord, ReadServerIndex,
         WriteServerIndex, ReadGlobalIndex, WriteGlobalIndex, Acknowledge, Abort, Answered,
         ListToStamp, EndDestroy, StampRecord, PeriodEnds, StartSweep, DeletePrefix,
         DeleteRecord, CleanServer, ListToDelete, DeleteServerIndex, ReadGlobal, WriteGlobal,
         SkipServer, EndSweep

(***************************************************************************)
(* Objects: a sweep that deletes records has deleted the objects before,   *)
(* and a destroyed server gets no new ones.                                *)
(***************************************************************************)
LEMMA ObjectsNext == IInv /\ [Next]_vars => ObjectsAreGone'
<1> SUFFICES ASSUME IInv, [Next]_vars PROVE ObjectsAreGone'
  OBVIOUS
<1>1. sweep \in Sweeps /\ ObjectsAreGone /\ repo \subseteq Snapshot
  BY DEF IInv, TypeOK
<1>2. CASE UNCHANGED <<repo, sweep>>
  BY <1>1, <1>2 DEF ObjectsAreGone, Of
<1>3. ASSUME NEW sn \in Snapshot, Backup(sn) PROVE ObjectsAreGone'
  <2>1. sweep' = sweep /\ repo' = repo \union {sn} /\ ServerOf[sn] \in config
    BY <1>3 DEF Backup
  <2>2. ASSUME sweep.pc \notin {"idle", "next"}, sweep.at \notin Updated
        PROVE  sn \notin Of(sweep.at)
    <3>1. sweep.at \in Server /\ stamps[sweep.at] # {}
      BY <1>1, <2>2 DEF IInv, PlanIsTrue, Over, Sweeps
    <3>2. sweep.at \notin config
      BY <2>2, <3>1 DEF IInv, DestroyedIsGone
    <3>3. QED BY <2>1, <3>2 DEF Of
  <2>3. QED BY <1>1, <2>1, <2>2 DEF ObjectsAreGone, Of
<1>4. ASSUME NEW s \in Server, NEW ok \in BOOLEAN, DeletePrefix(s, ok) PROVE ObjectsAreGone'
  <2>1. sweep'.keys = {} /\ sweep'.all = {}
    BY <1>1, <1>4, NextServerFacts DEF DeletePrefix, AfterPrefix, Sweeps
  <2>2. CASE ok
    <3>1. sweep'.at = s /\ repo' = repo \ Of(s)
      BY <1>1, <1>4, <2>2, NextServerFacts DEF DeletePrefix, AfterPrefix, Sweeps
    <3>2. QED BY <2>1, <3>1 DEF ObjectsAreGone, Of
  <2>3. CASE ~ok
    <3>1. sweep'.pc = "next"
      BY <1>1, <1>4, <2>3, NextServerFacts DEF DeletePrefix, AfterPrefix, Sweeps
    <3>2. QED BY <2>1, <3>1 DEF ObjectsAreGone
  <2>4. QED BY <2>2, <2>3
<1>5. CASE ListToDelete
  <2>1. PICK found \in BulkReads(sidx \intersect Of(sweep.at)) :
            sweep' = [sweep EXCEPT !.pc = "records", !.keys = found, !.all = found]
    BY <1>5 DEF ListToDelete
  <2>2. found \subseteq Of(sweep.at)
    BY BulkFacts
  <2>3. /\ sweep.pc = "list" /\ sweep'.at = sweep.at /\ sweep'.pc = "records"
        /\ sweep'.keys = found /\ sweep'.all = found
    BY <1>1, <1>5, <2>1 DEF ListToDelete, Sweeps
  <2>4. repo' = repo
    BY <1>5 DEF ListToDelete
  <2>5. QED BY <1>1, <2>2, <2>3, <2>4 DEF ObjectsAreGone, Of
<1>6. ASSUME NEW sn \in Snapshot, DeleteRecord(sn) PROVE ObjectsAreGone'
  <2>1. /\ sweep'.at = sweep.at /\ sweep'.pc = sweep.pc /\ sweep'.keys \subseteq sweep.keys
        /\ sweep'.all = sweep.all /\ sweep.pc = "records" /\ repo' = repo
    BY <1>1, <1>6 DEF DeleteRecord, Sweeps
  <2>2. QED BY <1>1, <2>1 DEF ObjectsAreGone, Of
<1>7. CASE DeleteServerIndex \/ ReadGlobal
  <2>1. sweep'.keys = sweep.keys /\ sweep.keys = {}
    BY <1>1, <1>7 DEF DeleteServerIndex, ReadGlobal, Sweeps, ObjectsAreGone
  <2>2. /\ sweep.pc \in {"records", "gread"} /\ sweep'.pc \in {"gread", "gwrite"}
        /\ sweep'.at = sweep.at /\ sweep'.all = sweep.all /\ repo' = repo
    BY <1>1, <1>7 DEF DeleteServerIndex, ReadGlobal, Sweeps
  <2>3. QED BY <1>1, <2>1, <2>2 DEF ObjectsAreGone, Of
<1>8. ASSUME NEW found \in SUBSET Snapshot, StartSweep(found) PROVE ObjectsAreGone'
  BY <1>8 DEF StartSweep, NoSweep, ObjectsAreGone
<1>9. CASE WriteGlobal \/ SkipServer \/ EndSweep
  BY <1>1, <1>9, NextServerFacts DEF WriteGlobal, SkipServer, EndSweep, NoSweep, ObjectsAreGone
<1>10. QED
  BY <1>2, <1>3, <1>4, <1>5, <1>6, <1>7, <1>8, <1>9
     DEF Next, vars, store, WriteConfig, Receive, SaveRecord, ReadServerIndex,
         WriteServerIndex, ReadGlobalIndex, WriteGlobalIndex, Acknowledge, Abort, Answered,
         DeleteServerConfig, ListToStamp, EndDestroy, StampRecord, PeriodEnds, CleanServer

-----------------------------------------------------------------------------
(***************************************************************************)
(* What a step leaves of the record and of the index entry of a snapshot   *)
(* whose objects exist.                                                    *)
(***************************************************************************)
LEMMA NewObjects ==
    ASSUME IInv, [Next]_vars
    PROVE  taken \subseteq taken' /\ repo' \intersect taken \subseteq repo
<1>1. repo \subseteq taken
  BY DEF IInv, TypeOK
<1>2. QED
  BY <1>1 DEF Next, vars, store, Backup, WriteConfig, Receive, SaveRecord, ReadServerIndex,
         WriteServerIndex, ReadGlobalIndex, WriteGlobalIndex, Acknowledge, Abort, Answered,
         DeleteServerConfig, ListToStamp, EndDestroy, StampRecord, PeriodEnds, StartSweep,
         DeletePrefix, DeleteRecord, CleanServer, ListToDelete, DeleteServerIndex, ReadGlobal,
         WriteGlobal, SkipServer, EndSweep

LEMMA RecordStays ==
    ASSUME IInv, [Next]_vars, NEW sn \in repo, ServerOf[sn] \notin Updated, sn \in Recorded
    PROVE  sn \in Recorded'
<1> USE StampFacts DEF IInv, TypeOK, Recorded
<1>1. CASE UNCHANGED record
  BY <1>1
<1>2. ASSUME NEW s \in Server, SaveRecord(s) PROVE sn \in Recorded'
  BY <1>2 DEF SaveRecord
<1>3. ASSUME NEW s \in Server, NEW x \in Snapshot, StampRecord(s, x) PROVE sn \in Recorded'
  <2>1. destroy[s].stamp \in Stamp
    BY <1>3 DEF StampRecord, StampsAreTrue
  <2>2. QED BY <1>3, <2>1 DEF StampRecord
<1>4. ASSUME NEW x \in Snapshot, DeleteRecord(x) PROVE sn \in Recorded'
  <2>1. x \in Of(sweep.at) /\ sweep.pc = "records"
    BY <1>4 DEF DeleteRecord, ObjectsAreGone
  <2>2. x # sn
    BY <2>1 DEF ObjectsAreGone, Of
  <2>3. QED BY <1>4, <2>2 DEF DeleteRecord
<1>5. QED
  BY <1>1, <1>2, <1>3, <1>4
     DEF Next, vars, store, Backup, WriteConfig, Receive, ReadServerIndex, WriteServerIndex,
         ReadGlobalIndex, WriteGlobalIndex, Acknowledge, Abort, Answered, DeleteServerConfig,
         ListToStamp, EndDestroy, PeriodEnds, StartSweep, DeletePrefix, CleanServer,
         ListToDelete, DeleteServerIndex, ReadGlobal, WriteGlobal, SkipServer, EndSweep

LEMMA IndexStays ==
    ASSUME IInv, [Next]_vars, NEW sn \in repo, ServerOf[sn] \notin Updated, sn \in sidx
    PROVE  sn \in sidx'
<1> USE DEF IInv, TypeOK
<1>1. CASE UNCHANGED sidx
  BY <1>1
<1>2. ASSUME NEW s \in Server, WriteServerIndex(s) PROVE sn \in sidx'
  <2>1. sn \in Of(s) => sn \in report[s].copy
    BY <1>2 DEF WriteServerIndex, ReportIsTrue, Of
  <2>2. QED BY <1>2, <2>1 DEF WriteServerIndex
<1>3. CASE DeleteServerIndex
  <2>1. sn \notin Of(sweep.at)
    BY <1>3 DEF DeleteServerIndex, ObjectsAreGone, Of
  <2>2. QED BY <1>3, <2>1 DEF DeleteServerIndex
<1>4. QED
  BY <1>1, <1>2, <1>3
     DEF Next, vars, store, Backup, WriteConfig, Receive, SaveRecord, ReadServerIndex,
         ReadGlobalIndex, WriteGlobalIndex, Acknowledge, Abort, Answered, DeleteServerConfig,
         ListToStamp, EndDestroy, StampRecord, PeriodEnds, StartSweep, DeletePrefix,
         DeleteRecord, CleanServer, ListToDelete, ReadGlobal, WriteGlobal, SkipServer, EndSweep

(***************************************************************************)
(* Reports.  A handler that stays where it is keeps what it has stored.    *)
(***************************************************************************)
\* What ReportIsTrue says of the handler of one server.
HandlerIsTrue(s) ==
    /\ report[s].pc # "idle" => report[s].sn \in Of(s) \intersect taken
    /\ report[s].pc = "swrite" => report[s].copy \subseteq Of(s) \intersect taken
    /\ s \notin Updated =>
           /\ report[s].pc \notin {"idle", "save"} /\ report[s].sn \in repo =>
                  report[s].sn \in Recorded
           /\ report[s].pc = "swrite" => (sidx \intersect Of(s) \intersect repo) \subseteq report[s].copy
           /\ report[s].pc \in {"gread", "gwrite", "reply"} /\ report[s].sn \in repo =>
                  report[s].sn \in sidx

LEMMA HandlerStays ==
    ASSUME IInv, [Next]_vars, NEW s \in Server, report'[s] = report[s],
           \A sn \in Of(s) : sn \in sidx' => sn \in sidx
    PROVE  HandlerIsTrue(s)'
<1>1. HandlerIsTrue(s)
  BY DEF IInv, ReportIsTrue, HandlerIsTrue
<1>2. taken \subseteq taken' /\ repo' \intersect taken \subseteq repo
  BY NewObjects
<1>3. sidx \subseteq taken
  BY DEF IInv, TypeOK
<1>4. \A sn \in Of(s) : ServerOf[sn] = s
  BY DEF Of
<1>5. ASSUME s \notin Updated, report[s].pc # "idle", report[s].sn \in repo'
      PROVE  /\ report[s].sn \in Recorded => report[s].sn \in Recorded'
             /\ report[s].sn \in sidx => report[s].sn \in sidx'
             /\ report[s].sn \in repo
  <2>1. report[s].sn \in repo /\ ServerOf[report[s].sn] = s
    BY <1>1, <1>2, <1>4, <1>5 DEF HandlerIsTrue
  <2>2. QED BY <1>5, <2>1, RecordStays, IndexStays
<1>6. (sidx \intersect Of(s) \intersect repo)' \subseteq sidx \intersect Of(s) \intersect repo
  BY <1>2, <1>3 DEF Of
<1>7. QED BY <1>1, <1>2, <1>5, <1>6 DEF HandlerIsTrue, Of

\* The handlers of other servers do not touch this server's index.
LEMMA OthersStay ==
    ASSUME IInv, [Next]_vars, NEW s \in Server, NEW r \in Server \ {s},
           report'[r] = report[r], UNCHANGED sidx \/ WriteServerIndex(s)
    PROVE  HandlerIsTrue(r)'
<1>1. \A sn \in Of(r) : sn \in sidx' => sn \in sidx
  BY DEF WriteServerIndex, IInv, ReportIsTrue, Of
<1>2. QED BY <1>1, HandlerStays

LEMMA ReportNext == IInv /\ [Next]_vars => ReportIsTrue'
<1> SUFFICES ASSUME IInv, [Next]_vars PROVE ReportIsTrue'
  OBVIOUS
<1>1. report \in [Server -> Reports] /\ ReportIsTrue /\ repo \subseteq Snapshot /\ sidx \subseteq taken
  BY DEF IInv, TypeOK
<1>2. SUFFICES ASSUME NEW r \in Server PROVE HandlerIsTrue(r)'
  BY DEF ReportIsTrue, HandlerIsTrue
<1>3. HandlerIsTrue(r)
  BY <1>1 DEF ReportIsTrue, HandlerIsTrue
<1>4. CASE report' = report /\ sidx' \subseteq sidx
  BY <1>4, HandlerStays
<1>5. ASSUME NEW s \in Server, NEW sn \in Snapshot, Receive(s, sn) PROVE HandlerIsTrue(r)'
  <2>1. CASE r = s
    <3>1. report'[r].pc = "save" /\ report'[r].sn = sn /\ taken' = taken /\ sn \in queue \intersect Of(s)
      BY <1>1, <1>5, <2>1 DEF Receive
    <3>2. sn \in Of(r) \intersect taken
      BY <2>1, <3>1 DEF IInv, TypeOK
    <3>3. QED BY <3>1, <3>2 DEF HandlerIsTrue, Of
  <2>2. CASE r # s
    BY <1>1, <1>5, <2>2, OthersStay DEF Receive, store
  <2>3. QED BY <2>1, <2>2
<1>6. ASSUME NEW s \in Server, SaveRecord(s) PROVE HandlerIsTrue(r)'
  <2>1. CASE r = s
    <3>1. /\ report'[r].pc = "sread" /\ report'[r].sn = report[r].sn
          /\ record'[report[r].sn] = Unstamped /\ taken' = taken
      BY <1>1, <1>3, <1>6, <2>1, StepFacts DEF SaveRecord, HandlerIsTrue, IInv, TypeOK, Of
    <3>2. report[r].sn \in Of(r) \intersect taken
      BY <1>3, <1>6, <2>1 DEF SaveRecord, HandlerIsTrue
    <3>3. QED BY <3>1, <3>2, StampFacts DEF HandlerIsTrue, Of, Recorded
  <2>2. CASE r # s
    BY <1>1, <1>6, <2>2, StepFacts, OthersStay DEF SaveRecord
  <2>3. QED BY <2>1, <2>2
<1>7. ASSUME NEW s \in Server, ReadServerIndex(s) PROVE HandlerIsTrue(r)'
  <2>1. UNCHANGED <<taken, repo, record, sidx>>
    BY <1>7 DEF ReadServerIndex, store
  <2>2. CASE r = s
    <3>1. sidx \intersect Of(s) \in SUBSET Snapshot
      BY DEF Of
    <3>2. /\ report'[r].sn = report[r].sn
          /\ \/ report'[r].pc = "gread" /\ report[r].sn \in sidx
             \/ report'[r].pc = "swrite" /\ report'[r].copy = sidx \intersect Of(r)
      BY <1>1, <1>7, <2>2, <3>1, StepFacts DEF ReadServerIndex
    <3>3. QED BY <1>1, <1>3, <1>7, <2>1, <2>2, <3>2 DEF ReadServerIndex, HandlerIsTrue, Of, Recorded
  <2>3. CASE r # s
    <3>1. report'[r] = report[r]
      BY <1>1, <1>7, <2>3 DEF ReadServerIndex, Step
    <3>2. QED BY <2>1, <2>3, <3>1, OthersStay
  <2>4. QED BY <2>2, <2>3
<1>8. ASSUME NEW s \in Server, WriteServerIndex(s) PROVE HandlerIsTrue(r)'
  <2>1. CASE r = s
    <3>1. report'[r].pc = "gread" /\ report'[r].sn = report[r].sn /\ report[r].sn \in sidx'
      BY <1>1, <1>8, <2>1, StepFacts DEF WriteServerIndex
    <3>2. QED BY <1>3, <1>8, <2>1, <3>1 DEF WriteServerIndex, HandlerIsTrue, Of, Recorded
  <2>2. CASE r # s
    BY <1>1, <1>8, <2>2, StepFacts, OthersStay DEF WriteServerIndex
  <2>3. QED BY <2>1, <2>2
<1>9. ASSUME NEW s \in Server, ReadGlobalIndex(s) \/ WriteGlobalIndex(s) PROVE HandlerIsTrue(r)'
  <2>1. /\ UNCHANGED <<taken, repo, record, sidx>>
        /\ report[s].pc \in {"gread", "gwrite"}
    BY <1>9 DEF ReadGlobalIndex, WriteGlobalIndex, store
  <2>2. /\ report'[s].pc \in {"gwrite", "reply"} /\ report'[s].sn = report[s].sn
        /\ \A q \in Server \ {s} : report'[q] = report[q]
    <3>1. gidx \in SUBSET Snapshot
      BY DEF IInv, TypeOK
    <3>2. QED BY <1>1, <1>9, <3>1, StepFacts DEF ReadGlobalIndex, WriteGlobalIndex
  <2>3. CASE r = s
    BY <1>3, <2>1, <2>2, <2>3 DEF HandlerIsTrue, Of, Recorded
  <2>4. CASE r # s
    BY <2>1, <2>2, <2>4, OthersStay
  <2>5. QED BY <2>3, <2>4
<1>10. ASSUME NEW s \in Server, Acknowledge(s) \/ Abort(s) PROVE HandlerIsTrue(r)'
  <2>1. report' = [report EXCEPT ![s] = NoReport] /\ sidx' = sidx
    BY <1>10 DEF Acknowledge, Abort, Answered, store
  <2>2. CASE r = s
    BY <1>1, <2>1, <2>2 DEF NoReport, HandlerIsTrue
  <2>3. CASE r # s
    BY <1>1, <2>1, <2>3, OthersStay
  <2>4. QED BY <2>2, <2>3
<1>11. QED
  BY <1>4, <1>5, <1>6, <1>7, <1>8, <1>9, <1>10
     DEF Next, vars, store, Backup, WriteConfig, DeleteServerConfig, ListToStamp, EndDestroy,
         StampRecord, PeriodEnds, StartSweep, DeletePrefix, DeleteRecord, CleanServer,
         ListToDelete, DeleteServerIndex, ReadGlobal, WriteGlobal, SkipServer, EndSweep

LEMMA AckedNext == IInv /\ [Next]_vars => AckedIsRecorded'
<1> SUFFICES ASSUME IInv, [Next]_vars, NEW sn \in acked' \intersect repo', ServerOf[sn] \notin Updated
             PROVE  sn \in Recorded' /\ sn \in sidx'
  BY DEF AckedIsRecorded
<1>1. acked \subseteq taken
  BY DEF IInv, TypeOK
<1>2. CASE sn \in acked
  <2>1. sn \in repo
    BY <1>1, <1>2, NewObjects
  <2>2. sn \in Recorded /\ sn \in sidx
    BY <1>2, <2>1 DEF IInv, AckedIsRecorded
  <2>3. QED BY <2>1, <2>2, RecordStays, IndexStays
<1>3. ASSUME NEW s \in Server, Acknowledge(s), sn \notin acked PROVE sn \in Recorded' /\ sn \in sidx'
  <2>1. sn = report[s].sn /\ report[s].pc = "reply" /\ repo' = repo /\ record' = record /\ sidx' = sidx
    BY <1>3 DEF Acknowledge, Answered, Removed, store
  <2>2. ServerOf[sn] = s
    BY <2>1 DEF IInv, ReportIsTrue, Of
  <2>3. sn \in Recorded /\ sn \in sidx
    BY <2>1, <2>2 DEF IInv, ReportIsTrue
  <2>4. QED BY <2>1, <2>3 DEF Recorded
<1>4. ASSUME NEW s \in Server, Abort(s) PROVE acked' = acked
  BY <1>4 DEF Abort, Answered, Removed
<1>5. CASE acked' = acked
  BY <1>2, <1>5
<1>6. QED
  BY <1>2, <1>3, <1>4, <1>5
     DEF Next, vars, store, Backup, WriteConfig, Receive, SaveRecord, ReadServerIndex,
         WriteServerIndex, ReadGlobalIndex, WriteGlobalIndex, DeleteServerConfig,
         ListToStamp, EndDestroy, StampRecord, PeriodEnds, StartSweep, DeletePrefix,
         DeleteRecord, CleanServer, ListToDelete, DeleteServerIndex, ReadGlobal, WriteGlobal,
         SkipServer, EndSweep

-----------------------------------------------------------------------------
(***************************************************************************)
(* Stamps, plans, configs, objects, reports and acknowledgements agree in  *)
(* every reachable state.                                                  *)
(***************************************************************************)
THEOREM CatalogInvariant == Spec => []IInv
<1>1. IInv /\ [Next]_vars => IInv'
  BY TypeOKNext, StampsNext, PlanNext, DestroyedNext, ObjectsNext, ReportNext, AckedNext DEF IInv
<1>2. QED BY IInvInit, <1>1, PTL DEF Spec

\* The objects of a server are deleted only by the sweep, by its plan.
LEMMA ObjectsLeave ==
    ASSUME IInv, [Next]_vars, NEW sn \in repo \ repo'
    PROVE  sn \in Snapshot /\ ServerOf[sn] \in sweep.plan /\ UNCHANGED <<config, stamps, clock>>
<1>1. repo \subseteq Snapshot
  BY DEF IInv, TypeOK
<1>2. \E s \in Server, ok \in BOOLEAN : DeletePrefix(s, ok)
  BY DEF Next, vars, store, Backup, WriteConfig, Receive, SaveRecord, ReadServerIndex,
         WriteServerIndex, ReadGlobalIndex, WriteGlobalIndex, Acknowledge, Abort, Answered,
         DeleteServerConfig, ListToStamp, EndDestroy, StampRecord, PeriodEnds, StartSweep,
         DeleteRecord, CleanServer, ListToDelete, DeleteServerIndex, ReadGlobal, WriteGlobal,
         SkipServer, EndSweep
<1>3. QED BY <1>1, <1>2 DEF DeletePrefix, Of

(***************************************************************************)
(* Whatever is destroyed, updated, reported and swept at the same time,    *)
(* objects disappear only after a retention period of their server.        *)
(***************************************************************************)
THEOREM Retention == Spec => RetentionIsHonoured
<1>1. IInv /\ [Next]_vars => [\A sn \in repo \ repo' : Over(ServerOf[sn])]_vars
  BY ObjectsLeave DEF IInv, PlanIsTrue
<1>2. QED BY <1>1, CatalogInvariant, PTL DEF Spec, RetentionIsHonoured

(***************************************************************************)
(* A server that exists keeps its backups, unless an update has brought    *)
(* its config back.                                                        *)
(***************************************************************************)
THEOREM LiveIsSpared == Spec => SweepSparesLive
<1>1. IInv /\ [Next]_vars =>
          [\A sn \in repo \ repo' : ServerOf[sn] \in config => ServerOf[sn] \in Updated]_vars
  <2> SUFFICES ASSUME IInv, [Next]_vars, NEW sn \in repo \ repo', ServerOf[sn] \in config
               PROVE  ServerOf[sn] \in Updated
    OBVIOUS
  <2>1. stamps[ServerOf[sn]] # {} /\ ServerOf[sn] \in Server
    BY ObjectsLeave, OfType DEF IInv, PlanIsTrue, Over
  <2>2. QED BY <2>1 DEF IInv, DestroyedIsGone
<1>2. QED BY <1>1, CatalogInvariant, PTL DEF Spec, SweepSparesLive

(***************************************************************************)
(* A record is deleted only when its server has no objects any more.       *)
(***************************************************************************)
THEOREM ObjectsFirst == Spec => ObjectsGoFirst
<1>1. IInv /\ [Next]_vars =>
          [\A sn \in Recorded : record'[sn] = NoRecord =>
               ServerOf[sn] \in Updated \/ repo \intersect Of(ServerOf[sn]) = {}]_vars
  <2> SUFFICES ASSUME IInv, [Next]_vars, NEW sn \in Recorded, record'[sn] = NoRecord
               PROVE  ServerOf[sn] \in Updated \/ repo \intersect Of(ServerOf[sn]) = {}
    OBVIOUS
  <2> USE StampFacts DEF IInv, TypeOK, Recorded
  <2>1. CASE UNCHANGED record
    BY <2>1
  <2>2. ASSUME NEW s \in Server, SaveRecord(s) PROVE FALSE
    BY <2>2 DEF SaveRecord
  <2>3. ASSUME NEW s \in Server, NEW x \in Snapshot, StampRecord(s, x) PROVE FALSE
    <3>1. destroy[s].stamp \in Stamp
      BY <2>3 DEF StampRecord, StampsAreTrue
    <3>2. QED BY <2>3, <3>1 DEF StampRecord
  <2>4. ASSUME NEW x \in Snapshot, DeleteRecord(x)
        PROVE  ServerOf[sn] \in Updated \/ repo \intersect Of(ServerOf[sn]) = {}
    <3>1. x = sn /\ sn \in Of(sweep.at) /\ sweep.pc = "records"
      BY <2>4 DEF DeleteRecord, ObjectsAreGone
    <3>2. ServerOf[sn] = sweep.at
      BY <3>1 DEF Of
    <3>3. QED BY <3>1, <3>2 DEF ObjectsAreGone
  <2>5. QED
    BY <2>1, <2>2, <2>3, <2>4
       DEF Next, vars, store, Backup, WriteConfig, Receive, ReadServerIndex, WriteServerIndex,
           ReadGlobalIndex, WriteGlobalIndex, Acknowledge, Abort, Answered, DeleteServerConfig,
           ListToStamp, EndDestroy, PeriodEnds, StartSweep, DeletePrefix, CleanServer,
           ListToDelete, DeleteServerIndex, ReadGlobal, WriteGlobal, SkipServer, EndSweep
<1>2. QED BY <1>1, CatalogInvariant, PTL DEF Spec, ObjectsGoFirst

(***************************************************************************)
(* No acknowledged snapshot is missing from its server's catalog while its *)
(* objects exist.                                                          *)
(***************************************************************************)
THEOREM AcknowledgedIsRecorded == Spec => []AckedIsRecorded
  BY CatalogInvariant, PTL DEF IInv

-----------------------------------------------------------------------------
(***************************************************************************)
(* The global index.  A step of anyone but its writers keeps what they     *)
(* have read and stored; a writer that is alone writes what it has read.   *)
(***************************************************************************)
\* What a step leaves of the snapshots whose objects exist.
Keeps == \A sn \in gidx \intersect repo' : ServerOf[sn] \notin Updated => sn \in gidx'

LEMMA OneWriterKeeps ==
    ASSUME IInv, OneWriterInv, [Next]_vars PROVE Keeps
<1>1. ASSUME NEW s \in Server, WriteGlobalIndex(s) PROVE Keeps
  BY <1>1 DEF WriteGlobalIndex, OneWriterInv, Keeps
<1>2. CASE WriteGlobal
  <2>1. /\ gidx' = gidx \ sweep.all /\ repo' = repo /\ sweep.pc = "gwrite"
        /\ \A sn \in sweep.all : ServerOf[sn] = sweep.at
    BY <1>2 DEF WriteGlobal, OneWriterInv, IInv, ObjectsAreGone, Of
  <2>2. \A sn \in sweep.all \intersect repo : ServerOf[sn] \in Updated
    BY <2>1 DEF IInv, ObjectsAreGone
  <2>3. QED BY <2>1, <2>2 DEF Keeps
<1>3. CASE UNCHANGED gidx
  BY <1>3 DEF Keeps
<1>4. QED
  BY <1>1, <1>2, <1>3
     DEF Next, vars, store, Backup, WriteConfig, Receive, SaveRecord, ReadServerIndex,
         WriteServerIndex, ReadGlobalIndex, Acknowledge, Abort, Answered, DeleteServerConfig,
         ListToStamp, EndDestroy, StampRecord, PeriodEnds, StartSweep, DeletePrefix,
         DeleteRecord, CleanServer, ListToDelete, DeleteServerIndex, ReadGlobal, SkipServer,
         EndSweep

\* The index changes only when its one writer is done with it.
LEMMA WritersHaveCopies ==
    ASSUME IInv, OneWriter, OneWriterInv, [Next]_vars
    PROVE  /\ \A s \in Server : report'[s].pc = "gwrite" => report'[s].copy = gidx'
           /\ sweep'.pc = "gwrite" => sweep'.copy = gidx'
<1> DEFINE Copies == /\ \A s \in Server : report'[s].pc = "gwrite" => report'[s].copy = gidx'
                     /\ sweep'.pc = "gwrite" => sweep'.copy = gidx'
<1>1. report \in [Server -> Reports] /\ sweep \in Sweeps /\ gidx \in SUBSET Snapshot
  BY DEF IInv, TypeOK
<1>2. ASSUME gidx' = gidx,
             \A s \in Server : report'[s].pc = "gwrite" =>
                 report'[s] = report[s] \/ report'[s].copy = gidx,
             sweep'.pc = "gwrite" => sweep' = sweep \/ sweep'.copy = gidx
      PROVE  Copies
  BY <1>2 DEF OneWriterInv
<1>3. CASE UNCHANGED <<report, sweep, gidx>>
  BY <1>2, <1>3
<1>4. ASSUME NEW s \in Server, NEW sn \in Snapshot, Receive(s, sn) PROVE Copies
  <2>1. report'[s].pc = "save" /\ \A r \in Server \ {s} : report'[r] = report[r]
    BY <1>1, <1>4 DEF Receive
  <2>2. gidx' = gidx /\ sweep' = sweep
    BY <1>4 DEF Receive, store
  <2>3. QED BY <1>2, <2>1, <2>2
<1>5. ASSUME NEW s \in Server, SaveRecord(s) \/ ReadServerIndex(s) \/ WriteServerIndex(s) PROVE Copies
  <2>1. \E pc \in {"sread", "swrite", "gread"}, copy \in SUBSET Snapshot : Step(s, pc, copy)
    BY <1>5 DEF SaveRecord, ReadServerIndex, WriteServerIndex, Of
  <2>2. report'[s].pc # "gwrite" /\ \A r \in Server \ {s} : report'[r] = report[r]
    BY <1>1, <2>1, StepFacts
  <2>3. gidx' = gidx /\ sweep' = sweep
    BY <1>5 DEF SaveRecord, ReadServerIndex, WriteServerIndex, store
  <2>4. QED BY <1>2, <2>2, <2>3
<1>6. ASSUME NEW s \in Server, ReadGlobalIndex(s) PROVE Copies
  <2>1. /\ report'[s].pc = "gwrite" => report'[s].copy = gidx
        /\ \A r \in Server \ {s} : report'[r] = report[r]
    BY <1>1, <1>6, StepFacts DEF ReadGlobalIndex
  <2>2. gidx' = gidx /\ sweep' = sweep
    BY <1>6 DEF ReadGlobalIndex, store
  <2>3. QED BY <1>2, <2>1, <2>2
<1>7. ASSUME NEW s \in Server, WriteGlobalIndex(s) PROVE Copies
  <2>1. report'[s].pc = "reply" /\ \A r \in Server \ {s} : report'[r] = report[r]
    BY <1>1, <1>7, StepFacts DEF WriteGlobalIndex
  <2>2. report[s].pc = "gwrite" /\ sweep' = sweep
    BY <1>7 DEF WriteGlobalIndex
  <2>3. QED BY <2>1, <2>2 DEF OneWriter
<1>8. ASSUME NEW s \in Server, Acknowledge(s) \/ Abort(s) PROVE Copies
  <2>0. report' = [report EXCEPT ![s] = NoReport]
    BY <1>8 DEF Acknowledge, Abort, Answered
  <2>1. report'[s].pc = "idle" /\ \A r \in Server \ {s} : report'[r] = report[r]
    BY <1>1, <2>0 DEF NoReport
  <2>2. gidx' = gidx /\ sweep' = sweep
    BY <1>8 DEF Acknowledge, Abort, Answered, store
  <2>3. QED BY <1>2, <2>1, <2>2
<1>9. CASE WriteGlobal
  <2>1. sweep'.pc = "next" /\ sweep.pc = "gwrite" /\ report' = report
    BY <1>1, <1>9, NextServerFacts DEF WriteGlobal
  <2>2. QED BY <2>1 DEF OneWriter
<1>10. ASSUME gidx' = gidx, report' = report, sweep'.pc # "gwrite" PROVE Copies
  BY <1>2, <1>10
<1>11. CASE ReadGlobal
  <2>1. sweep'.copy = gidx /\ gidx' = gidx /\ report' = report
    BY <1>1, <1>11 DEF ReadGlobal, store, Sweeps
  <2>2. QED BY <1>2, <2>1
<1>12. ASSUME NEW s \in Server, NEW ok \in BOOLEAN, DeletePrefix(s, ok) PROVE Copies
  <2>1. sweep'.pc \in {"next", "list"}
    BY <1>1, <1>12, NextServerFacts DEF DeletePrefix, AfterPrefix, Sweeps
  <2>2. QED BY <1>10, <1>12, <2>1 DEF DeletePrefix, store
<1>13. CASE ListToDelete \/ DeleteServerIndex \/ \E sn \in Snapshot : DeleteRecord(sn)
  <2>1. sweep'.pc \in {"records", "gread"} /\ gidx' = gidx /\ report' = report
    BY <1>1, <1>13 DEF ListToDelete, DeleteServerIndex, DeleteRecord, store, Sweeps
  <2>2. QED BY <1>10, <2>1
<1>14. ASSUME NEW found \in SUBSET Snapshot, StartSweep(found) PROVE Copies
  BY <1>10, <1>14 DEF StartSweep, NoSweep, store
<1>15. CASE SkipServer \/ EndSweep
  BY <1>1, <1>10, <1>15, NextServerFacts DEF SkipServer, EndSweep, NoSweep, store
<1>16. QED
  BY <1>3, <1>4, <1>5, <1>6, <1>7, <1>8, <1>9, <1>11, <1>12, <1>13, <1>14, <1>15
     DEF Next, vars, store, Backup, WriteConfig, DeleteServerConfig, ListToStamp, EndDestroy,
         StampRecord, PeriodEnds, CleanServer

\* Who is about to answer has seen its snapshot in the index, or put it there.
LEMMA RepliesAreListed ==
    ASSUME IInv, OneWriterInv, [Next]_vars, NEW s \in Server \ Updated,
           report'[s].pc = "reply", report'[s].sn \in repo'
    PROVE  report'[s].sn \in gidx'
<1>1. report \in [Server -> Reports] /\ gidx \in SUBSET Snapshot
  BY DEF IInv, TypeOK
<1>2. CASE report'[s] = report[s]
  <2>1. report[s].sn \in Of(s) \intersect taken
    BY <1>2 DEF IInv, ReportIsTrue
  <2>2. report[s].sn \in repo /\ ServerOf[report[s].sn] = s
    BY <1>2, <2>1, NewObjects DEF Of
  <2>3. report[s].sn \in gidx
    BY <1>2, <2>2 DEF OneWriterInv
  <2>4. QED BY <1>2, <2>2, <2>3, OneWriterKeeps DEF Keeps
<1>3. ASSUME NEW r \in Server, NEW sn \in Snapshot, Receive(r, sn) PROVE report'[s].sn \in gidx'
  BY <1>1, <1>2, <1>3 DEF Receive
<1>4. ASSUME NEW r \in Server, SaveRecord(r) \/ ReadServerIndex(r) \/ WriteServerIndex(r)
      PROVE  report'[s].sn \in gidx'
  <2>1. \E pc \in {"sread", "swrite", "gread"}, copy \in SUBSET Snapshot : Step(r, pc, copy)
    BY <1>4 DEF SaveRecord, ReadServerIndex, WriteServerIndex, Of
  <2>2. r # s
    BY <1>1, <2>1, StepFacts
  <2>3. report'[s] = report[s]
    BY <1>1, <2>1, <2>2, StepFacts
  <2>4. QED BY <1>2, <2>3
<1>5. ASSUME NEW r \in Server, ReadGlobalIndex(r) PROVE report'[s].sn \in gidx'
  <2>1. CASE r = s
    BY <1>1, <1>5, <2>1, StepFacts DEF ReadGlobalIndex, store
  <2>2. CASE r # s
    BY <1>1, <1>2, <1>5, <2>2, StepFacts DEF ReadGlobalIndex
  <2>3. QED BY <2>1, <2>2
<1>6. ASSUME NEW r \in Server, WriteGlobalIndex(r) PROVE report'[s].sn \in gidx'
  <2>1. CASE r = s
    BY <1>1, <1>6, <2>1, StepFacts DEF WriteGlobalIndex
  <2>2. CASE r # s
    BY <1>1, <1>2, <1>6, <2>2, StepFacts DEF WriteGlobalIndex
  <2>3. QED BY <2>1, <2>2
<1>7. ASSUME NEW r \in Server, Acknowledge(r) \/ Abort(r) PROVE report'[s].sn \in gidx'
  <2>1. report' = [report EXCEPT ![r] = NoReport]
    BY <1>7 DEF Acknowledge, Abort, Answered
  <2>2. r # s
    BY <1>1, <2>1 DEF NoReport
  <2>3. QED BY <1>1, <1>2, <2>1, <2>2
<1>8. QED
  BY <1>2, <1>3, <1>4, <1>5, <1>6, <1>7
     DEF Next, vars, store, Backup, WriteConfig, DeleteServerConfig, ListToStamp, EndDestroy,
         StampRecord, PeriodEnds, StartSweep, DeletePrefix, DeleteRecord, CleanServer,
         ListToDelete, DeleteServerIndex, ReadGlobal, WriteGlobal, SkipServer, EndSweep

LEMMA AckedAreListed ==
    ASSUME IInv, OneWriterInv, [Next]_vars,
           NEW sn \in acked' \intersect repo', ServerOf[sn] \notin Updated
    PROVE  sn \in gidx'
<1>1. acked \subseteq taken
  BY DEF IInv, TypeOK
<1>2. CASE sn \in acked
  <2>1. sn \in repo
    BY <1>1, <1>2, NewObjects
  <2>2. sn \in gidx
    BY <1>2, <2>1 DEF OneWriterInv
  <2>3. QED BY <2>2, OneWriterKeeps DEF Keeps
<1>3. ASSUME NEW s \in Server, Acknowledge(s), sn \notin acked PROVE sn \in gidx'
  <2>1. sn = report[s].sn /\ report[s].pc = "reply" /\ repo' = repo /\ gidx' = gidx
    BY <1>3 DEF Acknowledge, Answered, Removed, store
  <2>2. ServerOf[sn] = s
    BY <2>1 DEF IInv, ReportIsTrue, Of
  <2>3. QED BY <2>1, <2>2 DEF OneWriterInv
<1>4. ASSUME NEW s \in Server, Abort(s) PROVE acked' = acked
  BY <1>4 DEF Abort, Answered, Removed
<1>5. CASE acked' = acked
  BY <1>2, <1>5
<1>6. QED
  BY <1>2, <1>3, <1>4, <1>5
     DEF Next, vars, store, Backup, WriteConfig, Receive, SaveRecord, ReadServerIndex,
         WriteServerIndex, ReadGlobalIndex, WriteGlobalIndex, DeleteServerConfig,
         ListToStamp, EndDestroy, StampRecord, PeriodEnds, StartSweep, DeletePrefix,
         DeleteRecord, CleanServer, ListToDelete, DeleteServerIndex, ReadGlobal, WriteGlobal,
         SkipServer, EndSweep

(***************************************************************************)
(* As long as no two writers of the global index overlap (two reports, or  *)
(* a report and a sweep, between their read and their write in             *)
(* UpsertBackup and DeleteServerBackups), every acknowledged snapshot of a *)
(* server whose config is not written back stays listed: the lost update   *)
(* is the only way out of the catalog, and a lock around it would do.      *)
(***************************************************************************)
THEOREM LockWouldDo == Spec => ListedUnlessTwoWrite
<1>1. Init => OneWriterInv
  BY DEF Init, OneWriterInv, NoReport, NoSweep
<1>2. IInv /\ OneWriter /\ OneWriterInv /\ [Next]_vars => OneWriterInv'
  <2> SUFFICES ASSUME IInv, OneWriter, OneWriterInv, [Next]_vars PROVE OneWriterInv'
    OBVIOUS
  <2>1. /\ \A s \in Server : report'[s].pc = "gwrite" => report'[s].copy = gidx'
        /\ sweep'.pc = "gwrite" => sweep'.copy = gidx'
    BY WritersHaveCopies
  <2>2. \A s \in Server \ Updated :
            report'[s].pc = "reply" /\ report'[s].sn \in repo' => report'[s].sn \in gidx'
    BY RepliesAreListed
  <2>3. \A sn \in acked' \intersect repo' : ServerOf[sn] \notin Updated => sn \in gidx'
    BY AckedAreListed
  <2>4. QED BY <2>1, <2>2, <2>3 DEF OneWriterInv
<1>3. OneWriterInv => \A sn \in acked \intersect repo : ServerOf[sn] \notin Updated => sn \in gidx
  BY DEF OneWriterInv
<1>4. QED BY <1>1, <1>2, <1>3, CatalogInvariant, PTL DEF Spec, ListedUnlessTwoWrite
=============================================================================
