---------------------------- MODULE BackupCatalog ----------------------------
(***************************************************************************)
(* The backup catalog: how a snapshot gets into it, how the destruction of *)
(* a server marks its records, and how the cleanup sweep removes them      *)
(* together with the server's Restic repository.                           *)
(*                                                                         *)
(*   - mc-backup saves a snapshot and its hook leaves a manifest on the    *)
(*     server's disk (cmd/mc-backup/post-backup); the agent reports it on  *)
(*     every tick, one after another, until the controller has             *)
(*     acknowledged it (cmd/machine-agent/backups.go);                     *)
(*   - HandleBackupReport (internal/handlers/servers/backup_catalog.go)    *)
(*     stores the record and adds it to two indexes (internal/db/dapr.go,  *)
(*     UpsertBackup): the server's and the global one;                     *)
(*   - runDestroy (internal/services/provisioning.go) deletes the server's *)
(*     config and then stamps its records (MarkServerBackupsDeleted);      *)
(*   - RunSweep (internal/services/backup_cleanup.go) finds the servers    *)
(*     whose stamps have all expired, deletes their repositories and then  *)
(*     their records (DeleteServerBackups);                                *)
(*   - an update handler (crud.go, backup.go) writes back a server config  *)
(*     it has read before, which a destruction may have deleted meanwhile. *)
(*                                                                         *)
(* The store has single-key reads and writes and no versions: each access  *)
(* is a step.  The read of an index and the bulk read of its records are   *)
(* one, and a bulk read may leave records out (their items carry errors).  *)
(* Retention periods end in the order of the destructions they belong to:  *)
(* a stamp is the number of its destruction, `clock' the number of the     *)
(* last one whose period is over.                                          *)
(***************************************************************************)
EXTENDS Naturals

CONSTANTS
    Server,         \* server IDs
    Snapshot,       \* the snapshots that will ever be taken
    ServerOf,       \* the server a snapshot is of
    Nothing,        \* no server, no snapshot
    Updated,        \* the servers whose configs users update
    MaxDestroys,    \* bound on the destructions
    Faults          \* accesses may fail, requests may be cut short

ASSUME ServerOfType == ServerOf \in [Snapshot -> Server]
ASSUME NothingType == Nothing \notin Server /\ Nothing \notin Snapshot
ASSUME UpdatedType == Updated \subseteq Server
ASSUME MaxDestroysType == MaxDestroys \in Nat
ASSUME FaultsType == Faults \in BOOLEAN

VARIABLES
    config,     \* the servers whose serverconfig record exists
    taken,      \* the snapshots taken so far
    repo,       \* the snapshots whose objects are in the bucket
    queue,      \* the manifests on the servers' disks
    record,     \* the record of each snapshot: none, unstamped, or its stamp
    sidx, gidx, \* the snapshots in the indexes of the servers, in the global one
    report,     \* the handling of each server's report
    destroy,    \* the end of each server's destruction
    sweep,      \* the cleanup sweep
    stamps,     \* history: the destructions of each server that stamp records
    clock,      \* the last destruction whose retention period is over
    acked       \* history: the manifests removed by the agent

store == <<record, sidx, gidx>>
vars == <<config, taken, repo, queue, store, report, destroy, sweep, stamps, clock, acked>>

Stamp == 1..MaxDestroys
Unstamped == 0
NoRecord == MaxDestroys + 1

NoReport == [pc |-> "idle", sn |-> Nothing, copy |-> {}]
NoDestroy == [pc |-> "idle", keys |-> {}, stamp |-> 0]
NoSweep == [pc |-> "idle", plan |-> {}, at |-> Nothing, keys |-> {}, all |-> {}, copy |-> {}]

Of(s) == {sn \in Snapshot : ServerOf[sn] = s}
Recorded == {sn \in Snapshot : record[sn] # NoRecord}
Stamped == {sn \in Snapshot : record[sn] \in Stamp}
Destructions == UNION {stamps[s] : s \in Server}

\* What a bulk read of the records of `listed' may return.
BulkReads(listed) ==
    LET found == listed \intersect Recorded IN
    IF Faults THEN SUBSET found ELSE {found}

Init ==
    /\ config = Server
    /\ taken = {} /\ repo = {} /\ queue = {}
    /\ record = [sn \in Snapshot |-> NoRecord] /\ sidx = {} /\ gidx = {}
    /\ report = [s \in Server |-> NoReport]
    /\ destroy = [s \in Server |-> NoDestroy]
    /\ sweep = NoSweep
    /\ stamps = [s \in Server |-> {}] /\ clock = 0
    /\ acked = {}

-----------------------------------------------------------------------------
(***************************************************************************)
(* Snapshots, manifests and server configs                                 *)
(***************************************************************************)
\* The post-backup hook may fail to leave a manifest.
Backup(sn) ==
    /\ ServerOf[sn] \in config
    /\ sn \notin taken
    /\ taken' = taken \union {sn}
    /\ repo' = repo \union {sn}
    /\ \/ queue' = queue \union {sn}
       \/ Faults /\ UNCHANGED queue
    /\ UNCHANGED <<config, store, report, destroy, sweep, stamps, clock, acked>>

\* UpdateServer and UpdateBackupSettingsByID have read the config, at some
\* time when it existed, and write it back.
WriteConfig(s) ==
    /\ s \in Updated
    /\ config' = config \union {s}
    /\ UNCHANGED <<taken, repo, queue, store, report, destroy, sweep, stamps, clock, acked>>

(***************************************************************************)
(* HandleBackupReport and UpsertBackup                                     *)
(***************************************************************************)
Step(s, pc, copy) == report' = [report EXCEPT ![s].pc = pc, ![s].copy = copy]

\* A report for a server without a config is answered 404 and sent again.
Receive(s, sn) ==
    /\ report[s].pc = "idle"
    /\ s \in config
    /\ sn \in queue \intersect Of(s)
    /\ report' = [report EXCEPT ![s] = [pc |-> "save", sn |-> sn, copy |-> {}]]
    /\ UNCHANGED <<config, taken, repo, queue, store, destroy, sweep, stamps, clock, acked>>

\* A new record, without a stamp, takes the place of one that was there.
SaveRecord(s) ==
    /\ report[s].pc = "save"
    /\ record' = [record EXCEPT ![report[s].sn] = Unstamped]
    /\ Step(s, "sread", {})
    /\ UNCHANGED <<config, taken, repo, queue, sidx, gidx, destroy, sweep, stamps, clock, acked>>

ReadServerIndex(s) ==
    /\ report[s].pc = "sread"
    /\ IF report[s].sn \in sidx THEN Step(s, "gread", {}) ELSE Step(s, "swrite", sidx \intersect Of(s))
    /\ UNCHANGED <<config, taken, repo, queue, store, destroy, sweep, stamps, clock, acked>>

WriteServerIndex(s) ==
    /\ report[s].pc = "swrite"
    /\ sidx' = (sidx \ Of(s)) \union report[s].copy \union {report[s].sn}
    /\ Step(s, "gread", {})
    /\ UNCHANGED <<config, taken, repo, queue, record, gidx, destroy, sweep, stamps, clock, acked>>

ReadGlobalIndex(s) ==
    /\ report[s].pc = "gread"
    /\ IF report[s].sn \in gidx THEN Step(s, "reply", {}) ELSE Step(s, "gwrite", gidx)
    /\ UNCHANGED <<config, taken, repo, queue, store, destroy, sweep, stamps, clock, acked>>

WriteGlobalIndex(s) ==
    /\ report[s].pc = "gwrite"
    /\ gidx' = report[s].copy \union {report[s].sn}
    /\ Step(s, "reply", {})
    /\ UNCHANGED <<config, taken, repo, queue, record, sidx, destroy, sweep, stamps, clock, acked>>

\* A slip for the properties to catch: any answer removes the manifest.
RemovedAlways(ok, sn) == {sn}

\* The manifest the agent removes: the one the controller has acknowledged.
Removed(ok, sn) == IF ok THEN {sn} ELSE {}

\* The agent hears whether its report was stored and removes the manifest.
Answered(s, ok) ==
    LET gone == Removed(ok, report[s].sn) IN
    /\ report' = [report EXCEPT ![s] = NoReport]
    /\ queue' = queue \ gone
    /\ acked' = acked \union (queue \intersect gone)
    /\ UNCHANGED <<config, taken, repo, store, destroy, sweep, stamps, clock>>

Acknowledge(s) == report[s].pc = "reply" /\ Answered(s, TRUE)

\* An access fails and the answer is 500, or the answer does not arrive.
Abort(s) == Faults /\ report[s].pc # "idle" /\ Answered(s, FALSE)

(***************************************************************************)
(* The end of runDestroy                                                   *)
(***************************************************************************)
\* A slip for the properties to catch: records are stamped although
\* the config could not be deleted.
StampAnyway(ok) == "list"

\* Records are stamped when the config has been deleted without an error.
AfterDelete(ok) == IF ok THEN "list" ELSE "idle"

\* The VM and its disk are gone.  DeleteServerConfig fails before or after it
\* has removed the record.
DeleteServerConfig(s) ==
    /\ s \in config
    /\ destroy[s].pc = "idle"
    /\ queue' = queue \ Of(s)
    /\ \E ok \in BOOLEAN, k \in Stamp :
           /\ ok \/ Faults
           /\ \A j \in Stamp : j < k <=> j \in Destructions
           /\ config' \in {config \ {s}} \union (IF ok THEN {} ELSE {config})
           /\ IF AfterDelete(ok) = "list"
              THEN /\ destroy' = [destroy EXCEPT ![s] = [pc |-> "list", keys |-> {}, stamp |-> k]]
                   /\ stamps' = [stamps EXCEPT ![s] = @ \union {k}]
              ELSE UNCHANGED <<destroy, stamps>>
    /\ UNCHANGED <<taken, repo, store, report, sweep, clock, acked>>

ListToStamp(s) ==
    /\ destroy[s].pc = "list"
    /\ \E found \in BulkReads(sidx \intersect Of(s)) :
           destroy' = [destroy EXCEPT ![s].pc = "stamp", ![s].keys = found]
    /\ UNCHANGED <<config, taken, repo, queue, store, report, sweep, stamps, clock, acked>>

StampRecord(s, sn) ==
    /\ destroy[s].pc = "stamp"
    /\ sn \in destroy[s].keys
    /\ record' = [record EXCEPT ![sn] = destroy[s].stamp]
    /\ destroy' = [destroy EXCEPT ![s].keys = @ \ {sn}]
    /\ UNCHANGED <<config, taken, repo, queue, sidx, gidx, report, sweep, stamps, clock, acked>>

\* An error on the way is only logged.
EndDestroy(s) ==
    /\ destroy[s].pc # "idle"
    /\ Faults \/ (destroy[s].pc = "stamp" /\ destroy[s].keys = {})
    /\ destroy' = [destroy EXCEPT ![s] = NoDestroy]
    /\ UNCHANGED <<config, taken, repo, queue, store, report, sweep, stamps, clock, acked>>

PeriodEnds ==
    /\ clock + 1 \in Destructions
    /\ clock' = clock + 1
    /\ UNCHANGED <<config, taken, repo, queue, store, report, destroy, sweep, stamps, acked>>

(***************************************************************************)
(* RunSweep and DeleteServerBackups                                        *)
(***************************************************************************)
\* Slips for the properties to catch: the retention period is not looked at;
\* a period that has just ended does not count.
NotRetained(sns) == TRUE
AllLongExpired(sns) == \A sn \in sns : record[sn] < clock

AllExpired(sns) == \A sn \in sns : record[sn] <= clock

\* The servers to clean up.  Records without a stamp do not count, not even
\* those of a server that has others with one.
Planned(found) ==
    {s \in Server : LET marked == found \intersect Stamped \intersect Of(s) IN
                    marked # {} /\ AllExpired(marked)}

StartSweep(found) ==
    /\ sweep.pc = "idle"
    /\ found \in BulkReads(gidx)
    /\ sweep' = [NoSweep EXCEPT !.pc = "next", !.plan = Planned(found)]
    /\ UNCHANGED <<config, taken, repo, queue, store, report, destroy, stamps, clock, acked>>

\* The sweep looks for the next server of its plan.
NextServer == [NoSweep EXCEPT !.pc = "next", !.plan = sweep.plan]

\* A slip for the properties to catch: the records are deleted although
\* the repository could not be.
CleanAnyway(s, ok) == [NextServer EXCEPT !.pc = "list", !.at = s, !.plan = @ \ {s}]

\* A repository that could not be deleted keeps its records.
AfterPrefix(s, ok) ==
    IF ok THEN [NextServer EXCEPT !.pc = "list", !.at = s, !.plan = @ \ {s}]
          ELSE [NextServer EXCEPT !.plan = @ \ {s}]

\* The objects are deleted one after another; a failure leaves some of them.
DeletePrefix(s, ok) ==
    /\ sweep.pc = "next"
    /\ s \in sweep.plan
    /\ ok \/ Faults
    /\ IF ok THEN repo' = repo \ Of(s) ELSE \E sns \in SUBSET Of(s) : repo' = repo \ sns
    /\ sweep' = AfterPrefix(s, ok)
    /\ UNCHANGED <<config, taken, queue, store, report, destroy, stamps, clock, acked>>

ListToDelete ==
    /\ sweep.pc = "list"
    /\ \E found \in BulkReads(sidx \intersect Of(sweep.at)) :
           sweep' = [sweep EXCEPT !.pc = "records", !.keys = found, !.all = found]
    /\ UNCHANGED <<config, taken, repo, queue, store, report, destroy, stamps, clock, acked>>

DeleteRecord(sn) ==
    /\ sweep.pc = "records"
    /\ sn \in sweep.keys
    /\ record' = [record EXCEPT ![sn] = NoRecord]
    /\ sweep' = [sweep EXCEPT !.keys = @ \ {sn}]
    /\ UNCHANGED <<config, taken, repo, queue, sidx, gidx, report, destroy, stamps, clock, acked>>

DeleteServerIndex ==
    /\ sweep.pc = "records"
    /\ sweep.keys = {}
    /\ sidx' = sidx \ Of(sweep.at)
    /\ sweep' = [sweep EXCEPT !.pc = "gread"]
    /\ UNCHANGED <<config, taken, repo, queue, record, gidx, report, destroy, stamps, clock, acked>>

ReadGlobal ==
    /\ sweep.pc = "gread"
    /\ sweep' = [sweep EXCEPT !.pc = "gwrite", !.copy = gidx]
    /\ UNCHANGED <<config, taken, repo, queue, store, report, destroy, stamps, clock, acked>>

WriteGlobal ==
    /\ sweep.pc = "gwrite"
    /\ gidx' = sweep.copy \ sweep.all
    /\ sweep' = NextServer
    /\ UNCHANGED <<config, taken, repo, queue, record, sidx, report, destroy, stamps, clock, acked>>

\* An error ends the work on one server; the next sweep finds it again.
SkipServer ==
    /\ Faults
    /\ sweep.pc \notin {"idle", "next"}
    /\ sweep' = NextServer
    /\ UNCHANGED <<config, taken, repo, queue, store, report, destroy, stamps, clock, acked>>

\* All planned servers are done, or the request is cut short.
EndSweep ==
    /\ sweep.pc # "idle"
    /\ Faults \/ (sweep.pc = "next" /\ sweep.plan = {})
    /\ sweep' = NoSweep
    /\ UNCHANGED <<config, taken, repo, queue, store, report, destroy, stamps, clock, acked>>

CleanServer == ListToDelete \/ DeleteServerIndex \/ ReadGlobal \/ WriteGlobal

Next ==
    \/ \E sn \in Snapshot : Backup(sn)
    \/ \E s \in Server : WriteConfig(s)
    \/ \E s \in Server, sn \in Snapshot : Receive(s, sn)
    \/ \E s \in Server : \/ SaveRecord(s)
                         \/ ReadServerIndex(s) \/ WriteServerIndex(s)
                         \/ ReadGlobalIndex(s) \/ WriteGlobalIndex(s)
                         \/ Acknowledge(s) \/ Abort(s)
    \/ \E s \in Server : DeleteServerConfig(s) \/ ListToStamp(s) \/ EndDestroy(s)
    \/ \E s \in Server, sn \in Snapshot : StampRecord(s, sn)
    \/ PeriodEnds
    \/ \E found \in SUBSET Snapshot : StartSweep(found)
    \/ \E s \in Server, ok \in BOOLEAN : DeletePrefix(s, ok)
    \/ \E sn \in Snapshot : DeleteRecord(sn)
    \/ CleanServer \/ SkipServer \/ EndSweep

Spec == Init /\ [][Next]_vars

\* Cloud Scheduler starts a sweep again and again, one that is running goes
\* on, and of many attempts some are not hit by a fault.
FairSpec ==
    /\ Spec
    /\ SF_vars(StartSweep(gidx \intersect Recorded))
    /\ \A s \in Server : SF_vars(DeletePrefix(s, TRUE))
    /\ \A sn \in Snapshot : WF_vars(DeleteRecord(sn))
    /\ WF_vars(CleanServer)
    /\ WF_vars(EndSweep)

-----------------------------------------------------------------------------
(***************************************************************************)
(* Properties                                                              *)
(***************************************************************************)
Reports == [pc : {"idle", "save", "sread", "swrite", "gread", "gwrite", "reply"},
            sn : Snapshot \union {Nothing}, copy : SUBSET Snapshot]
Destroys == [pc : {"idle", "list", "stamp"}, keys : SUBSET Snapshot, stamp : 0..MaxDestroys]
Sweeps == [pc : {"idle", "next", "list", "records", "gread", "gwrite"},
           plan : SUBSET Server, at : Server \union {Nothing},
           keys : SUBSET Snapshot, all : SUBSET Snapshot, copy : SUBSET Snapshot]

\* Every variable has its type.
TypeOK ==
    /\ config \subseteq Server
    /\ taken \subseteq Snapshot /\ repo \subseteq taken
    /\ queue \subseteq taken /\ acked \subseteq taken
    /\ record \in [Snapshot -> Stamp \union {Unstamped, NoRecord}]
    /\ sidx \subseteq taken /\ gidx \subseteq Snapshot
    /\ report \in [Server -> Reports]
    /\ destroy \in [Server -> Destroys]
    /\ sweep \in Sweeps
    /\ stamps \in [Server -> SUBSET Stamp]
    /\ clock \in Nat

Over(s) == \E k \in stamps[s] : k <= clock

\* Whoever holds a stamp for a server's records took it from a destruction of
\* that very server.
StampsAreTrue ==
    /\ \A sn \in Snapshot : record[sn] \in Stamp => record[sn] \in stamps[ServerOf[sn]]
    /\ \A s \in Server :
           /\ destroy[s].pc # "idle" => destroy[s].stamp \in stamps[s]
           /\ destroy[s].keys \subseteq Of(s)

\* The sweep plans only servers whose period is over, and is at such a one.
PlanIsTrue ==
    /\ \A s \in sweep.plan : Over(s)
    /\ sweep.pc \in {"list", "records", "gread", "gwrite"} =>
           sweep.at \in Server /\ Over(sweep.at)

\* A destroyed server stays destroyed, unless an update writes its config back.
DestroyedIsGone == \A s \in Server \ Updated : stamps[s] # {} => s \notin config

\* While the sweep deletes what is recorded of such a server, its objects are gone.
ObjectsAreGone ==
    /\ sweep.pc \notin {"idle", "next"} /\ sweep.at \notin Updated => repo \intersect Of(sweep.at) = {}
    /\ sweep.keys \union sweep.all \subseteq Of(sweep.at)
    /\ sweep.keys # {} => sweep.pc = "records"

\* A report handler works on a manifest of its server, and has stored by each
\* step what the steps before it store: the record, then the server's index.
\* Other handlers leave the index of its server alone.
ReportIsTrue ==
    \A s \in Server :
        /\ report[s].pc # "idle" => report[s].sn \in Of(s) \intersect taken
        /\ report[s].pc = "swrite" => report[s].copy \subseteq Of(s) \intersect taken
        /\ s \notin Updated =>
               /\ report[s].pc \notin {"idle", "save"} /\ report[s].sn \in repo =>
                      report[s].sn \in Recorded
               /\ report[s].pc = "swrite" => (sidx \intersect Of(s) \intersect repo) \subseteq report[s].copy
               /\ report[s].pc \in {"gread", "gwrite", "reply"} /\ report[s].sn \in repo =>
                      report[s].sn \in sidx

\* No acknowledged snapshot is lost: as long as its objects are there, its
\* record exists and the list of its server's backups names it, whatever other
\* servers report and whatever is swept in the meantime.  (A server whose
\* config comes back after its destruction is left out: a sweep may then meet
\* its new snapshots.)
AckedIsRecorded ==
    \A sn \in acked \intersect repo :
        ServerOf[sn] \notin Updated => sn \in Recorded /\ sn \in sidx

\* Together they are inductive.
IInv ==
    /\ TypeOK /\ StampsAreTrue /\ PlanIsTrue
    /\ DestroyedIsGone /\ ObjectsAreGone /\ ReportIsTrue /\ AckedIsRecorded

\* Objects of a server disappear only after a retention period of that server
\* has ended (RunSweep's allExpired), whatever is destroyed, updated, reported
\* and swept at the same time.
RetentionIsHonoured ==
    [][\A sn \in repo \ repo' : Over(ServerOf[sn])]_vars

\* The sweep never deletes the repository of a server that exists: stamps are
\* given only once the config is gone (runDestroy).  (An update that writes a
\* deleted config back does make the sweep delete a live server's backups.)
SweepSparesLive ==
    [][\A sn \in repo \ repo' : ServerOf[sn] \in config => ServerOf[sn] \in Updated]_vars

\* A record is deleted only after the server's objects (RunSweep's `continue'
\* after a failed DeletePrefix): a server whose records are gone is never
\* looked at again, and its objects would stay for ever.
ObjectsGoFirst ==
    [][\A sn \in Recorded : record'[sn] = NoRecord =>
           ServerOf[sn] \in Updated \/ repo \intersect Of(ServerOf[sn]) = {}]_vars

\* The stamps of s that the global index leads to are all over, and there are some.
SweepIsDue(s) ==
    LET marked == gidx \intersect Stamped \intersect Of(s) IN
    marked # {} /\ \A sn \in marked : record[sn] <= clock

\* When its retention is over, the repository of a destroyed server is deleted
\* in the end, although sweeps are cut short, deletions fail and bulk reads
\* leave records out.
ExpiredIsDeleted ==
    \A s \in Server \ Updated :
        SweepIsDue(s) ~> (repo \intersect Of(s) = {} \/ ~SweepIsDue(s))

\* What the at-least-once reports are for: an acknowledged snapshot is in the
\* catalog, in the global list too, from which the sweep works.  It does not
\* hold: two reports, or a report and a sweep, write the global index from
\* copies they have read before.
AckedIsListed ==
    \A sn \in acked \intersect repo : sn \in gidx

\* What would have to be excluded: two of them between their reads of the
\* global index and their writes.
OneWriter ==
    \A r, s \in Server :
        report[s].pc = "gwrite" => /\ report[r].pc = "gwrite" => r = s
                                   /\ sweep.pc # "gwrite"

\* As long as there is one writer, its copy of the index is the index, and
\* what is acknowledged of a server whose config is not written back is listed.
OneWriterInv ==
    /\ \A s \in Server : report[s].pc = "gwrite" => report[s].copy = gidx
    /\ sweep.pc = "gwrite" => sweep.copy = gidx
    /\ \A s \in Server \ Updated :
           report[s].pc = "reply" /\ report[s].sn \in repo => report[s].sn \in gidx
    /\ \A sn \in acked \intersect repo : ServerOf[sn] \notin Updated => sn \in gidx

\* So the missing lock is the whole reason: as long as no two writers of the
\* global index overlap, every acknowledged snapshot stays in it.
ListedUnlessTwoWrite ==
    []OneWriter => [](\A sn \in acked \intersect repo : ServerOf[sn] \notin Updated => sn \in gidx)

=============================================================================
