--------------------------- MODULE StatusDocument ---------------------------
(***************************************************************************)
(* The status document of one server and everybody who writes it.          *)
(*                                                                         *)
(* The controller and the machine agent share one document per server. It  *)
(* carries the agent's reports, the scheduled shutdown, and a mailbox with *)
(* one pending command and its result.  Every writer reads the whole       *)
(* document, changes its fields and writes the whole document back, and    *)
(* the store has no versions.  The writers are                             *)
(*   - the BackupCoordinator (internal/services/update_operations.go),     *)
(*     driven by a recreate (save, replace the VM) or a restore (save,     *)
(*     restore) of internal/services/provisioning.go;                      *)
(*   - the agent's tick (cmd/machine-agent/main.go): check the scheduled   *)
(*     shutdown, handle the pending command, report;                       *)
(*   - the shutdown handlers (internal/handlers/servers/shutdown.go);      *)
(*   - the start and stop handlers and the audit log events, which write a *)
(*     fresh document.                                                     *)
(*                                                                         *)
(* Commands and shutdown times are numbered in the order they are issued;  *)
(* 0 is none.  The number of a command is not in the document: its result  *)
(* names no command.  It is kept here to say whose result it is.  Player   *)
(* counts, addresses and the like are left out.                            *)
(***************************************************************************)
EXTENDS Naturals

CONSTANTS
    MaxCommands,    \* bound on the commands the coordinator triggers
    MaxShutdowns,   \* bound on the shutdown times the users set
    Together,       \* shutdown requests may come while operations use the coordinator
    FreshWriters,   \* start, stop and events write the document as well
    Faults          \* reads and writes of the document may fail

ASSUME BoundsType == MaxCommands \in Nat /\ MaxShutdowns \in Nat
ASSUME SwitchesType == {Together, FreshWriters, Faults} \subseteq BOOLEAN

VARIABLES
    doc,        \* the document; the values of Blank when there is none
    created,    \* whether the document exists
    coord,      \* the operation that uses the BackupCoordinator
    agent,      \* the agent's tick and the document it has read
    api,        \* a shutdown request and the document it has read
    due,        \* the shutdown times that have come
    issued,     \* history: how many commands have been triggered
    shutdowns,  \* history: how many shutdown times have been set
    stopped,    \* history: the shutdown times the agent has acted on
    performed,  \* history: the commands the agent has carried out
    answered,   \* history: the commands whose result it has stored
    acked,      \* history: the commands the coordinator took for completed
    lost        \* history: the commands a stale write has erased

control == <<coord, agent, api, due>>
history == <<issued, shutdowns, stopped, performed, answered, acked, lost>>
vars == <<doc, created, control, history>>

Command == 1..MaxCommands
Shutdown == 1..MaxShutdowns
Results == [of : Command \union {0}, ok : BOOLEAN]
NoResult == [of |-> 0, ok |-> FALSE]
Docs == [cmd : Command \union {0}, result : Results, shutdown : Shutdown \union {0}]
Blank == [cmd |-> 0, result |-> NoResult, shutdown |-> 0]

Flows == {"RECREATE", "RESTORE"}
CoordStates == {"idle", "saveRead", "saveWrite", "saveWait",
                "restoreRead", "restoreWrite", "restoreWait"}
AgentStates == {"off", "idle", "clearRead", "clearWrite", "stop", "command",
                "execute", "answer", "reportRead", "reportWrite"}

Coords == [pc : CoordStates, flow : Flows, copy : Docs, cmd : Command \union {0}]
Agents == [pc : AgentStates, copy : Docs, shutdown : Shutdown \union {0}]
Apis == [busy : BOOLEAN, copy : Docs]

TypeOK ==
    /\ doc \in Docs /\ created \in BOOLEAN
    /\ coord \in Coords /\ agent \in Agents /\ api \in Apis
    /\ due \in SUBSET Shutdown
    /\ issued \in 0..MaxCommands /\ shutdowns \in 0..MaxShutdowns
    /\ stopped \in SUBSET Shutdown
    /\ {performed, answered, acked, lost} \subseteq SUBSET Command

Init ==
    /\ doc = Blank /\ created = FALSE
    /\ coord = [pc |-> "idle", flow |-> "RESTORE", copy |-> Blank, cmd |-> 0]
    /\ agent = [pc |-> "idle", copy |-> Blank, shutdown |-> 0]
    /\ api = [busy |-> FALSE, copy |-> Blank]
    /\ due = {}
    /\ issued = 0 /\ shutdowns = 0
    /\ stopped = {} /\ performed = {} /\ answered = {} /\ acked = {} /\ lost = {}

-----------------------------------------------------------------------------
\* The commands a document knows of, pending or answered.
Tags(d) == {d.cmd, d.result.of} \ {0}

Put(d) ==
    /\ doc' = d
    /\ created' = TRUE
    /\ lost' = lost \union (Tags(doc) \ Tags(d))

NoPut == UNCHANGED <<doc, created, lost>>

(***************************************************************************)
(* The BackupCoordinator                                                   *)
(***************************************************************************)
\* What the environment may do while Together is FALSE: one or the other.
CommandsRest == issued = 0 /\ coord.pc = "idle"
ShutdownsRest == shutdowns = 0 /\ ~api.busy

Needed(flow) == IF flow = "RESTORE" THEN 2 ELSE 1

CoordAt(pc) == coord' = [coord EXCEPT !.pc = pc]

StartOperation(flow) ==
    /\ coord.pc = "idle"
    /\ issued + Needed(flow) <= MaxCommands
    /\ Together \/ ShutdownsRest
    /\ coord' = [coord EXCEPT !.pc = "saveRead", !.flow = flow]
    /\ UNCHANGED <<doc, created, agent, api, due, history>>

\* The world is saved before a restore; a recreate goes on to its VM.
AfterSave == IF coord.flow = "RESTORE" THEN "restoreRead" ELSE "idle"

\* Without a document a save is skipped and a restore fails.
TriggerRead ==
    /\ \/ /\ coord.pc = "saveRead"
          /\ IF created THEN coord' = [coord EXCEPT !.pc = "saveWrite", !.copy = doc]
             ELSE coord' = [coord EXCEPT !.pc = "saveWait", !.cmd = 0]
       \/ /\ coord.pc = "restoreRead"
          /\ IF created THEN coord' = [coord EXCEPT !.pc = "restoreWrite", !.copy = doc]
             ELSE CoordAt("idle")
       \/ Faults /\ coord.pc \in {"saveRead", "restoreRead"} /\ CoordAt("idle")
    /\ UNCHANGED <<doc, created, agent, api, due, history>>

\* A slip for the properties to catch: the last result stays in place.
TriggeredKeepsResult(d, n) == [d EXCEPT !.cmd = n]

Triggered(d, n) == [d EXCEPT !.cmd = n, !.result = NoResult]

Trigger(wait) ==
    /\ issued < MaxCommands
    /\ issued' = issued + 1
    /\ doc' = Triggered(coord.copy, issued + 1)
    /\ created' = TRUE
    /\ coord' = [coord EXCEPT !.cmd = issued + 1, !.pc = wait]

TriggerWrite ==
    /\ \/ coord.pc = "saveWrite" /\ Trigger("saveWait")
       \/ coord.pc = "restoreWrite" /\ Trigger("restoreWait")
       \/ /\ Faults /\ coord.pc \in {"saveWrite", "restoreWrite"} /\ CoordAt("idle")
          /\ UNCHANGED <<doc, created, issued>>
    /\ UNCHANGED <<agent, api, due, shutdowns, stopped, performed, answered, acked, lost>>

Waiting == coord.pc \in {"saveWait", "restoreWait"}

NextStep == IF coord.pc = "saveWait" THEN AfterSave ELSE "idle"

\* A vanished document counts as an answer, but not as a result.
Poll ==
    /\ Waiting
    /\ \/ ~created /\ CoordAt(NextStep) /\ UNCHANGED acked
       \/ /\ doc.result.of # 0
          /\ IF doc.result.ok THEN CoordAt(NextStep) /\ acked' = acked \union ({coord.cmd} \ {0})
             ELSE CoordAt("idle") /\ UNCHANGED acked
       \/ Faults /\ CoordAt("idle") /\ UNCHANGED acked
    /\ UNCHANGED <<doc, created, agent, api, due, issued, shutdowns, stopped>>
    /\ UNCHANGED <<performed, answered, lost>>

Deadline == Waiting

\* WaitForCommandAck gives up; the command stays in the document.
GiveUp ==
    /\ Deadline
    /\ CoordAt("idle")
    /\ UNCHANGED <<doc, created, agent, api, due, history>>

\* The controller restarts, or the operation is cancelled.
Abandon ==
    /\ coord.pc # "idle"
    /\ CoordAt("idle")
    /\ UNCHANGED <<doc, created, agent, api, due, history>>

(***************************************************************************)
(* The agent's tick                                                        *)
(***************************************************************************)
AgentAt(pc) == agent' = [agent EXCEPT !.pc = pc]

\* A slip for the properties to catch: the first time ever seen is kept.
FirstTimeIsDue(d) == d.shutdown = 1 /\ 1 \in due

IsDue(d) == d.shutdown \in due

\* checkScheduledShutdown
CheckShutdown ==
    /\ agent.pc = "idle"
    /\ \/ /\ created /\ IsDue(doc)
          /\ agent' = [agent EXCEPT !.pc = "clearRead", !.shutdown = doc.shutdown]
       \/ ~(created /\ IsDue(doc)) /\ AgentAt("command")
       \/ Faults /\ AgentAt("command")
    /\ UNCHANGED <<doc, created, coord, api, due, history>>

\* initiateScheduledShutdown reads again; a failure is only logged.
ClearRead ==
    /\ agent.pc = "clearRead"
    /\ \/ created /\ agent' = [agent EXCEPT !.pc = "clearWrite", !.copy = doc]
       \/ (Faults \/ ~created) /\ AgentAt("stop")
    /\ UNCHANGED <<doc, created, coord, api, due, history>>

\* A slip for the properties to catch: the time stays in the document.
ClearedKeepsTime(d) == d

Cleared(d) == [d EXCEPT !.shutdown = 0]

ClearWrite ==
    /\ agent.pc = "clearWrite"
    /\ \/ Put(Cleared(agent.copy))
       \/ Faults /\ NoPut
    /\ AgentAt("stop")
    /\ UNCHANGED <<coord, api, due, issued, shutdowns, stopped, performed, answered, acked>>

\* The VM is told to stop through the controller.  The tick goes on until
\* it is off, and it goes on for good when the request fails.
StopInstance ==
    /\ agent.pc = "stop"
    /\ \E pc \in {"off", "command"} : agent' = [agent EXCEPT !.pc = pc, !.shutdown = 0]
    /\ stopped' = stopped \union {agent.shutdown}
    /\ UNCHANGED <<doc, created, coord, api, due, issued, shutdowns>>
    /\ UNCHANGED <<performed, answered, acked, lost>>

\* handlePendingCommand
ReadCommand ==
    /\ agent.pc = "command"
    /\ \/ created /\ doc.cmd # 0 /\ agent' = [agent EXCEPT !.pc = "execute", !.copy = doc]
       \/ (Faults \/ doc.cmd = 0) /\ AgentAt("reportRead")
    /\ UNCHANGED <<doc, created, coord, api, due, history>>

\* A slip for the properties to catch: the command stays pending.
AnsweredKeepsCommand(d, ok) == [d EXCEPT !.result = [of |-> d.cmd, ok |-> ok]]

Answered(d, ok) == [d EXCEPT !.result = [of |-> d.cmd, ok |-> ok], !.cmd = 0]

\* The save or the restore, minutes long, succeeds or fails.
Execute ==
    /\ agent.pc = "execute"
    /\ \/ /\ agent' = [agent EXCEPT !.pc = "answer", !.copy = Answered(@, TRUE)]
          /\ performed' = performed \union {agent.copy.cmd}
       \/ /\ agent' = [agent EXCEPT !.pc = "answer", !.copy = Answered(@, FALSE)]
          /\ UNCHANGED performed
    /\ UNCHANGED <<doc, created, coord, api, due, issued, shutdowns, stopped>>
    /\ UNCHANGED <<answered, acked, lost>>

Answer ==
    /\ agent.pc = "answer"
    /\ \/ Put(agent.copy) /\ answered' = answered \union {agent.copy.result.of}
       \/ Faults /\ NoPut /\ UNCHANGED answered
    /\ AgentAt("reportRead")
    /\ UNCHANGED <<coord, api, due, issued, shutdowns, stopped, performed, acked>>

\* runStatusUpdate: the rest of the tick, unless the uptime cannot be read.
\* An error of the read is dropped and the empty status is written.
ReportRead ==
    /\ agent.pc = "reportRead"
    /\ \/ agent' = [agent EXCEPT !.pc = "reportWrite", !.copy = doc]
       \/ Faults /\ agent' = [agent EXCEPT !.pc = "reportWrite", !.copy = Blank]
       \/ AgentAt("idle")
    /\ UNCHANGED <<doc, created, coord, api, due, history>>

ReportWrite ==
    /\ agent.pc = "reportWrite"
    /\ \/ Put(agent.copy)
       \/ Faults /\ NoPut
    /\ AgentAt("idle")
    /\ UNCHANGED <<coord, api, due, issued, shutdowns, stopped, performed, answered, acked>>

\* The agent or its VM is gone, or is replaced by a recreate, and is back.
PowerOff ==
    /\ agent.pc # "off"
    /\ agent' = [agent EXCEPT !.pc = "off", !.shutdown = 0]
    /\ UNCHANGED <<doc, created, coord, api, due, history>>

PowerOn ==
    /\ agent.pc = "off"
    /\ AgentAt("idle")
    /\ UNCHANGED <<doc, created, coord, api, due, history>>

(***************************************************************************)
(* The other writers                                                       *)
(***************************************************************************)
\* ScheduleShutdownByID and CancelScheduledShutdownByID, one at a time.
ShutdownRead ==
    /\ ~api.busy
    /\ created
    /\ Together \/ CommandsRest
    /\ \/ /\ shutdowns < MaxShutdowns
          /\ shutdowns' = shutdowns + 1
          /\ api' = [busy |-> TRUE, copy |-> [doc EXCEPT !.shutdown = shutdowns + 1]]
       \/ /\ MaxShutdowns > 0
          /\ api' = [busy |-> TRUE, copy |-> [doc EXCEPT !.shutdown = 0]]
          /\ UNCHANGED shutdowns
    /\ UNCHANGED <<doc, created, coord, agent, due, issued, stopped, performed, answered, acked, lost>>

ShutdownWrite ==
    /\ api.busy
    /\ \/ Put(api.copy)
       \/ Faults /\ NoPut
    /\ api' = [api EXCEPT !.busy = FALSE]
    /\ UNCHANGED <<coord, agent, due, issued, shutdowns, stopped, performed, answered, acked>>

TimeComes(k) ==
    /\ k <= shutdowns
    /\ k \notin due
    /\ due' = due \union {k}
    /\ UNCHANGED <<doc, created, coord, agent, api, history>>

\* StartByID, StopByID and updateInstanceState carry over neither the
\* command nor the shutdown.
WriteFresh ==
    /\ FreshWriters
    /\ Put(Blank)
    /\ UNCHANGED <<control, issued, shutdowns, stopped, performed, answered, acked>>

Coordinator == TriggerRead \/ TriggerWrite \/ Poll

Tick ==
    \/ CheckShutdown \/ ClearRead \/ ClearWrite \/ StopInstance
    \/ ReadCommand \/ Execute \/ Answer
    \/ ReportRead \/ ReportWrite

Next ==
    \/ \E flow \in Flows : StartOperation(flow)
    \/ Coordinator \/ GiveUp \/ Abandon
    \/ Tick \/ PowerOff \/ PowerOn
    \/ ShutdownRead \/ ShutdownWrite
    \/ \E k \in Shutdown : TimeComes(k)
    \/ WriteFresh

Spec == Init /\ [][Next]_vars

(***************************************************************************)
(* The ticker keeps firing while the VM is on, the coordinator's steps and *)
(* its deadline come, and so does the time of a shutdown.                  *)
(***************************************************************************)
Fairness ==
    /\ WF_vars(Tick)
    /\ WF_vars(Coordinator) /\ WF_vars(GiveUp)
    /\ WF_vars(ShutdownWrite)
    /\ \A k \in Shutdown : WF_vars(TimeComes(k))

FairSpec == Spec /\ Fairness

-----------------------------------------------------------------------------
(***************************************************************************)
(* The inductive invariant.                                                *)
(***************************************************************************)
\* A document has a pending command or a result, never both; a result that
\* says completed is of a command that was carried out; and both are issued.
Sound(d) ==
    /\ d.cmd # 0 => d.result.of = 0
    /\ d.result.ok => d.result.of \in performed
    /\ d.cmd <= issued /\ d.result.of <= issued

DocsAreSound ==
    /\ Sound(doc) /\ Sound(coord.copy) /\ Sound(agent.copy) /\ Sound(api.copy)
    /\ ~created => doc = Blank

\* The command the coordinator waits for is in the document, pending or
\* answered, unless a write from a stale or fresh copy has erased it.
WaitsForItsOwn ==
    Waiting /\ coord.cmd # 0 => created /\ coord.cmd \in Tags(doc) \union lost

AgentHasWork ==
    /\ agent.pc = "execute" => agent.copy.cmd # 0
    /\ agent.pc = "answer" => agent.copy.cmd = 0 /\ agent.copy.result.of # 0
    /\ agent.pc \in {"clearRead", "clearWrite", "stop"} => agent.shutdown # 0

(***************************************************************************)
(* A command the coordinator took for completed was carried out, unless    *)
(* somebody wrote a copy without the command over it.                      *)
(***************************************************************************)
AckedPerformedOrLost == acked \subseteq performed \union lost

\* Only the shutdown handlers can bring back a command that was answered.
AnsweredIsGone ==
    /\ \A n \in answered : n <= issued
    /\ ~Together => /\ CommandsRest \/ ~api.busy
                    /\ doc.cmd \notin answered
                    /\ agent.copy.cmd \notin answered

\* A shutdown time is new when it is written, and nothing the agent or the
\* coordinator writes brings back one the agent has acted on.
TimesInOrder ==
    /\ CommandsRest \/ ShutdownsRest
    /\ coord.copy.shutdown = 0
    /\ \A k \in {doc.shutdown, agent.copy.shutdown, agent.shutdown} \union stopped :
           k <= shutdowns
    /\ doc.shutdown \notin stopped
    /\ api.busy =>
           /\ api.copy.shutdown <= shutdowns /\ api.copy.shutdown \notin stopped
           /\ api.copy.shutdown # 0
                  => api.copy.shutdown
                         \notin {doc.shutdown, agent.copy.shutdown, agent.shutdown}
    /\ agent.pc \in {"execute", "answer", "reportWrite"} => agent.copy.shutdown \notin stopped
    /\ agent.pc = "stop" => doc.shutdown # agent.shutdown

IInv ==
    /\ TypeOK /\ DocsAreSound /\ WaitsForItsOwn /\ AgentHasWork
    /\ AckedPerformedOrLost /\ AnsweredIsGone
    /\ Together \/ Faults \/ TimesInOrder

-----------------------------------------------------------------------------
(***************************************************************************)
(* A restore or save the controller takes for completed was carried out by *)
(* the agent.                                                              *)
(***************************************************************************)
AckedIsPerformed == acked \subseteq performed

(***************************************************************************)
(* A command is not carried out again once the agent has stored its        *)
(* result: a restore does not overwrite the world a second time.           *)
(***************************************************************************)
AnsweredIsDone ==
    [][agent.pc = "execute" /\ agent'.pc = "answer" => agent.copy.cmd \notin answered]_vars

(***************************************************************************)
(* A pending command is taken up by the agent, or overwritten, while the   *)
(* VM is on.                                                               *)
(***************************************************************************)
CommandIsTaken ==
    \A n \in Command : (doc.cmd = n) ~> (doc.cmd # n \/ agent.pc = "off")

(***************************************************************************)
(* The agent stops its VM once for a scheduled shutdown: a VM started      *)
(* again afterwards stays up.                                              *)
(***************************************************************************)
StopsOnce ==
    [][agent.shutdown = 0 /\ agent'.shutdown # 0 => agent'.shutdown \notin stopped]_vars

(***************************************************************************)
(* A scheduled shutdown is carried out or replaced while the VM is on.     *)
(***************************************************************************)
ShutdownHappens ==
    \A k \in Shutdown : (doc.shutdown = k) ~> (doc.shutdown # k \/ agent.pc = "off")
=============================================================================
