------------------------ MODULE StatusDocument_proofs ------------------------
(***************************************************************************)
(* Proofs about the status document, for any number of commands and        *)
(* shutdown times, with any writers and failures.                          *)
(***************************************************************************)
EXTENDS StatusDocument, TLAPS

(***************************************************************************)
(* What the changes of a document do to its type, to the commands it knows *)
(* of and to its soundness.                                                *)
(***************************************************************************)
LEMMA BlankFacts ==
    Blank \in Docs /\ Tags(Blank) = {} /\ (issued \in Nat => Sound(Blank))
  BY DEF Blank, Docs, NoResult, Results, Sound, Tags

LEMMA ShutdownFacts ==
    ASSUME NEW d \in Docs, NEW k \in Shutdown \union {0}
    PROVE  LET e == [d EXCEPT !.shutdown = k] IN
           /\ e \in Docs /\ e.cmd = d.cmd /\ e.result = d.result /\ Tags(e) = Tags(d)
           /\ Sound(d) => Sound(e)
  BY DEF Docs, Sound, Tags

LEMMA AnsweredFacts ==
    ASSUME NEW d \in Docs, d.cmd # 0, NEW ok \in BOOLEAN
    PROVE  LET e == Answered(d, ok) IN
           /\ e \in Docs /\ e.cmd = 0
           /\ e.result = [of |-> d.cmd, ok |-> ok] /\ Tags(e) = {d.cmd}
  BY DEF Docs, Results, Answered, Tags, Command

LEMMA TriggeredFacts ==
    ASSUME NEW d \in Docs, NEW n \in Command
    PROVE  LET e == Triggered(d, n) IN
           /\ e \in Docs /\ e.cmd = n /\ e.result = NoResult /\ Tags(e) = {n}
<1>1. NoResult \in Results /\ NoResult.of = 0 /\ n # 0
  BY BoundsType DEF NoResult, Results, Command
<1>2. Triggered(d, n) \in Docs
  BY <1>1 DEF Docs, Triggered
<1>3. Triggered(d, n).cmd = n /\ Triggered(d, n).result = NoResult
  BY DEF Docs, Triggered
<1>4. Tags(Triggered(d, n)) = {n}
  BY <1>1, <1>3 DEF Tags
<1>5. QED BY <1>2, <1>3, <1>4

LEMMA TagsType == ASSUME NEW d \in Docs PROVE Tags(d) \subseteq Command
  BY DEF Docs, Results, Tags

(***************************************************************************)
(* The fields of the records after a step.                                 *)
(***************************************************************************)
LEMMA CoordMoves ==
    ASSUME coord \in Coords, NEW pc \in CoordStates, CoordAt(pc)
    PROVE  /\ coord' \in Coords /\ coord'.pc = pc
           /\ coord'.copy = coord.copy /\ coord'.cmd = coord.cmd
  BY DEF CoordAt, Coords

LEMMA AgentMoves ==
    ASSUME agent \in Agents, NEW pc \in AgentStates, AgentAt(pc)
    PROVE  /\ agent' \in Agents /\ agent'.pc = pc
           /\ agent'.copy = agent.copy /\ agent'.shutdown = agent.shutdown
  BY DEF AgentAt, Agents

LEMMA AgentReads ==
    ASSUME agent \in Agents, NEW pc \in AgentStates, NEW d \in Docs,
           agent' = [agent EXCEPT !.pc = pc, !.copy = d]
    PROVE  /\ agent' \in Agents /\ agent'.pc = pc
           /\ agent'.copy = d /\ agent'.shutdown = agent.shutdown
  BY DEF Agents

LEMMA PutType ==
    ASSUME TypeOK, NEW d \in Docs, Put(d) \/ NoPut
    PROVE  doc' \in Docs /\ created' \in BOOLEAN /\ lost' \in SUBSET Command
<1>1. Tags(doc) \subseteq Command
  BY TagsType DEF TypeOK
<1>2. QED BY <1>1 DEF TypeOK, Put, NoPut

-----------------------------------------------------------------------------
LEMMA IInvInit == Init => IInv
<1> SUFFICES ASSUME Init PROVE IInv
  OBVIOUS
<1> USE BlankFacts, BoundsType DEF Init
<1>1. TypeOK
  <2>1. coord \in Coords /\ agent \in Agents /\ api \in Apis
    BY DEF Coords, Agents, Apis, CoordStates, AgentStates, Flows
  <2>2. {performed, answered, acked, lost} \subseteq SUBSET Command
    OBVIOUS
  <2>3. 0 \in 0..MaxCommands /\ 0 \in 0..MaxShutdowns
    OBVIOUS
  <2>4. QED BY <2>1, <2>2, <2>3 DEF TypeOK
<1>2. DocsAreSound
  BY DEF DocsAreSound
<1>3. WaitsForItsOwn /\ AgentHasWork
  BY DEF WaitsForItsOwn, AgentHasWork, Waiting
<1>4. AckedPerformedOrLost /\ AnsweredIsGone
  BY DEF AckedPerformedOrLost, AnsweredIsGone, CommandsRest
<1>5. TimesInOrder
  <2>1. Blank.shutdown = 0
    BY DEF Blank
  <2>2. QED BY <2>1 DEF TimesInOrder, ShutdownsRest
<1>6. QED BY <1>1, <1>2, <1>3, <1>4, <1>5 DEF IInv

LEMMA TypeOKNext == IInv /\ [Next]_vars => TypeOK'
<1> SUFFICES ASSUME IInv, [Next]_vars PROVE TypeOK'
  OBVIOUS
<1> USE BoundsType, BlankFacts DEF IInv, TypeOK, history, control
<1>1. ASSUME NEW flow \in Flows, StartOperation(flow) PROVE TypeOK'
  BY <1>1 DEF StartOperation, Coords, CoordStates
<1>2. CASE TriggerRead
  <2>1. coord' \in Coords
    BY <1>2, CoordMoves DEF TriggerRead, Coords, CoordStates
  <2>2. QED BY <1>2, <2>1 DEF TriggerRead
<1>3. CASE TriggerWrite
  <2>1. CASE \E wait \in {"saveWait", "restoreWait"} : Trigger(wait)
    <3>1. issued + 1 \in Command
      BY <2>1 DEF Trigger, Command
    <3>2. doc' \in Docs
      BY <2>1, <3>1, TriggeredFacts DEF Trigger, Coords
    <3>3. coord' \in Coords
      BY <2>1, <3>1 DEF Trigger, Coords, CoordStates
    <3>4. QED BY <1>3, <2>1, <3>1, <3>2, <3>3 DEF TriggerWrite, Trigger, Command
  <2>2. CASE CoordAt("idle") /\ UNCHANGED <<doc, created, issued>>
    BY <1>3, <2>2, CoordMoves DEF TriggerWrite, CoordStates
  <2>3. QED BY <1>3, <2>1, <2>2 DEF TriggerWrite
<1>4. CASE Poll
  <2>1. coord' \in Coords
    BY <1>4, CoordMoves DEF Poll, NextStep, AfterSave, CoordStates
  <2>2. acked' \in SUBSET Command
    BY <1>4 DEF Poll, Coords
  <2>3. QED BY <1>4, <2>1, <2>2 DEF Poll
<1>5. CASE GiveUp \/ Abandon
  BY <1>5, CoordMoves DEF GiveUp, Abandon, CoordStates
<1>6. CASE CheckShutdown
  <2>1. agent' \in Agents
    BY <1>6, AgentMoves DEF CheckShutdown, Agents, AgentStates, Docs, IsDue
  <2>2. QED BY <1>6, <2>1 DEF CheckShutdown
<1>7. CASE ClearRead \/ ReadCommand \/ ReportRead
  <2>1. agent' \in Agents
    BY <1>7, AgentMoves, AgentReads DEF ClearRead, ReadCommand, ReportRead, AgentStates
  <2>2. QED BY <1>7, <2>1 DEF ClearRead, ReadCommand, ReportRead
<1>8. CASE ClearWrite \/ Answer \/ ReportWrite
  <2>1. agent' \in Agents /\ agent.copy \in Docs /\ Cleared(agent.copy) \in Docs
    BY <1>8, AgentMoves, ShutdownFacts
       DEF ClearWrite, Answer, ReportWrite, AgentStates, Agents, Cleared
  <2>2. doc' \in Docs /\ created' \in BOOLEAN /\ lost' \in SUBSET Command
    BY <1>8, <2>1, PutType DEF ClearWrite, Answer, ReportWrite
  <2>3. answered' \in SUBSET Command
    BY <1>8 DEF ClearWrite, Answer, ReportWrite, AgentHasWork, Agents, Docs, Results
  <2>4. QED BY <1>8, <2>1, <2>2, <2>3 DEF ClearWrite, Answer, ReportWrite
<1>9. CASE StopInstance \/ PowerOff \/ PowerOn
  <2>1. agent' \in Agents
    BY <1>9, AgentMoves DEF StopInstance, PowerOff, PowerOn, Agents, AgentStates
  <2>2. stopped' \in SUBSET Shutdown
    BY <1>9 DEF StopInstance, PowerOff, PowerOn, AgentHasWork, Agents
  <2>3. QED BY <1>9, <2>1, <2>2 DEF StopInstance, PowerOff, PowerOn
<1>10. CASE Execute
  <2>1. agent.copy \in Docs /\ agent.copy.cmd # 0
    BY <1>10 DEF Execute, AgentHasWork, Agents
  <2>2. agent' \in Agents
    <3>1. PICK ok \in BOOLEAN :
              agent' = [agent EXCEPT !.pc = "answer", !.copy = Answered(agent.copy, ok)]
      BY <1>10 DEF Execute
    <3>2. QED BY <2>1, <3>1, AnsweredFacts, AgentReads DEF AgentStates
  <2>3. performed' \in SUBSET Command
    BY <1>10, <2>1 DEF Execute, Docs
  <2>4. QED BY <1>10, <2>2, <2>3 DEF Execute
<1>11. CASE ShutdownRead
  <2>1. PICK k \in Shutdown \union {0} :
            api' = [busy |-> TRUE, copy |-> [doc EXCEPT !.shutdown = k]]
    BY <1>11 DEF ShutdownRead, Shutdown
  <2>2. api' \in Apis
    BY <2>1, ShutdownFacts DEF Apis
  <2>3. QED BY <1>11, <2>2 DEF ShutdownRead
<1>12. CASE ShutdownWrite
  <2>1. api' \in Apis /\ api.copy \in Docs
    BY <1>12 DEF ShutdownWrite, Apis
  <2>2. doc' \in Docs /\ created' \in BOOLEAN /\ lost' \in SUBSET Command
    BY <1>12, <2>1, PutType DEF ShutdownWrite
  <2>3. QED BY <1>12, <2>1, <2>2 DEF ShutdownWrite
<1>13. ASSUME NEW k \in Shutdown, TimeComes(k) PROVE TypeOK'
  BY <1>13 DEF TimeComes
<1>14. CASE WriteFresh
  BY <1>14, PutType DEF WriteFresh
<1>15. CASE UNCHANGED vars
  BY <1>15 DEF vars
<1>16. QED
  BY <1>1, <1>2, <1>3, <1>4, <1>5, <1>6, <1>7, <1>8, <1>9, <1>10, <1>11, <1>12,
     <1>13, <1>14, <1>15 DEF Next, Coordinator, Tick

(***************************************************************************)
(* A step writes a document somebody holds, or triggers a command.         *)
(***************************************************************************)
Held == {doc, coord.copy, agent.copy, api.copy, Blank}

Writes ==
    \/ ClearWrite \/ Answer \/ ReportWrite \/ ShutdownWrite \/ WriteFresh

Triggers == \E wait \in {"saveWait", "restoreWait"} : TriggerWrite /\ Trigger(wait)

LEMMA HeldIsSound ==
    ASSUME IInv, NEW d \in Held PROVE d \in Docs /\ Sound(d)
  BY BlankFacts DEF IInv, TypeOK, DocsAreSound, Held, Coords, Agents, Apis

LEMMA WritesHeld ==
    ASSUME IInv, Writes
    PROVE  /\ (\E d \in Docs : Sound(d) /\ Put(d)) \/ NoPut
           /\ UNCHANGED <<coord, due, issued, shutdowns, performed, acked>>
<1> USE DEF Held
<1>1. agent.copy \in Docs /\ Sound(agent.copy) /\ api.copy \in Docs /\ Sound(api.copy)
      /\ Blank \in Docs /\ Sound(Blank)
  BY HeldIsSound
<1>2. Cleared(agent.copy) \in Docs /\ Sound(Cleared(agent.copy))
  BY <1>1, ShutdownFacts DEF Cleared
<1>3. QED
  BY <1>1, <1>2 DEF Writes, ClearWrite, Answer, ReportWrite, ShutdownWrite, WriteFresh, control

LEMMA OtherStepsKeep ==
    ASSUME [Next]_vars, ~Writes, ~Triggers
    PROVE  UNCHANGED <<doc, created, lost, issued, answered>>
  BY DEF Next, Coordinator, Tick, Writes, Triggers, vars, control, history,
         StartOperation, TriggerRead, TriggerWrite, Trigger, Poll, GiveUp, Abandon,
         CheckShutdown, ClearRead, StopInstance, ReadCommand, Execute, ReportRead,
         PowerOff, PowerOn, ShutdownRead, TimeComes

LEMMA Monotone ==
    ASSUME IInv, [Next]_vars
    PROVE  /\ issued <= issued' /\ issued \in Nat /\ issued' \in Nat
           /\ performed \subseteq performed'
<1>1. issued' = issued \/ issued' = issued + 1
  BY OtherStepsKeep, WritesHeld DEF Triggers, Trigger
<1>2. performed \subseteq performed'
  BY DEF Next, Coordinator, Tick, vars, control, history,
         StartOperation, TriggerRead, TriggerWrite, Poll, GiveUp, Abandon,
         CheckShutdown, ClearRead, ClearWrite, StopInstance, ReadCommand, Execute,
         Answer, ReportRead, ReportWrite, PowerOff, PowerOn, ShutdownRead,
         ShutdownWrite, TimeComes, WriteFresh
<1>3. issued \in Nat
  BY BoundsType DEF IInv, TypeOK
<1>4. QED BY <1>1, <1>2, <1>3

LEMMA SoundStays ==
    ASSUME IInv, [Next]_vars, NEW d \in Docs, Sound(d) PROVE Sound(d)'
<1>1. d.cmd \in Nat /\ d.result.of \in Nat
  BY BoundsType DEF Docs, Results, Command
<1>2. QED BY <1>1, Monotone DEF Sound

LEMMA DocsAreSoundNext == IInv /\ [Next]_vars => DocsAreSound'
<1> SUFFICES ASSUME IInv, [Next]_vars PROVE DocsAreSound'
  OBVIOUS
<1>0. DocsAreSound /\ TypeOK
  BY DEF IInv
<1>1. Sound(doc)' /\ (~created => doc = Blank)'
  <2>1. CASE Writes
    <3>1. CASE NoPut
      <4>1. PICK d \in Docs : d = doc /\ d = doc' /\ Sound(d)
        BY <1>0, <3>1 DEF NoPut, DocsAreSound, TypeOK
      <4>2. Sound(d)'
        BY <4>1, SoundStays
      <4>3. QED BY <1>0, <3>1, <4>1, <4>2 DEF NoPut, DocsAreSound, Sound
    <3>2. ASSUME NEW d \in Docs, Sound(d), Put(d) PROVE Sound(doc)' /\ created'
      <4>1. Sound(d)'
        BY <3>2, SoundStays
      <4>2. QED BY <3>2, <4>1 DEF Put, Sound
    <3>3. QED BY <2>1, <3>1, <3>2, WritesHeld
  <2>2. CASE Triggers
    <3>1. doc' = Triggered(coord.copy, issued + 1) /\ created' /\ issued' = issued + 1
          /\ issued + 1 \in Command
      BY <1>0, <2>2, BoundsType DEF Triggers, Trigger, TypeOK, Command
    <3>2. doc'.cmd = issued' /\ doc'.result = NoResult
      BY <1>0, <3>1, TriggeredFacts DEF TypeOK, Coords
    <3>3. QED BY <3>1, <3>2, Monotone DEF Sound, NoResult
  <2>3. CASE ~Writes /\ ~Triggers
    <3>1. UNCHANGED <<doc, created>>
      BY <2>3, OtherStepsKeep
    <3>2. PICK d \in Docs : d = doc /\ d = doc' /\ Sound(d)
      BY <1>0, <3>1 DEF DocsAreSound, TypeOK
    <3>3. Sound(d)'
      BY <3>2, SoundStays
    <3>4. QED BY <1>0, <3>1, <3>2, <3>3 DEF DocsAreSound, Sound
  <2>4. QED BY <2>1, <2>2, <2>3
<1>2. Sound(coord.copy)'
  <2>1. coord'.copy \in Held
    BY <1>0, CoordMoves
       DEF Next, Coordinator, Tick, vars, control, history, Held, TypeOK, Coords, CoordStates,
           StartOperation, TriggerRead, TriggerWrite, Trigger, Poll, NextStep, AfterSave,
           GiveUp, Abandon, CheckShutdown, ClearRead, ClearWrite, StopInstance,
           ReadCommand, Execute, Answer, ReportRead, ReportWrite, PowerOff, PowerOn,
           ShutdownRead, ShutdownWrite, TimeComes, WriteFresh
  <2>2. PICK d \in Docs : d = coord'.copy /\ Sound(d)
    BY <2>1, HeldIsSound
  <2>3. QED BY <2>2, SoundStays DEF Sound
<1>3. Sound(agent.copy)'
  <2>1. CASE Execute
    <3>1. PICK ok \in BOOLEAN :
              /\ agent' = [agent EXCEPT !.pc = "answer", !.copy = Answered(agent.copy, ok)]
              /\ ok => performed' = performed \union {agent.copy.cmd}
      BY <2>1 DEF Execute
    <3>2. agent.copy \in Docs /\ agent.copy.cmd # 0 /\ agent.copy.cmd <= issued
      BY <1>0, <2>1 DEF Execute, IInv, TypeOK, Agents, AgentHasWork, DocsAreSound, Sound
    <3>3. agent'.copy = Answered(agent.copy, ok)
      BY <1>0, <3>1 DEF TypeOK, Agents
    <3>4. agent'.copy.cmd = 0 /\ agent'.copy.result = [of |-> agent.copy.cmd, ok |-> ok]
      BY <3>2, <3>3, AnsweredFacts
    <3>5. issued' = issued
      BY <2>1 DEF Execute
    <3>6. QED BY <3>1, <3>2, <3>4, <3>5, Monotone DEF Sound
  <2>2. CASE ~Execute
    <3>1. agent'.copy \in Held
      BY <1>0, <2>2, AgentMoves, AgentReads
         DEF Next, Coordinator, Tick, vars, control, history, Held, TypeOK, Agents, AgentStates,
             StartOperation, TriggerRead, TriggerWrite, Poll, GiveUp, Abandon,
             CheckShutdown, ClearRead, ClearWrite, StopInstance,
             ReadCommand, Answer, ReportRead, ReportWrite, PowerOff, PowerOn,
             ShutdownRead, ShutdownWrite, TimeComes, WriteFresh
    <3>2. PICK d \in Docs : d = agent'.copy /\ Sound(d)
      BY <3>1, HeldIsSound
    <3>3. QED BY <3>2, SoundStays DEF Sound
  <2>3. QED BY <2>1, <2>2
<1>4. Sound(api.copy)'
  <2>1. CASE ShutdownRead
    <3>1. PICK k \in Shutdown \union {0} :
              api' = [busy |-> TRUE, copy |-> [doc EXCEPT !.shutdown = k]]
      BY <1>0, <2>1, BoundsType DEF ShutdownRead, Shutdown, TypeOK
    <3>2. PICK d \in Docs : d = api'.copy /\ Sound(d)
      BY <1>0, <3>1, ShutdownFacts DEF TypeOK, DocsAreSound
    <3>3. QED BY <3>2, SoundStays DEF Sound
  <2>2. CASE ~ShutdownRead
    <3>1. api'.copy \in Held
      BY <1>0, <2>2
         DEF Next, Coordinator, Tick, vars, control, history, Held, TypeOK, Apis,
             StartOperation, TriggerRead, TriggerWrite, Poll, GiveUp, Abandon,
             CheckShutdown, ClearRead, ClearWrite, StopInstance,
             ReadCommand, Execute, Answer, ReportRead, ReportWrite, PowerOff, PowerOn,
             ShutdownWrite, TimeComes, WriteFresh
    <3>2. PICK d \in Docs : d = api'.copy /\ Sound(d)
      BY <3>1, HeldIsSound
    <3>3. QED BY <3>2, SoundStays DEF Sound
  <2>3. QED BY <2>1, <2>2
<1>5. QED BY <1>1, <1>2, <1>3, <1>4 DEF DocsAreSound

LEMMA WaitsForItsOwnNext == IInv /\ [Next]_vars => WaitsForItsOwn'
<1> SUFFICES ASSUME IInv, [Next]_vars, Waiting', coord'.cmd # 0
             PROVE  created' /\ coord'.cmd \in Tags(doc)' \union lost'
  BY DEF WaitsForItsOwn
<1>0. TypeOK /\ WaitsForItsOwn
  BY DEF IInv
<1>1. CASE Writes
  <2>1. coord' = coord /\ Waiting /\ coord.cmd # 0
    BY <1>1, WritesHeld DEF Waiting
  <2>2. created /\ coord.cmd \in Tags(doc) \union lost
    BY <1>0, <2>1 DEF WaitsForItsOwn
  <2>3. ASSUME NEW d \in Docs, Put(d)
        PROVE  created' /\ Tags(doc)' = Tags(d) /\ lost' = lost \union (Tags(doc) \ Tags(d))
    BY <2>3 DEF Put, Tags
  <2>4. ASSUME NoPut PROVE created' = created /\ Tags(doc)' = Tags(doc) /\ lost' = lost
    BY <2>4 DEF NoPut, Tags
  <2>5. QED BY <1>1, <2>1, <2>2, <2>3, <2>4, WritesHeld
<1>2. CASE Triggers
  <2>1. doc' = Triggered(coord.copy, issued + 1) /\ created' /\ issued + 1 \in Command
        /\ coord'.cmd = issued + 1
    BY <1>0, <1>2, BoundsType DEF Triggers, Trigger, TypeOK, Command, Coords
  <2>2. Tags(doc)' = {issued + 1}
    BY <1>0, <2>1, TriggeredFacts DEF TypeOK, Coords, Tags
  <2>3. QED BY <2>1, <2>2
<1>3. CASE ~Writes /\ ~Triggers
  <2>1. UNCHANGED <<doc, created, lost>>
    BY <1>3, OtherStepsKeep
  <2>2. Waiting /\ coord.cmd # 0 /\ coord'.cmd = coord.cmd
    BY <1>0, <1>3, CoordMoves
       DEF Next, Coordinator, Tick, vars, control, history, Waiting, TypeOK, Coords,
           CoordStates, Triggers, Writes,
           StartOperation, TriggerRead, TriggerWrite, Poll, NextStep, AfterSave,
           GiveUp, Abandon, CheckShutdown, ClearRead, StopInstance,
           ReadCommand, Execute, ReportRead, PowerOff, PowerOn, ShutdownRead, TimeComes
  <2>3. QED BY <1>0, <2>1, <2>2 DEF WaitsForItsOwn, Tags
<1>4. QED BY <1>1, <1>2, <1>3

LEMMA AgentHasWorkNext == IInv /\ [Next]_vars => AgentHasWork'
<1> SUFFICES ASSUME IInv, [Next]_vars PROVE AgentHasWork'
  OBVIOUS
<1>0. TypeOK /\ AgentHasWork
  BY DEF IInv
<1>1. CASE Execute
  <2>1. PICK ok \in BOOLEAN :
            agent' = [agent EXCEPT !.pc = "answer", !.copy = Answered(agent.copy, ok)]
    BY <1>1 DEF Execute
  <2>2. agent.copy \in Docs /\ agent.copy.cmd # 0
    BY <1>0, <1>1 DEF Execute, TypeOK, Agents, AgentHasWork
  <2>3. agent'.copy = Answered(agent.copy, ok) /\ agent'.pc = "answer"
    BY <1>0, <2>1 DEF TypeOK, Agents
  <2>4. /\ agent'.copy.cmd = 0
        /\ agent'.copy.result = [of |-> agent.copy.cmd, ok |-> ok]
    BY <2>2, <2>3, AnsweredFacts
  <2>5. agent'.copy.result.of # 0
    BY <2>2, <2>4
  <2>6. QED BY <2>3, <2>4, <2>5 DEF AgentHasWork
<1>2. CASE CheckShutdown
  <2>1. ~IsDue(doc) \/ doc.shutdown # 0
    BY <1>0, BoundsType DEF IsDue, TypeOK, Shutdown
  <2>2. CASE /\ IsDue(doc)
            /\ agent' = [agent EXCEPT !.pc = "clearRead", !.shutdown = doc.shutdown]
    BY <1>0, <2>1, <2>2 DEF AgentHasWork, TypeOK, Agents
  <2>3. CASE AgentAt("command")
    BY <1>0, <2>3, AgentMoves DEF AgentHasWork, TypeOK, AgentStates
  <2>4. QED
    BY <1>2, <2>2, <2>3 DEF CheckShutdown
<1>3. CASE ~Execute /\ ~CheckShutdown
  BY <1>0, <1>3, AgentMoves, AgentReads
     DEF AgentHasWork, Next, Coordinator, Tick, vars, control, history, TypeOK, Agents,
         AgentStates, StartOperation, TriggerRead, TriggerWrite, Poll, GiveUp, Abandon,
         ClearRead, ClearWrite, StopInstance, ReadCommand, Answer, ReportRead,
         ReportWrite, PowerOff, PowerOn, ShutdownRead, ShutdownWrite, TimeComes, WriteFresh
<1>4. QED BY <1>1, <1>2, <1>3

LEMMA AckedNext == IInv /\ [Next]_vars => AckedPerformedOrLost'
<1> SUFFICES ASSUME IInv, [Next]_vars PROVE AckedPerformedOrLost'
  OBVIOUS
<1>0. TypeOK /\ WaitsForItsOwn /\ DocsAreSound /\ AckedPerformedOrLost
  BY DEF IInv
<1>1. performed \subseteq performed'
  BY Monotone
<1>2. lost \subseteq lost'
  <2>1. Writes => lost \subseteq lost'
    BY WritesHeld DEF Put, NoPut
  <2>2. Triggers => lost' = lost
    BY DEF Triggers, TriggerWrite
  <2>3. QED BY <2>1, <2>2, OtherStepsKeep
<1>3. acked' \subseteq acked \union performed \union lost
  <2>1. CASE Poll
    <3>1. CASE acked' = acked
      BY <3>1
    <3>2. CASE doc.result.ok /\ doc.result.of # 0 /\ acked' = acked \union ({coord.cmd} \ {0})
      <4>1. coord.cmd # 0 => coord.cmd \in Tags(doc) \union lost
        BY <1>0, <2>1 DEF Poll, WaitsForItsOwn
      <4>2. doc.cmd = 0 /\ doc.result.of \in performed
        BY <1>0, <3>2 DEF DocsAreSound, Sound
      <4>3. QED BY <3>2, <4>1, <4>2 DEF Tags
    <3>3. QED BY <2>1, <3>1, <3>2 DEF Poll
  <2>2. CASE ~Poll
    BY <2>2 DEF Next, Coordinator, Tick, vars, control, history,
         StartOperation, TriggerRead, TriggerWrite, GiveUp, Abandon,
         CheckShutdown, ClearRead, ClearWrite, StopInstance, ReadCommand, Execute,
         Answer, ReportRead, ReportWrite, PowerOff, PowerOn, ShutdownRead,
         ShutdownWrite, TimeComes, WriteFresh
  <2>3. QED BY <2>1, <2>2
<1>4. QED BY <1>0, <1>1, <1>2, <1>3 DEF AckedPerformedOrLost

LEMMA RestNext ==
    ASSUME TypeOK, ~Together, CommandsRest \/ ~api.busy, [Next]_vars
    PROVE  CommandsRest' \/ ~api'.busy
<1> USE DEF TypeOK, Coords, Apis, CommandsRest
<1>1. CASE ShutdownRead
  BY <1>1 DEF ShutdownRead
<1>2. CASE ShutdownWrite
  BY <1>2 DEF ShutdownWrite
<1>3. ASSUME NEW flow \in Flows, StartOperation(flow) PROVE ~api'.busy
  BY <1>3 DEF StartOperation, ShutdownsRest
<1>4. CASE Coordinator \/ GiveUp \/ Abandon
  <2>1. coord.pc # "idle"
    BY <1>4 DEF Coordinator, TriggerRead, TriggerWrite, Poll, GiveUp, Deadline, Abandon, Waiting
  <2>2. api' = api
    BY <1>4 DEF Coordinator, TriggerRead, TriggerWrite, Poll, GiveUp, Abandon
  <2>3. QED BY <2>1, <2>2
<1>5. CASE UNCHANGED <<coord, api, issued>>
  BY <1>5
<1>6. QED
  BY <1>1, <1>2, <1>3, <1>4, <1>5
     DEF Next, Tick, vars, control, history,
         CheckShutdown, ClearRead, ClearWrite, StopInstance,
         ReadCommand, Execute, Answer, ReportRead, ReportWrite, PowerOff, PowerOn,
         TimeComes, WriteFresh

LEMMA AnsweredIsGoneNext == IInv /\ [Next]_vars => AnsweredIsGone'
<1> SUFFICES ASSUME IInv, [Next]_vars PROVE AnsweredIsGone'
  OBVIOUS
<1>0. TypeOK /\ DocsAreSound /\ AgentHasWork /\ AnsweredIsGone /\ issued \in Nat /\ issued' \in Nat
      /\ issued <= issued' /\ \A n \in answered : n \in Nat
  BY BoundsType, Monotone DEF IInv, TypeOK, Command
<1>1. CASE Answer
  <2>1. agent.copy \in Docs /\ agent.copy.cmd = 0 /\ agent.copy.result.of <= issued
    BY <1>0, <1>1 DEF Answer, TypeOK, Agents, AgentHasWork, DocsAreSound, Sound
  <2>2. agent'.copy = agent.copy /\ UNCHANGED <<api, coord, issued>>
    BY <1>0, <1>1, AgentMoves DEF Answer, TypeOK, AgentStates
  <2>3. answered' \subseteq answered \union {agent.copy.result.of}
    BY <1>1 DEF Answer
  <2>4. doc' = agent.copy \/ (doc' = doc /\ answered' = answered)
    BY <1>1 DEF Answer, Put, NoPut
  <2>5. 0 \notin answered'
    BY <1>0, <1>1, BoundsType DEF Answer, TypeOK, Command, AgentHasWork
  <2>6. QED BY <1>0, <2>1, <2>2, <2>3, <2>4, <2>5 DEF AnsweredIsGone, CommandsRest
<1>2. CASE Triggers
  <2>1. doc' = Triggered(coord.copy, issued + 1) /\ issued + 1 \in Command
        /\ UNCHANGED <<agent, api, answered>>
    BY <1>0, <1>2, BoundsType DEF Triggers, Trigger, TriggerWrite, TypeOK, Command
  <2>2. doc'.cmd = issued + 1
    BY <1>0, <2>1, TriggeredFacts DEF TypeOK, Coords
  <2>3. ~Together => CommandsRest' \/ ~api'.busy
    BY <1>0, RestNext DEF AnsweredIsGone
  <2>4. QED BY <1>0, <2>1, <2>2, <2>3 DEF AnsweredIsGone
<1>3. CASE ~Answer /\ ~Triggers
  <2>1. answered' = answered
    BY <1>3, OtherStepsKeep
       DEF Writes, ClearWrite, ReportWrite, ShutdownWrite, WriteFresh
  <2>2. ASSUME ~Together, CommandsRest \/ ~api.busy, doc.cmd \notin answered,
               agent.copy.cmd \notin answered
        PROVE  /\ CommandsRest' \/ ~api'.busy
               /\ doc'.cmd \notin answered
               /\ agent'.copy.cmd \notin answered
    <3>1. CommandsRest' \/ ~api'.busy
      BY <1>0, <2>2, RestNext
    <3>0. ShutdownWrite => answered = {}
      BY <1>0, <2>2, BoundsType DEF ShutdownWrite, CommandsRest, TypeOK, Command, AnsweredIsGone
    <3>2. 0 \notin answered
      BY <1>0, BoundsType DEF TypeOK, Command
    <3>3. doc'.cmd \notin answered
      <4>1. CASE Writes
        <5>1. Cleared(agent.copy).cmd = agent.copy.cmd /\ Blank.cmd = 0
          BY <1>0, ShutdownFacts DEF Cleared, TypeOK, Agents, Blank
        <5>2. QED
          BY <1>3, <2>2, <3>0, <3>2, <4>1, <5>1
             DEF Writes, ClearWrite, ReportWrite, ShutdownWrite, WriteFresh, Put, NoPut
      <4>2. CASE ~Writes
        BY <1>3, <2>2, <4>2, OtherStepsKeep
      <4>3. QED BY <4>1, <4>2
    <3>4. agent'.copy.cmd \notin answered
      <4>1. CASE Execute
        <5>1. PICK ok \in BOOLEAN :
                  agent' = [agent EXCEPT !.pc = "answer", !.copy = Answered(agent.copy, ok)]
          BY <4>1 DEF Execute
        <5>2. agent.copy \in Docs /\ agent.copy.cmd # 0
          BY <1>0, <4>1 DEF Execute, TypeOK, Agents, AgentHasWork
        <5>3. agent'.copy = Answered(agent.copy, ok)
          BY <1>0, <5>1 DEF TypeOK, Agents
        <5>4. QED BY <3>2, <5>2, <5>3, AnsweredFacts
      <4>2. CASE ~Execute
        <5>1. agent'.copy \in {agent.copy, doc, Blank}
          BY <1>0, <1>3, <4>2, AgentMoves, AgentReads, BlankFacts
             DEF Next, Coordinator, Tick, vars, control, history, TypeOK, Agents, AgentStates,
                 StartOperation, TriggerRead, TriggerWrite, Poll, GiveUp, Abandon,
                 CheckShutdown, ClearRead, ClearWrite, StopInstance,
                 ReadCommand, ReportRead, ReportWrite, PowerOff, PowerOn,
                 ShutdownRead, ShutdownWrite, TimeComes, WriteFresh
        <5>2. QED BY <2>2, <3>2, <5>1 DEF Blank
      <4>3. QED BY <4>1, <4>2
    <3>5. QED BY <3>1, <3>3, <3>4
  <2>3. QED BY <1>0, <2>1, <2>2 DEF AnsweredIsGone
<1>4. QED BY <1>1, <1>2, <1>3

(***************************************************************************)
(* Shutdown times, where operations do not meet shutdown requests and the  *)
(* document can be read and written: first what the writes do to a time.   *)
(***************************************************************************)
LEMMA TimeFacts ==
    ASSUME NEW d \in Docs
    PROVE  /\ d.shutdown \in Shutdown \union {0} /\ Cleared(d).shutdown = 0
           /\ \A k \in Shutdown \union {0} : [d EXCEPT !.shutdown = k].shutdown = k
           /\ \A n \in Command : Triggered(d, n).shutdown = d.shutdown
           /\ \A ok \in BOOLEAN : Answered(d, ok).shutdown = d.shutdown
  BY DEF Docs, Cleared, Triggered, Answered

LEMMA TimesInOrderNext ==
    ASSUME IInv, TimesInOrder, [Next]_vars, ~Together, ~Faults PROVE TimesInOrder'
<1>0. /\ doc \in Docs /\ coord \in Coords /\ agent \in Agents /\ api \in Apis
      /\ coord.copy \in Docs /\ agent.copy \in Docs /\ api.copy \in Docs
      /\ shutdowns \in Nat /\ stopped \subseteq Shutdown /\ issued \in Nat
      /\ agent.shutdown \in Shutdown \union {0} /\ agent.shutdown \in Nat /\ 0 \notin Shutdown
      /\ \A d \in Docs : d.shutdown \in Nat
      /\ created \/ doc.shutdown = 0
  BY BoundsType, TimeFacts
     DEF IInv, TypeOK, Coords, Agents, Apis, Shutdown, DocsAreSound, Blank
<1>1. CASE \E flow \in Flows : StartOperation(flow)
  <2>1. coord'.copy = coord.copy /\ ShutdownsRest
    BY <1>0, <1>1 DEF StartOperation, Coords
  <2>2. QED BY <1>0, <1>1, <2>1 DEF StartOperation, TimesInOrder, CommandsRest, ShutdownsRest, history
<1>2. CASE TriggerRead
  <2>1. coord.pc # "idle" /\ UNCHANGED <<doc, created, agent, api, due, history>>
    BY <1>2 DEF TriggerRead
  <2>2. doc.shutdown = 0
    BY <1>0, <2>1 DEF TimesInOrder, CommandsRest, ShutdownsRest
  <2>3. coord'.copy \in {coord.copy, doc}
    BY <1>0, <1>2, CoordMoves DEF TriggerRead, Coords, CoordStates
  <2>4. QED BY <2>1, <2>2, <2>3 DEF TimesInOrder, CommandsRest, ShutdownsRest, history
<1>3. CASE TriggerWrite
  <2>1. /\ coord.pc # "idle" /\ issued + 1 \in Command
        /\ doc' = Triggered(coord.copy, issued + 1) /\ coord'.copy = coord.copy
        /\ UNCHANGED <<agent, api, shutdowns, stopped>>
    <3>1. PICK wait \in {"saveWait", "restoreWait"} : coord.pc # "idle" /\ Trigger(wait)
      BY <1>3 DEF TriggerWrite
    <3>2. coord'.copy = coord.copy
      BY <1>0, <3>1 DEF Trigger, Coords
    <3>3. issued + 1 \in Command /\ doc' = Triggered(coord.copy, issued + 1)
      BY <1>0, <3>1, BoundsType DEF Trigger, Command
    <3>4. UNCHANGED <<agent, api, shutdowns, stopped>>
      BY <1>3 DEF TriggerWrite
    <3>5. QED BY <3>1, <3>2, <3>3, <3>4
  <2>2. doc'.shutdown = 0
    BY <1>0, <2>1, TimeFacts DEF TimesInOrder
  <2>3. ShutdownsRest
    BY <2>1 DEF TimesInOrder, CommandsRest
  <2>4. agent.pc = "stop" => agent.shutdown # 0
    BY DEF IInv, AgentHasWork
  <2>5. QED BY <1>0, <2>1, <2>2, <2>3, <2>4 DEF TimesInOrder, ShutdownsRest
<1>4. CASE Poll \/ GiveUp \/ Abandon
  <2>1. /\ coord.pc # "idle" /\ coord'.copy = coord.copy
        /\ UNCHANGED <<doc, agent, api, shutdowns, stopped, issued>>
    BY <1>0, <1>4, CoordMoves
       DEF Poll, GiveUp, Abandon, Deadline, Waiting, NextStep, AfterSave, CoordStates, history
  <2>2. ShutdownsRest
    BY <2>1 DEF TimesInOrder, CommandsRest
  <2>3. QED BY <2>1, <2>2 DEF TimesInOrder, ShutdownsRest
<1>5. CASE CheckShutdown
  <2>1. /\ UNCHANGED <<doc, coord, api, shutdowns, stopped, issued>>
        /\ agent'.copy = agent.copy /\ agent'.pc \in {"clearRead", "command"}
        /\ agent'.shutdown \in {agent.shutdown, doc.shutdown}
    BY <1>0, <1>5, AgentMoves DEF CheckShutdown, history, Agents, AgentStates
  <2>2. QED BY <2>1 DEF TimesInOrder, CommandsRest, ShutdownsRest
<1>6. CASE ClearRead \/ ReadCommand \/ ReportRead
  <2>1. /\ UNCHANGED <<doc, coord, api, shutdowns, stopped, issued>>
        /\ agent'.shutdown = agent.shutdown
        /\ agent'.copy = doc \/ (agent'.copy = agent.copy /\ agent'.pc \in {"stop", "reportRead", "idle"})
        /\ agent'.pc = "stop" => doc.shutdown = 0 /\ agent.pc = "clearRead"
    BY <1>0, <1>6, AgentMoves, AgentReads
       DEF ClearRead, ReadCommand, ReportRead, history, AgentStates
  <2>2. agent.pc = "clearRead" => agent.shutdown # 0
    BY DEF IInv, AgentHasWork
  <2>3. QED BY <2>1, <2>2 DEF TimesInOrder, CommandsRest, ShutdownsRest
<1>7. CASE ClearWrite
  <2>1. /\ agent.pc = "clearWrite" /\ doc' = Cleared(agent.copy)
        /\ UNCHANGED <<coord, api, shutdowns, stopped, issued>>
        /\ agent'.copy = agent.copy /\ agent'.shutdown = agent.shutdown /\ agent'.pc = "stop"
    BY <1>0, <1>7, AgentMoves DEF ClearWrite, Put, AgentStates
  <2>2. doc'.shutdown = 0 /\ agent.shutdown # 0
    BY <1>0, <2>1, TimeFacts DEF IInv, AgentHasWork
  <2>3. QED BY <1>0, <2>1, <2>2 DEF TimesInOrder, CommandsRest, ShutdownsRest
<1>8. CASE StopInstance
  <2>1. /\ agent.pc = "stop" /\ UNCHANGED <<doc, coord, api, shutdowns, issued>>
        /\ stopped' = stopped \union {agent.shutdown}
        /\ agent'.copy = agent.copy /\ agent'.shutdown = 0 /\ agent'.pc \in {"off", "command"}
    BY <1>0, <1>8 DEF StopInstance, history, Agents
  <2>2. agent.shutdown # 0
    BY <2>1 DEF IInv, AgentHasWork
  <2>3. api.busy => api.copy.shutdown # agent.shutdown
    BY <2>2 DEF TimesInOrder
  <2>4. QED BY <1>0, <2>1, <2>2, <2>3 DEF TimesInOrder, CommandsRest, ShutdownsRest
<1>9. CASE Execute
  <2>1. PICK ok \in BOOLEAN :
            agent' = [agent EXCEPT !.pc = "answer", !.copy = Answered(agent.copy, ok)]
    BY <1>9 DEF Execute
  <2>2. /\ agent'.copy = Answered(agent.copy, ok) /\ agent'.pc = "answer"
        /\ agent'.shutdown = agent.shutdown
    BY <1>0, <2>1 DEF Agents
  <2>3. agent'.copy.shutdown = agent.copy.shutdown /\ agent.pc = "execute"
    BY <1>0, <1>9, <2>2, TimeFacts DEF Execute
  <2>4. QED BY <1>9, <2>2, <2>3 DEF Execute, TimesInOrder, CommandsRest, ShutdownsRest
<1>10. CASE Answer \/ ReportWrite
  <2>1. /\ agent.pc \in {"answer", "reportWrite"} /\ doc' = agent.copy
        /\ UNCHANGED <<coord, api, shutdowns, stopped, issued>>
        /\ agent'.copy = agent.copy /\ agent'.shutdown = agent.shutdown
        /\ agent'.pc \in {"reportRead", "idle"}
    BY <1>0, <1>10, AgentMoves DEF Answer, ReportWrite, Put, AgentStates
  <2>2. QED BY <2>1 DEF TimesInOrder, CommandsRest, ShutdownsRest
<1>11. CASE PowerOff \/ PowerOn
  <2>1. /\ UNCHANGED <<doc, coord, api, shutdowns, stopped, issued>>
        /\ agent'.copy = agent.copy /\ agent'.shutdown \in {agent.shutdown, 0}
        /\ agent'.pc \in {"off", "idle"}
    BY <1>0, <1>11, AgentMoves DEF PowerOff, PowerOn, history, Agents, AgentStates
  <2>2. QED BY <1>0, <2>1 DEF TimesInOrder, CommandsRest, ShutdownsRest
<1>12. CASE ShutdownRead
  <2>1. /\ CommandsRest /\ UNCHANGED <<doc, coord, agent, issued, stopped>>
        /\ \/ /\ shutdowns' = shutdowns + 1 /\ shutdowns + 1 \in Shutdown
              /\ api' = [busy |-> TRUE, copy |-> [doc EXCEPT !.shutdown = shutdowns + 1]]
           \/ /\ shutdowns' = shutdowns
              /\ api' = [busy |-> TRUE, copy |-> [doc EXCEPT !.shutdown = 0]]
    BY <1>0, <1>12, BoundsType DEF ShutdownRead, Shutdown
  <2>2. \/ shutdowns' = shutdowns + 1 /\ api'.copy.shutdown = shutdowns + 1
        \/ shutdowns' = shutdowns /\ api'.copy.shutdown = 0
    <3>1. \A k \in Shutdown \union {0} : [doc EXCEPT !.shutdown = k].shutdown = k
      BY <1>0, TimeFacts
    <3>2. CASE /\ shutdowns' = shutdowns + 1 /\ shutdowns + 1 \in Shutdown
               /\ api' = [busy |-> TRUE, copy |-> [doc EXCEPT !.shutdown = shutdowns + 1]]
      <4>1. api'.copy = [doc EXCEPT !.shutdown = shutdowns + 1]
        BY <3>2
      <4>2. QED BY <3>1, <3>2, <4>1
    <3>3. CASE /\ shutdowns' = shutdowns
               /\ api' = [busy |-> TRUE, copy |-> [doc EXCEPT !.shutdown = 0]]
      <4>1. api'.copy = [doc EXCEPT !.shutdown = 0]
        BY <3>3
      <4>2. QED BY <3>1, <3>3, <4>1
    <3>4. QED BY <2>1, <3>2, <3>3
  <2>3. /\ doc.shutdown <= shutdowns /\ agent.copy.shutdown <= shutdowns
        /\ agent.shutdown <= shutdowns /\ \A k \in stopped : k <= shutdowns
    BY DEF TimesInOrder
  <2>4. \A k \in stopped : k \in Nat
    BY <1>0 DEF Shutdown
  <2>5. \A k \in {doc.shutdown, agent.copy.shutdown, agent.shutdown} \union stopped :
            k <= shutdowns'
    <3>1. \A k \in Nat : k <= shutdowns => k <= shutdowns'
      BY <1>0, <2>2
    <3>2. \A k \in {doc.shutdown, agent.copy.shutdown, agent.shutdown} \union stopped : k \in Nat
      BY <1>0, <2>4
    <3>3. QED BY <2>3, <3>1, <3>2
  <2>6. /\ api'.copy.shutdown <= shutdowns' /\ api'.copy.shutdown \notin stopped
        /\ api'.copy.shutdown # 0
               => api'.copy.shutdown \notin {doc.shutdown, agent.copy.shutdown, agent.shutdown}
    BY <1>0, <2>2, <2>3, <2>4
  <2>7. CommandsRest'
    BY <2>1 DEF CommandsRest
  <2>8. QED BY <2>1, <2>5, <2>6, <2>7 DEF TimesInOrder
<1>13. CASE ShutdownWrite
  <2>1. /\ api.busy /\ doc' = api.copy /\ UNCHANGED <<coord, agent, issued, shutdowns, stopped>>
        /\ ~api'.busy
    BY <1>0, <1>13 DEF ShutdownWrite, Put, Apis
  <2>2. agent.pc = "stop" => agent.shutdown # 0
    BY DEF IInv, AgentHasWork
  <2>3. QED BY <1>0, <2>1, <2>2 DEF TimesInOrder, CommandsRest, ShutdownsRest
<1>14. CASE \E k \in Shutdown : TimeComes(k)
  BY <1>14 DEF TimeComes, history, TimesInOrder, CommandsRest, ShutdownsRest
<1>15. CASE WriteFresh
  <2>1. doc'.shutdown = 0 /\ UNCHANGED <<coord, agent, api, issued, shutdowns, stopped>>
    BY <1>15 DEF WriteFresh, Put, Blank, control
  <2>2. agent.pc = "stop" => agent.shutdown # 0
    BY DEF IInv, AgentHasWork
  <2>3. QED BY <1>0, <2>1, <2>2 DEF TimesInOrder, CommandsRest, ShutdownsRest
<1>16. CASE UNCHANGED vars
  BY <1>16 DEF vars, control, history, TimesInOrder, CommandsRest, ShutdownsRest
<1>17. QED
  BY <1>1, <1>2, <1>3, <1>4, <1>5, <1>6, <1>7, <1>8, <1>9, <1>10, <1>11, <1>12, <1>13, <1>14,
     <1>15, <1>16 DEF Next, Coordinator, Tick

(***************************************************************************)
(* The invariant of the status document.  Its part AckedPerformedOrLost    *)
(* says that a command the coordinator takes for completed was carried out *)
(* by the agent, or else somebody wrote a copy that did not have it        *)
(* (update_operations.go:73-144, machine-agent/main.go:117-234, 596-636).  *)
(***************************************************************************)
THEOREM StatusInvariant == Spec => []IInv
<1>1. IInv /\ [Next]_vars => IInv'
  BY TypeOKNext, DocsAreSoundNext, WaitsForItsOwnNext, AgentHasWorkNext, AckedNext,
     AnsweredIsGoneNext, TimesInOrderNext DEF IInv
<1>2. QED
  BY IInvInit, <1>1, PTL DEF Spec

(***************************************************************************)
(* The agent never carries out a command whose result it has stored, as    *)
(* long as no shutdown request meets an operation: only the shutdown  *)
(* handlers write the command back (machine-agent/main.go:632-635).        *)
(***************************************************************************)
THEOREM NoSecondExecution == ~Together => (Spec => AnsweredIsDone)
<1> SUFFICES ASSUME ~Together PROVE Spec => AnsweredIsDone
  OBVIOUS
<1>1. IInv /\ [Next]_vars =>
          [agent.pc = "execute" /\ agent'.pc = "answer" => agent.copy.cmd \notin answered]_vars
  BY DEF IInv, AnsweredIsGone
<1>2. QED
  BY <1>1, StatusInvariant, PTL DEF Spec, AnsweredIsDone

(***************************************************************************)
(* checkScheduledShutdown never finds a time it has acted on: once cleared *)
(* (machine-agent/main.go:117-234) no stale write of the document brings a *)
(* time back, as long as no shutdown request meets an operation and the    *)
(* document can be read and written.                                       *)
(***************************************************************************)
THEOREM StopsOnceHolds == ~Together /\ ~Faults => (Spec => StopsOnce)
<1> SUFFICES ASSUME ~Together, ~Faults PROVE Spec => StopsOnce
  OBVIOUS
<1> DEFINE Once == agent.shutdown = 0 /\ agent'.shutdown # 0 => agent'.shutdown \notin stopped
<1>1. IInv /\ [Next]_vars => [Once]_vars
  <2> SUFFICES ASSUME IInv, Next, agent.shutdown = 0, agent'.shutdown # 0
               PROVE  agent'.shutdown \notin stopped
    OBVIOUS
  <2>1. agent \in Agents /\ TimesInOrder
    BY DEF IInv, TypeOK
  <2>2. CASE CheckShutdown
    <3>1. agent'.shutdown \in {agent.shutdown, doc.shutdown}
      BY <2>1, <2>2, AgentMoves DEF CheckShutdown, Agents, AgentStates
    <3>2. QED BY <2>1, <3>1 DEF TimesInOrder
  <2>3. CASE ~CheckShutdown
    BY <2>1, <2>3
       DEF Next, Coordinator, Tick, StartOperation, TriggerRead, TriggerWrite, Poll, GiveUp,
           Abandon, ClearRead, ClearWrite, StopInstance, ReadCommand, Execute, Answer,
           ReportRead, ReportWrite, PowerOff, PowerOn, ShutdownRead, ShutdownWrite, TimeComes,
           WriteFresh, control, AgentAt, Agents
  <2>4. QED BY <2>2, <2>3
<1>2. QED
  BY <1>1, StatusInvariant, PTL DEF Spec, StopsOnce
=============================================================================
