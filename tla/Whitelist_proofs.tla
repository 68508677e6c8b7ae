-------------------------- MODULE Whitelist_proofs --------------------------
(***************************************************************************)
(* Proofs about the whitelist, for any players and requests, with failing  *)
(* calls, restarts of the agent and a Minecraft server that stops.         *)
(***************************************************************************)
EXTENDS Whitelist, TLAPS

(***************************************************************************)
(* What the steps of a writer do to the writers.                           *)
(***************************************************************************)
LEMMA BlankType ==
    ASSUME NEW w \in Writer, NEW pc \in {"new", "done"}
    PROVE  /\ Blank(w, pc) \in Writers /\ Blank(w, pc).pc = pc
           /\ w \in Player => Blank(w, pc).who = w /\ Blank(w, pc).kind = "add"
  BY SomePlayer DEF Blank, Writers, Kinds

LEMMA EndMoves ==
    ASSUME writer \in [Writer -> Writers], ImportsAdd, NEW w \in Writer, End(w)
    PROVE  /\ writer' \in [Writer -> Writers] /\ ImportsAdd'
           /\ ~Open(w)' /\ \A v \in Writer \ {w} : writer'[v] = writer[v]
<1>1. writer' = [writer EXCEPT ![w] = Blank(w, "done")] /\ Blank(w, "done") \in Writers
  BY BlankType DEF End
<1>2. writer'[w] = Blank(w, "done")
  BY <1>1
<1>3. writer'[w].pc = "done"
  BY <1>2, BlankType
<1>4. ImportsAdd'
  BY <1>1, <1>2, BlankType DEF ImportsAdd, Writer
<1>5. QED BY <1>1, <1>3, <1>4 DEF Open

LEMMA GotoMoves ==
    ASSUME writer \in [Writer -> Writers], ImportsAdd, NEW w \in Writer,
           NEW pc \in {"new", "entry", "readindex", "writeindex", "done"}, NEW idx \in SUBSET Player,
           Goto(w, pc) \/ writer' = [writer EXCEPT ![w].pc = pc, ![w].idx = idx]
    PROVE  /\ writer' \in [Writer -> Writers] /\ ImportsAdd'
           /\ writer'[w].pc = pc /\ writer'[w].who = writer[w].who
           /\ writer'[w].kind = writer[w].kind
           /\ \A v \in Writer \ {w} : writer'[v] = writer[v]
<1>1. \A v \in Writer : writer'[v].who = writer[v].who /\ writer'[v].kind = writer[v].kind
  BY DEF Goto, Writers
<1>2. QED BY <1>1 DEF Goto, Writers, ImportsAdd, Writer

LEMMA StartMoves ==
    ASSUME writer \in [Writer -> Writers], ImportsAdd, NEW w \in Writer, NEW kind \in Kinds,
           NEW p \in Player, Start(w, kind, p), w \in Player => p = w /\ kind = "add"
    PROVE  /\ writer' \in [Writer -> Writers] /\ ImportsAdd' /\ ~Open(w)
           /\ writer'[w] = [pc |-> "entry", kind |-> kind, who |-> p, idx |-> {}]
           /\ \A v \in Writer \ {w} : writer'[v] = writer[v]
<1>1. [pc |-> "entry", kind |-> kind, who |-> p, idx |-> {}] \in Writers
  BY DEF Writers
<1>2. writer' = [writer EXCEPT ![w] = [pc |-> "entry", kind |-> kind, who |-> p, idx |-> {}]]
  BY DEF Start
<1>3. ~Open(w)
  BY DEF Start, Open
<1>4. QED BY <1>1, <1>2, <1>3 DEF ImportsAdd, Writer

-----------------------------------------------------------------------------
LEMMA IInvInit == Init => IInv
<1> SUFFICES ASSUME Init PROVE IInv
  OBVIOUS
<1>1. \A w \in Writer : writer[w] = Blank(w, "new") /\ writer[w].pc = "new"
  BY BlankType DEF Init
<1>2. writer \in [Writer -> Writers] /\ ImportsAdd
  BY <1>1, BlankType DEF Init, ImportsAdd, Writer
<1>3. agent \in Agents
  BY DEF Init, Started, Agents, AgentPCs
<1>4. enabled \in BOOLEAN
  BY DEF Init
<1>5. TypeOK
  <2>1. up \in BOOLEAN /\ on \in BOOLEAN /\ crossed \in BOOLEAN
    BY DEF Init
  <2>2. /\ entry \subseteq Player /\ index \subseteq Player /\ game \subseteq Player
        /\ admitted \subseteq Player /\ barred \subseteq Player /\ contested \subseteq Player
        /\ events \in 0..MaxEvents
    BY BoundsType DEF Init
  <2>3. QED BY <1>2, <1>3, <1>4, <2>1, <2>2 DEF TypeOK
<1>6. ContestsAreSeen /\ WritersInOrder
  BY <1>1 DEF ContestsAreSeen, WritersInOrder, Open
<1>7. QED BY <1>2, <1>5, <1>6 DEF IInv, EntriesInOrder, AddedIsListed, Listed, Init

(***************************************************************************)
(* The steps that change what the invariant speaks of, and the others.     *)
(***************************************************************************)
Quiet == UNCHANGED <<entry, index, writer, ghosts>>

LEMMA StepCases ==
    ASSUME [Next]_vars
    PROVE  \/ \E r \in Request, kind \in Kinds, p \in Player : Ask(r, kind, p)
           \/ \E r \in Request : SetEnabled(r)
           \/ \E w \in Writer : WriterStep(w)
           \/ \E p \in Player : ImportNext(p)
           \/ Quiet
<1> USE DEF Quiet, store, minecraft, ghosts
<1>1. CASE CheckStore \/ ReadFile
  BY <1>1 DEF CheckStore, ReadFile
<1>2. CASE ImportReturns \/ ImportConfig
  BY <1>2 DEF ImportReturns, ImportConfig
<1>3. CASE GetConfig \/ GetEntries \/ Apply
  <2>1. CASE GetConfig
    BY <2>1 DEF GetConfig
  <2>2. CASE GetEntries
    BY <2>2 DEF GetEntries
  <2>3. CASE Apply
    BY <2>3 DEF Apply
  <2>4. QED BY <1>3, <2>1, <2>2, <2>3
<1>4. CASE AgentRestarts \/ MinecraftStops \/ MinecraftStarts
  BY <1>4 DEF AgentRestarts, MinecraftStops, MinecraftStarts
<1>5. CASE UNCHANGED vars
  BY <1>5 DEF vars
<1> HIDE DEF Quiet
<1>6. QED
  BY <1>1, <1>2, <1>3, <1>4, <1>5 DEF Next, RequestStep, AgentStep

LEMMA EventType ==
    ASSUME TypeOK, Event \/ events' = events
    PROVE  events' \in 0..MaxEvents
  BY BoundsType DEF TypeOK, Event

LEMMA WritersTypeNext ==
    ASSUME IInv, [Next]_vars
    PROVE  writer' \in [Writer -> Writers] /\ ImportsAdd'
<1> USE DEF IInv, TypeOK
<1>1. ASSUME NEW r \in Request, NEW kind \in Kinds, NEW p \in Player, Ask(r, kind, p)
      PROVE  writer' \in [Writer -> Writers] /\ ImportsAdd'
  BY <1>1, StartMoves, WritersDiffer DEF Ask, Writer
<1>2. ASSUME NEW r \in Request, SetEnabled(r)
      PROVE  writer' \in [Writer -> Writers] /\ ImportsAdd'
  BY <1>2, EndMoves DEF SetEnabled, Writer
<1>3. ASSUME NEW w \in Writer, WriterStep(w)
      PROVE  writer' \in [Writer -> Writers] /\ ImportsAdd'
  <2>1. \/ End(w) \/ Goto(w, "readindex")
        \/ writer' = [writer EXCEPT ![w].pc = "writeindex", ![w].idx = index]
    BY <1>3 DEF WriterStep, WriteEntry, ReadIndex, WriteIndex, FailsOnEntry, Fails
  <2>2. QED BY <2>1, EndMoves, GotoMoves
<1>4. ASSUME NEW p \in Player, ImportNext(p)
      PROVE  writer' \in [Writer -> Writers] /\ ImportsAdd'
  BY <1>4, StartMoves DEF ImportNext, Writer, Kinds
<1>5. CASE Quiet
  BY <1>5 DEF Quiet, ImportsAdd
<1>6. QED BY StepCases, <1>1, <1>2, <1>3, <1>4, <1>5

LEMMA AgentTypeNext == ASSUME TypeOK, [Next]_vars PROVE agent' \in Agents
<1>0. agent \in Agents /\ Started \in Agents /\ Ticking \in Agents /\ game \subseteq Player
  BY DEF TypeOK, Started, Ticking, Agents, AgentPCs
<1>1. CASE CheckStore
  BY <1>0, <1>1 DEF CheckStore, Agents, AgentPCs
<1>2. CASE ReadFile
  BY <1>0, <1>2 DEF ReadFile, Agents, AgentPCs
<1>3. CASE ImportConfig \/ AgentRestarts \/ Apply
  BY <1>0, <1>3 DEF ImportConfig, AgentRestarts, Apply
<1>4. ASSUME NEW p \in Player, ImportNext(p) PROVE agent' \in Agents
  <2>1. {p} \in SUBSET Player /\ agent.todo \ {p} \in SUBSET Player
    BY <1>0 DEF Agents
  <2>2. QED BY <1>0, <1>4, <2>1 DEF ImportNext, Agents, AgentPCs
<1>5. CASE ImportReturns
  BY <1>0, <1>5 DEF ImportReturns, Agents, AgentPCs
<1>6. CASE GetConfig
  <2>1. enabled \in BOOLEAN /\ FALSE \in BOOLEAN
    BY DEF TypeOK
  <2>2. PICK cfg \in BOOLEAN : agent' = [agent EXCEPT !.pc = "entries", !.cfg = cfg]
    BY <1>6, <2>1, Zenon DEF GetConfig
  <2>3. QED BY <1>0, <2>2 DEF Agents, AgentPCs
<1>7. CASE GetEntries
  <2>1. Listed \subseteq Player
    BY DEF Listed, TypeOK
  <2>2. QED BY <1>0, <1>7, <2>1 DEF GetEntries, Agents, AgentPCs
<1>8. CASE agent' = agent
  BY <1>0, <1>8
<1>9. ASSUME NEW w \in Writer, WriterStep(w) PROVE agent' = agent
  BY <1>9 DEF WriterStep, WriteEntry, ReadIndex, WriteIndex
<1>10. ASSUME NEW r \in Request, RequestStep(r) PROVE agent' = agent
  BY <1>10 DEF RequestStep, Ask, SetEnabled
<1>11. CASE MinecraftStops \/ MinecraftStarts \/ UNCHANGED vars
  BY <1>8, <1>11 DEF MinecraftStops, MinecraftStarts, vars
<1>12. QED
  BY <1>1, <1>2, <1>3, <1>4, <1>5, <1>6, <1>7, <1>8, <1>9, <1>10, <1>11 DEF Next, AgentStep

LEMMA StoreSteps ==
    ASSUME [Next]_vars
    PROVE  \/ \E w \in Writer : WriterStep(w)
           \/ \E r \in Request : SetEnabled(r)
           \/ ImportConfig
           \/ UNCHANGED store
<1>1. CASE (\E r \in Request, kind \in Kinds, p \in Player : Ask(r, kind, p)) \/ UNCHANGED vars
  BY <1>1 DEF Ask, vars
<1>2. CASE CheckStore \/ ReadFile \/ (\E p \in Player : ImportNext(p)) \/ ImportReturns
  BY <1>2 DEF CheckStore, ReadFile, ImportNext, ImportReturns
<1>3. CASE GetConfig \/ GetEntries \/ Apply
  <2>1. CASE GetConfig
    BY <2>1 DEF GetConfig
  <2>2. CASE GetEntries
    BY <2>2 DEF GetEntries
  <2>3. CASE Apply
    BY <2>3 DEF Apply
  <2>4. QED BY <1>3, <2>1, <2>2, <2>3
<1>4. CASE AgentRestarts \/ MinecraftStops \/ MinecraftStarts
  BY <1>4 DEF AgentRestarts, MinecraftStops, MinecraftStarts
<1>5. QED
  BY <1>1, <1>2, <1>3, <1>4 DEF Next, RequestStep, AgentStep

LEMMA StoreTypeNext ==
    ASSUME TypeOK, [Next]_vars
    PROVE  entry' \subseteq Player /\ index' \subseteq Player /\ enabled' \in BOOLEAN
<1>1. entry \subseteq Player /\ index \subseteq Player /\ enabled \in BOOLEAN /\ on \in BOOLEAN
      /\ up \in BOOLEAN /\ writer \in [Writer -> Writers]
  BY DEF TypeOK
<1>2. ASSUME NEW w \in Writer, WriterStep(w)
      PROVE  entry' \subseteq Player /\ index' \subseteq Player /\ enabled' = enabled
  <2>1. writer[w].who \in Player /\ NewIndex(w) \subseteq Player
    BY <1>1 DEF Writers, NewIndex
  <2>2. QED BY <1>1, <1>2, <2>1 DEF WriterStep, WriteEntry, ReadIndex, WriteIndex, store
<1>3. ASSUME NEW r \in Request, SetEnabled(r)
      PROVE  entry' = entry /\ index' = index /\ enabled' = ~enabled
  BY <1>3 DEF SetEnabled
<1>4. CASE ImportConfig
  <2>1. entry' = entry /\ index' = index /\ enabled' \in {enabled, EnabledStatus}
    BY <1>4 DEF ImportConfig
  <2>2. EnabledStatus \in BOOLEAN
    BY DEF EnabledStatus
  <2>3. QED BY <1>1, <2>1, <2>2
<1>5. CASE UNCHANGED store
  BY <1>1, <1>5 DEF store
<1>6. QED BY <1>1, <1>2, <1>3, <1>4, <1>5, StoreSteps

LEMMA GameTypeNext ==
    ASSUME TypeOK, [Next]_vars
    PROVE  game' \subseteq Player /\ on' \in BOOLEAN /\ up' \in BOOLEAN
<1> USE DEF TypeOK, minecraft
<1>1. CASE Apply
  <2>1. agent.want \subseteq Player /\ agent.cfg \in BOOLEAN
    BY DEF Agents
  <2>2. QED BY <1>1, <2>1 DEF Apply, Followed
<1>2. CASE MinecraftStops \/ MinecraftStarts
  BY <1>2 DEF MinecraftStops, MinecraftStarts
<1>3. CASE UNCHANGED minecraft
  BY <1>3
<1>4. QED
  BY <1>1, <1>2, <1>3
     DEF Next, RequestStep, Ask, SetEnabled, WriterStep, WriteEntry, ReadIndex, WriteIndex,
         AgentStep, CheckStore, ReadFile, ImportNext, ImportReturns, ImportConfig,
         GetConfig, GetEntries, AgentRestarts, vars

LEMMA EventsNext == ASSUME [Next]_vars PROVE Event \/ events' = events
<1> USE DEF Fault, Fails
<1>1. CASE \E r \in Request : RequestStep(r)
  BY <1>1 DEF RequestStep, Ask, SetEnabled
<1>2. ASSUME NEW w \in Writer, WriterStep(w) PROVE Event \/ events' = events
  BY <1>2 DEF WriterStep, WriteEntry, ReadIndex, WriteIndex, FailsOnEntry
<1>3. CASE CheckStore \/ ReadFile \/ (\E p \in Player : ImportNext(p)) \/ ImportReturns
  BY <1>3 DEF CheckStore, ReadEntries, ReadFile, ImportNext, ImportReturns
<1>4. CASE ImportConfig \/ GetConfig \/ GetEntries \/ Apply
  <2>1. CASE ImportConfig \/ GetEntries
    BY <2>1 DEF ImportConfig, GetEntries, ReadEntries
  <2>2. CASE GetConfig
    BY <2>2 DEF GetConfig
  <2>3. CASE Apply
    BY <2>3 DEF Apply
  <2>4. QED BY <1>4, <2>1, <2>2, <2>3
<1>5. CASE AgentRestarts \/ MinecraftStops \/ MinecraftStarts \/ UNCHANGED vars
  BY <1>5 DEF AgentRestarts, MinecraftStops, MinecraftStarts, vars
<1>6. QED BY <1>1, <1>2, <1>3, <1>4, <1>5 DEF Next, AgentStep

LEMMA GhostTypeNext ==
    ASSUME TypeOK, [Next]_vars
    PROVE  /\ admitted' \subseteq Player /\ barred' \subseteq Player
           /\ crossed' \in BOOLEAN /\ contested' \subseteq Player
           /\ events' \in 0..MaxEvents
<1>1. events' \in 0..MaxEvents
  BY EventsNext, EventType
<1>2. /\ admitted \subseteq Player /\ barred \subseteq Player /\ crossed \in BOOLEAN
      /\ contested \subseteq Player /\ writer \in [Writer -> Writers]
  BY DEF TypeOK
<1>3. ASSUME NEW w \in Writer, WriterStep(w)
      PROVE  /\ admitted' \subseteq Player /\ barred' \subseteq Player
             /\ crossed' \in BOOLEAN /\ contested' \subseteq Player
  <2>1. writer[w].who \in Player
    BY <1>2 DEF Writers
  <2>2. admitted' \subseteq Player /\ barred' \subseteq Player /\ contested' = contested
    BY <1>2, <1>3, <2>1 DEF WriterStep, WriteEntry, ReadIndex, WriteIndex, Succeed, ghosts
  <2>3. crossed' = crossed \/ crossed' = (crossed \/ index # writer[w].idx)
    BY <1>3 DEF WriterStep, WriteEntry, ReadIndex, WriteIndex, ghosts
  <2>4. crossed' \in BOOLEAN
    BY <1>2, <2>3
  <2>5. QED BY <1>2, <2>2, <2>4
<1>4. ASSUME NEW w \in Writer, NEW kind \in Kinds, NEW p \in Player, Start(w, kind, p)
      PROVE  admitted' \subseteq Player /\ barred' \subseteq Player /\ contested' \subseteq Player
  BY <1>2, <1>4 DEF Start
<1>5. ASSUME NEW r \in Request, NEW kind \in Kinds, NEW p \in Player, Ask(r, kind, p)
      PROVE  r \in Writer /\ Start(r, kind, p) /\ crossed' = crossed
  BY <1>5 DEF Ask, Writer
<1>6. ASSUME NEW p \in Player, ImportNext(p)
      PROVE  p \in Writer /\ Start(p, "add", p) /\ crossed' = crossed /\ "add" \in Kinds
  BY <1>6 DEF ImportNext, Writer, Kinds
<1>7. CASE (\E r \in Request : SetEnabled(r)) \/ Quiet
  <2>1. UNCHANGED ghosts
    BY <1>7 DEF SetEnabled, Quiet
  <2>2. QED BY <1>1, <1>2, <2>1 DEF ghosts
<1>8. QED BY <1>1, <1>2, <1>3, <1>4, <1>5, <1>6, <1>7, StepCases

LEMMA TypeOKNext == IInv /\ [Next]_vars => TypeOK'
  BY WritersTypeNext, AgentTypeNext, StoreTypeNext, GameTypeNext, GhostTypeNext DEF IInv, TypeOK

-----------------------------------------------------------------------------
(***************************************************************************)
(* What a writer's step does to its own player, and that it leaves every   *)
(* other one alone.                                                        *)
(***************************************************************************)
Bound(w) ==
    LET p == writer[w].who
        add == writer[w].kind = "add"
    IN /\ Open(w) /\ p \in Player /\ contested' = contested
       /\ \A v \in Writer \ {w} : writer'[v] = writer[v]
       /\ Open(w)' => /\ writer'[w].who = p /\ writer'[w].kind = writer[w].kind
                      /\ writer'[w].pc # "entry"

Effects(w) ==
    LET p == writer[w].who
        add == writer[w].kind = "add"
    IN /\ entry' = entry \/ (add /\ entry' = entry \union {p}) \/ (~add /\ entry' = entry \ {p})
       /\ admitted' = admitted \/ (add /\ admitted' = admitted \union {p} /\ p \in index'
                                       /\ (p \notin contested => p \in entry'))
       /\ barred' = barred \/ (~add /\ barred' = barred \union {p}
                                    /\ (p \notin contested => p \notin entry'))
       /\ Open(w)' => /\ admitted' = admitted /\ barred' = barred
                      /\ p \notin contested => (add <=> p \in entry')
       /\ crossed => crossed'
       /\ ~crossed' => \/ index' = index
                       \/ add /\ index' = index \union {p}
                       \/ ~add /\ index' = index \ {p}

LEMMA WriterBound == ASSUME IInv, NEW w \in Writer, WriterStep(w) PROVE Bound(w)
<1>1. writer[w] \in Writers /\ writer[w].who \in Player /\ writer \in [Writer -> Writers]
  BY DEF IInv, TypeOK, Writers
<1>2. Open(w) /\ contested' = contested
  BY DEF WriterStep, WriteEntry, ReadIndex, WriteIndex, Open, ghosts
<1>3. \/ End(w)
      \/ \E pc \in {"readindex", "writeindex"}, idx \in SUBSET Player :
             \/ Goto(w, pc)
             \/ writer' = [writer EXCEPT ![w].pc = pc, ![w].idx = idx]
  BY <1>1 DEF WriterStep, WriteEntry, ReadIndex, WriteIndex, FailsOnEntry, Fails, IInv, TypeOK
<1>4. CASE End(w)
  <2>1. ~Open(w)' /\ \A v \in Writer \ {w} : writer'[v] = writer[v]
    BY <1>4, EndMoves DEF IInv, TypeOK
  <2>2. QED BY <1>1, <1>2, <2>1 DEF Bound
<1>5. ASSUME NEW pc \in {"readindex", "writeindex"}, NEW idx \in SUBSET Player,
             Goto(w, pc) \/ writer' = [writer EXCEPT ![w].pc = pc, ![w].idx = idx]
      PROVE  Bound(w)
  <2>1. /\ writer'[w].pc = pc /\ writer'[w].who = writer[w].who
        /\ writer'[w].kind = writer[w].kind
        /\ \A v \in Writer \ {w} : writer'[v] = writer[v]
    BY <1>5, GotoMoves DEF IInv, TypeOK
  <2>2. QED BY <1>1, <1>2, <2>1 DEF Bound
<1>6. QED BY <1>3, <1>4, <1>5

LEMMA WriterEffects == ASSUME IInv, NEW w \in Writer, WriterStep(w) PROVE Effects(w)
<1> DEFINE p == writer[w].who
           add == writer[w].kind = "add"
<1>0. /\ writer \in [Writer -> Writers] /\ ImportsAdd /\ p \in Player
      /\ writer[w].kind \in {"add", "remove"}
  BY DEF IInv, TypeOK, Writers, Kinds
<1>1. Open(w) /\ writer[w].pc # "entry" /\ p \notin contested => (add <=> p \in entry)
  BY <1>0 DEF IInv, WritersInOrder
<1>2. CASE WriteEntry(w)
  <2>1. UNCHANGED <<index, admitted, barred, crossed, contested>>
    BY <1>2 DEF WriteEntry, ghosts
  <2>2. \/ entry' = (IF add THEN entry \union {p} ELSE entry \ {p}) /\ Goto(w, "readindex")
        \/ entry' \in {entry, IF add THEN entry \union {p} ELSE entry \ {p}} /\ End(w)
    BY <1>2 DEF WriteEntry, FailsOnEntry, Fails
  <2>3. Open(w)' => entry' = (IF add THEN entry \union {p} ELSE entry \ {p})
    BY <1>0, <2>2, EndMoves
  <2>4. QED BY <2>1, <2>2, <2>3 DEF Effects
<1>3. CASE ReadIndex(w)
  <2>1. UNCHANGED <<entry, index, crossed, contested>> /\ Open(w) /\ writer[w].pc # "entry"
    BY <1>3 DEF ReadIndex, store, Open
  <2>2. \/ /\ add /\ p \in index /\ End(w)
           /\ admitted' = admitted \union ({p} \ contested) /\ barred' = barred
        \/ UNCHANGED <<admitted, barred>>
    BY <1>3 DEF ReadIndex, Succeed
  <2>3. Open(w)' => UNCHANGED <<admitted, barred>>
    BY <1>0, <2>2, EndMoves
  <2>4. QED BY <1>1, <2>1, <2>2, <2>3 DEF Effects
<1>4. CASE WriteIndex(w)
  <2>1. UNCHANGED <<entry, contested>> /\ End(w) /\ Open(w) /\ writer[w].pc # "entry"
    BY <1>4 DEF WriteIndex, Open, Fails
  <2>2. ~Open(w)'
    BY <1>0, <2>1, EndMoves
  <2>3. NewIndex(w) = IF add THEN writer[w].idx \union {p} ELSE writer[w].idx \ {p}
    BY DEF NewIndex
  <2>4. \/ index' = NewIndex(w) /\ crossed' = (crossed \/ index # writer[w].idx)
        \/ UNCHANGED <<index, crossed>>
    BY <1>4 DEF WriteIndex
  <2>5. \/ UNCHANGED <<admitted, barred>>
        \/ /\ index' = NewIndex(w)
           /\ admitted' = (IF add THEN admitted \union ({p} \ contested) ELSE admitted)
           /\ barred' = (IF ~add THEN barred \union ({p} \ contested) ELSE barred)
    BY <1>0, <1>4 DEF WriteIndex, Succeed
  <2>6. admitted' = admitted \/ (add /\ admitted' = admitted \union {p} /\ p \in index'
                                     /\ (p \notin contested => p \in entry'))
    BY <1>1, <2>1, <2>3, <2>5
  <2>7. barred' = barred \/ (~add /\ barred' = barred \union {p}
                                  /\ (p \notin contested => p \notin entry'))
    BY <1>1, <2>1, <2>5
  <2>8. /\ crossed => crossed'
        /\ ~crossed' => \/ index' = index
                        \/ add /\ index' = index \union {p}
                        \/ ~add /\ index' = index \ {p}
    <3>1. CASE index' = NewIndex(w) /\ crossed' = (crossed \/ index # writer[w].idx)
      <4>1. crossed => crossed'
        BY <3>1, Zenon
      <4>2. ~crossed' => index = writer[w].idx
        BY <3>1, Zenon
      <4>3. QED BY <2>3, <3>1, <4>1, <4>2
    <3>2. CASE UNCHANGED <<index, crossed>>
      BY <3>2
    <3>3. QED BY <2>4, <3>1, <3>2
  <2>9. QED BY <2>1, <2>2, <2>6, <2>7, <2>8 DEF Effects
<1>5. QED BY <1>2, <1>3, <1>4 DEF WriterStep

(***************************************************************************)
(* A request, or an import, that begins.                                   *)
(***************************************************************************)
LEMMA Begins ==
    ASSUME IInv, [Next]_vars
    PROVE  \/ \E w \in Writer, kind \in Kinds, p \in Player :
                  /\ Start(w, kind, p) /\ UNCHANGED <<entry, index, crossed>>
                  /\ w \in Player => p = w /\ kind = "add"
           \/ \E w \in Writer : WriterStep(w)
           \/ \E r \in Request : SetEnabled(r)
           \/ Quiet
<1>1. ASSUME NEW r \in Request, NEW kind \in Kinds, NEW p \in Player, Ask(r, kind, p)
      PROVE  Start(r, kind, p) /\ r \in Writer \ Player /\ UNCHANGED <<entry, index, crossed>>
  BY <1>1, WritersDiffer DEF Ask, Writer, store
<1>2. ASSUME NEW p \in Player, ImportNext(p)
      PROVE  Start(p, "add", p) /\ p \in Writer /\ "add" \in Kinds /\ UNCHANGED <<entry, index, crossed>>
  BY <1>2 DEF ImportNext, Writer, Kinds, store
<1>3. QED BY <1>1, <1>2, StepCases

LEMMA SwitchQuiet ==
    ASSUME IInv, NEW r \in Request, SetEnabled(r)
    PROVE  /\ UNCHANGED <<entry, index, admitted, barred, crossed, contested>>
           /\ \A w \in Writer : Open(w)' => writer'[w] = writer[w]
<1>1. r \in Writer /\ End(r) /\ UNCHANGED <<entry, index, admitted, barred, crossed, contested>>
  BY DEF SetEnabled, Writer, ghosts
<1>2. ~Open(r)' /\ \A v \in Writer \ {r} : writer'[v] = writer[v]
  BY <1>1, EndMoves DEF IInv, TypeOK
<1>3. QED BY <1>1, <1>2

LEMMA ContestsAreSeenNext == IInv /\ [Next]_vars => ContestsAreSeen'
<1> SUFFICES ASSUME IInv, [Next]_vars PROVE ContestsAreSeen'
  OBVIOUS
<1> USE DEF ContestsAreSeen
<1>0. ContestsAreSeen
  BY DEF IInv
<1>1. ASSUME NEW w \in Writer, NEW kind \in Kinds, NEW p \in Player, Start(w, kind, p),
             w \in Player => p = w /\ kind = "add"
      PROVE  ContestsAreSeen'
  <2>0. writer \in [Writer -> Writers] /\ ImportsAdd
    BY DEF IInv, TypeOK
  <2>1. writer'[w].who = p /\ \A v \in Writer \ {w} : writer'[v] = writer[v]
    <3>1. writer'[w] = [pc |-> "entry", kind |-> kind, who |-> p, idx |-> {}]
      BY <1>1, <2>0, StartMoves, Zenon
    <3>2. \A v \in Writer \ {w} : writer'[v] = writer[v]
      BY <1>1, <2>0, StartMoves, Zenon
    <3>3. QED BY <3>1, <3>2
  <2>2. /\ contested \subseteq contested'
        /\ (\E v \in Writer \ {w} : Open(v) /\ writer[v].who = p) => p \in contested'
    BY <1>1 DEF Start
  <2>3. QED BY <1>0, <2>1, <2>2 DEF Open
<1>2. ASSUME NEW w \in Writer, WriterStep(w) PROVE ContestsAreSeen'
  BY <1>0, <1>2, WriterBound DEF Bound, Open
<1>3. ASSUME NEW r \in Request, SetEnabled(r) PROVE ContestsAreSeen'
  BY <1>0, <1>3, SwitchQuiet DEF Open
<1>4. CASE Quiet
  BY <1>0, <1>4 DEF Quiet, ghosts, Open
<1>5. QED BY <1>1, <1>2, <1>3, <1>4, Begins

LEMMA WritersInOrderNext == IInv /\ [Next]_vars => WritersInOrder'
<1> SUFFICES ASSUME IInv, [Next]_vars PROVE WritersInOrder'
  OBVIOUS
<1>0. WritersInOrder /\ ContestsAreSeen /\ \A w \in Writer : writer[w].kind \in {"add", "remove"}
  BY DEF IInv, TypeOK, Writers, Kinds
<1>1. ASSUME NEW w \in Writer, NEW kind \in Kinds, NEW p \in Player, Start(w, kind, p),
             w \in Player => p = w /\ kind = "add", UNCHANGED <<entry, index, crossed>>
      PROVE  WritersInOrder'
  <2>0. writer \in [Writer -> Writers] /\ ImportsAdd
    BY DEF IInv, TypeOK
  <2>1. /\ writer'[w].who = p /\ writer'[w].kind = kind /\ writer'[w].pc = "entry"
        /\ \A v \in Writer \ {w} : writer'[v] = writer[v]
    <3>1. writer'[w] = [pc |-> "entry", kind |-> kind, who |-> p, idx |-> {}]
      BY <1>1, <2>0, StartMoves, Zenon
    <3>2. \A v \in Writer \ {w} : writer'[v] = writer[v]
      BY <1>1, <2>0, StartMoves, Zenon
    <3>3. QED BY <3>1, <3>2
  <2>2. /\ contested \subseteq contested'
        /\ admitted' \subseteq admitted /\ barred' \subseteq barred
        /\ kind = "remove" => p \notin admitted'
        /\ kind = "add" => p \notin barred'
    BY <1>1 DEF Start
  <2>3. QED BY <1>0, <1>1, <2>1, <2>2 DEF WritersInOrder, Open, Kinds
<1>2. ASSUME NEW w \in Writer, WriterStep(w) PROVE WritersInOrder'
  <2>1. Bound(w) /\ Effects(w)
    BY <1>2, WriterBound, WriterEffects
  <2>2. ASSUME NEW v \in Writer, Open(v)', writer'[v].who \notin contested', v # w
        PROVE  IF writer'[v].kind = "add"
               THEN /\ writer'[v].who \notin barred'
                    /\ writer'[v].pc # "entry" => writer'[v].who \in entry'
               ELSE /\ writer'[v].who \notin admitted'
                    /\ writer'[v].pc # "entry" => writer'[v].who \notin entry'
    <3>1. writer'[v] = writer[v] /\ Open(v) /\ writer[v].who \notin contested
      BY <2>1, <2>2 DEF Bound, Open
    <3>2. writer[v].who # writer[w].who
      BY <1>0, <2>1, <2>2, <3>1 DEF ContestsAreSeen, Bound
    <3>3. QED BY <1>0, <2>1, <3>1, <3>2 DEF Effects, WritersInOrder
  <2>3. ASSUME Open(w)', writer'[w].who \notin contested'
        PROVE  IF writer'[w].kind = "add"
               THEN /\ writer'[w].who \notin barred'
                    /\ writer'[w].pc # "entry" => writer'[w].who \in entry'
               ELSE /\ writer'[w].who \notin admitted'
                    /\ writer'[w].pc # "entry" => writer'[w].who \notin entry'
    <3>1. /\ writer'[w].who = writer[w].who /\ writer'[w].kind = writer[w].kind /\ Open(w)
          /\ writer[w].who \notin contested
      BY <2>1, <2>3 DEF Bound
    <3>2. QED BY <1>0, <2>1, <2>3, <3>1 DEF Effects, WritersInOrder
  <2>4. QED BY <2>2, <2>3 DEF WritersInOrder
<1>3. ASSUME NEW r \in Request, SetEnabled(r) PROVE WritersInOrder'
  BY <1>0, <1>3, SwitchQuiet DEF WritersInOrder, Open
<1>4. CASE Quiet
  BY <1>0, <1>4 DEF Quiet, ghosts, Open, WritersInOrder
<1>5. QED BY <1>1, <1>2, <1>3, <1>4, Begins

LEMMA ListsNext == IInv /\ [Next]_vars => EntriesInOrder' /\ AddedIsListed'
<1> SUFFICES ASSUME IInv, [Next]_vars PROVE EntriesInOrder' /\ AddedIsListed'
  OBVIOUS
<1> USE DEF EntriesInOrder, AddedIsListed, Listed
<1>0. EntriesInOrder /\ AddedIsListed
  BY DEF IInv
<1>1. ASSUME NEW w \in Writer, NEW kind \in Kinds, NEW p \in Player, Start(w, kind, p),
             UNCHANGED <<entry, index, crossed>>
      PROVE  EntriesInOrder' /\ AddedIsListed'
  <2>1. /\ contested \subseteq contested'
        /\ admitted' \subseteq admitted /\ barred' \subseteq barred
    BY <1>1 DEF Start
  <2>2. QED BY <1>0, <1>1, <2>1
<1>2. ASSUME NEW w \in Writer, WriterStep(w) PROVE EntriesInOrder' /\ AddedIsListed'
  <2>1. Effects(w) /\ contested' = contested /\ Open(w)
    BY <1>2, WriterBound, WriterEffects DEF Bound
  <2>2. writer[w].who \notin contested =>
            IF writer[w].kind = "add" THEN writer[w].who \notin barred
            ELSE writer[w].who \notin admitted
    BY <2>1 DEF IInv, WritersInOrder
  <2>3. EntriesInOrder'
    BY <1>0, <2>1, <2>2 DEF Effects
  <2>4. AddedIsListed'
    BY <1>0, <2>1, <2>2, <2>3 DEF Effects
  <2>5. QED BY <2>3, <2>4
<1>3. ASSUME NEW r \in Request, SetEnabled(r) PROVE EntriesInOrder' /\ AddedIsListed'
  BY <1>0, <1>3, SwitchQuiet
<1>4. CASE Quiet
  BY <1>0, <1>4 DEF Quiet, ghosts
<1>5. QED BY <1>1, <1>2, <1>3, <1>4, Begins

-----------------------------------------------------------------------------
(***************************************************************************)
(* The stored entries agree with the requests that have succeeded and with *)
(* those under way, whatever fails and whenever the agent imports          *)
(* (dapr.go:205-290, whitelist.go:18-270, machine-agent/main.go:346-396).  *)
(***************************************************************************)
THEOREM WhitelistInvariant == Spec => []IInv
<1>1. IInv /\ [Next]_vars => IInv'
  BY TypeOKNext, WritersTypeNext, ContestsAreSeenNext, WritersInOrderNext, ListsNext DEF IInv
<1>2. QED
  BY IInvInit, <1>1, PTL DEF Spec

(***************************************************************************)
(* A player whose addition succeeded stays listed until a removal is asked *)
(* for, unless index updates have crossed or two requests were about the   *)
(* player (dapr.go:242-268).                                               *)
(***************************************************************************)
THEOREM AddedStaysListed == Spec => []AddedIsListed
<1>1. IInv => AddedIsListed
  BY DEF IInv
<1>2. QED
  BY <1>1, WhitelistInvariant, PTL

(***************************************************************************)
(* A player whose removal succeeded stays unlisted until an addition or an *)
(* import begins, even where an older index was written back               *)
(* (dapr.go:270-290, 205-240).                                             *)
(***************************************************************************)
THEOREM RemovedStaysUnlisted == Spec => []RemovedIsUnlisted
<1>1. IInv => RemovedIsUnlisted
  BY DEF IInv, EntriesInOrder, RemovedIsUnlisted, Listed
<1>2. QED
  BY <1>1, WhitelistInvariant, PTL
=============================================================================
