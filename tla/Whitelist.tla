----------------------------- MODULE Whitelist -----------------------------
(***************************************************************************)
(* The whitelist of one server: the entries, their index and the switch in *)
(* the state store (internal/db/dapr.go), changed by the whitelist handlers*)
(* of the API (internal/handlers/servers/whitelist.go) and of the agent    *)
(* (internal/handlers/agent), and the list of the Minecraft server, which  *)
(* the agent imports once when it starts and follows the store's from then *)
(* on (cmd/machine-agent).                                                 *)
(*                                                                         *)
(* Entry and index are written one after the other, the index by reading   *)
(* and replacing it.  A call of the agent that has timed out goes on in    *)
(* the controller.                                                         *)
(***************************************************************************)
EXTENDS Naturals, FiniteSets

CONSTANTS
    Player,
    Request,      \* requests of the API, each made once
    MaxEvents     \* bound on the requests, failing calls and restarts together

ASSUME WritersDiffer == Player \intersect Request = {}
ASSUME SomePlayer == Player # {}
ASSUME BoundsType == MaxEvents \in Nat

\* A writer is a request, or the import of a player.
Writer == Request \union Player

VARIABLES
    entry,      \* the players with a stored entry
    index,      \* the stored index
    enabled,    \* the stored switch; a missing one reads as off
    writer,     \* the handlers under way
    game,       \* whitelist.json
    on,         \* white-list in server.properties
    up,         \* minecraft.service is running
    agent,      \* the agent: its next step, and what it has read
    events,     \* requests, failing calls and restarts so far
    admitted,   \* players added, and not asked to be removed since
    barred,     \* players removed, and not being added since
    crossed,    \* an index was written over a newer one than the one read
    contested   \* players with two writers at once

store == <<entry, index, enabled>>
minecraft == <<game, on, up>>
ghosts == <<admitted, barred, crossed, contested>>
vars == <<store, writer, minecraft, agent, events, ghosts>>

Kinds == {"add", "remove"}
Writers == [pc : {"new", "entry", "readindex", "writeindex", "done"}, kind : Kinds,
            who : Player, idx : SUBSET Player]
AgentPCs == {"import", "file", "adding", "waiting", "setconfig", "tick", "entries", "apply"}
Agents == [pc : AgentPCs, todo : SUBSET Player, cfg : BOOLEAN, want : SUBSET Player]

TypeOK ==
    /\ entry \subseteq Player /\ index \subseteq Player /\ enabled \in BOOLEAN
    /\ writer \in [Writer -> Writers]
    /\ game \subseteq Player /\ on \in BOOLEAN /\ up \in BOOLEAN
    /\ agent \in Agents
    /\ events \in 0..MaxEvents
    /\ admitted \subseteq Player /\ barred \subseteq Player
    /\ crossed \in BOOLEAN /\ contested \subseteq Player

Listed == entry \intersect index

Blank(w, pc) == [pc |-> pc, kind |-> "add", idx |-> {},
                 who |-> IF w \in Player THEN w ELSE CHOOSE p \in Player : TRUE]
Started == [pc |-> "import", todo |-> {}, cfg |-> FALSE, want |-> {}]
Ticking == [Started EXCEPT !.pc = "tick"]

\* A server without a whitelist, one that has yet to be imported, or one in step.
Init ==
    /\ index \in {{}, Player} /\ entry = index /\ on \in BOOLEAN
    /\ game \in {index, Player} /\ enabled = (on /\ index # {})
    /\ writer = [w \in Writer |-> Blank(w, "new")]
    /\ agent = Started /\ up = TRUE
    /\ events = 0
    /\ admitted = index /\ barred = {} /\ crossed = FALSE /\ contested = {}

Event == events < MaxEvents /\ events' = events + 1

\* A call that fails.
Fault == Event

-----------------------------------------------------------------------------
(***************************************************************************)
(* AddWhitelistEntry and RemoveWhitelistEntry                              *)
(***************************************************************************)
Open(w) == writer[w].pc \in {"entry", "readindex", "writeindex"}

Goto(w, pc) == writer' = [writer EXCEPT ![w].pc = pc]

End(w) == writer' = [writer EXCEPT ![w] = Blank(w, "done")]

Start(w, kind, p) ==
    /\ writer[w].pc \in {"new", "done"}
    /\ writer' = [writer EXCEPT ![w] = [pc |-> "entry", kind |-> kind, who |-> p, idx |-> {}]]
    /\ contested' = IF \E v \in Writer \ {w} : Open(v) /\ writer[v].who = p
                    THEN contested \union {p} ELSE contested
    /\ admitted' = (IF kind = "remove" THEN admitted \ {p} ELSE admitted) \ contested'
    /\ barred' = (IF kind = "add" THEN barred \ {p} ELSE barred) \ contested'

\* AddWhitelistByID, RemoveWhitelistByID
Ask(r, kind, p) ==
    /\ writer[r].pc = "new"
    /\ Start(r, kind, p)
    /\ Event
    /\ UNCHANGED <<store, minecraft, agent, crossed>>

Fails(w) ==
    /\ Fault
    /\ End(w)

\* A slip for the properties to catch: an entry that cannot be deleted is only logged.
LoggedOnly(w) ==
    /\ Fault
    /\ IF writer[w].kind = "remove" THEN Goto(w, "readindex") ELSE End(w)

FailsOnEntry(w) == Fails(w)

\* The write may have been made when it fails.
WriteEntry(w) ==
    /\ writer[w].pc = "entry"
    /\ LET p == writer[w].who
           written == IF writer[w].kind = "add" THEN entry \union {p} ELSE entry \ {p}
       IN \/ entry' = written /\ Goto(w, "readindex") /\ UNCHANGED events
          \/ entry' \in {entry, written} /\ FailsOnEntry(w)
    /\ UNCHANGED <<index, enabled, minecraft, agent, ghosts>>

\* The answer: the player is admitted, or barred, unless contested.
Succeed(w) ==
    LET own == {writer[w].who} \ contested
    IN /\ admitted' = IF writer[w].kind = "add" THEN admitted \union own ELSE admitted
       /\ barred' = IF writer[w].kind = "remove" THEN barred \union own ELSE barred

\* A player who is in the index already is not added again.
ReadIndex(w) ==
    /\ writer[w].pc = "readindex"
    /\ \/ /\ writer[w].kind = "add" /\ writer[w].who \in index
          /\ End(w) /\ Succeed(w) /\ UNCHANGED events
       \/ /\ writer[w].kind = "remove" \/ writer[w].who \notin index
          /\ writer' = [writer EXCEPT ![w].pc = "writeindex", ![w].idx = index]
          /\ UNCHANGED <<admitted, barred, events>>
       \/ Fails(w) /\ UNCHANGED <<admitted, barred>>
    /\ UNCHANGED <<store, minecraft, agent, crossed, contested>>

\* A slip for the properties to catch: the index of an addition holds the new player only.
OnlyNew(w) ==
    IF writer[w].kind = "add" THEN {writer[w].who} ELSE writer[w].idx \ {writer[w].who}

NewIndex(w) ==
    IF writer[w].kind = "add" THEN writer[w].idx \union {writer[w].who}
    ELSE writer[w].idx \ {writer[w].who}

WriteIndex(w) ==
    /\ writer[w].pc = "writeindex"
    /\ \/ /\ index' = NewIndex(w)
          /\ crossed' = (crossed \/ index # writer[w].idx)
       \/ UNCHANGED <<index, crossed>>
    /\ \/ /\ index' = NewIndex(w)
          /\ End(w) /\ Succeed(w) /\ UNCHANGED events
       \/ Fails(w) /\ UNCHANGED <<admitted, barred>>
    /\ UNCHANGED <<entry, enabled, minecraft, agent, contested>>

\* SetWhitelistEnabledByID
SetEnabled(r) ==
    /\ writer[r].pc = "new"
    /\ End(r)
    /\ enabled' = ~enabled
    /\ Event
    /\ UNCHANGED <<entry, index, minecraft, agent, ghosts>>

-----------------------------------------------------------------------------
(***************************************************************************)
(* importWhitelistIfEmpty, once when the agent starts                      *)
(***************************************************************************)
\* GetWhitelistEntries leaves out an entry it cannot read.
ReadEntries(read) ==
    \/ read = Listed /\ UNCHANGED events
    \/ read \in SUBSET Listed \ {Listed} /\ Fault

\* An error reads as no entries.
CheckStore ==
    /\ agent.pc = "import"
    /\ \E read \in SUBSET Listed :
           /\ ReadEntries(read)
           /\ agent' = IF read = {} THEN [agent EXCEPT !.pc = "file"] ELSE Ticking
    /\ UNCHANGED <<store, writer, minecraft, ghosts>>

ReadFile ==
    /\ agent.pc = "file"
    /\ agent' = IF up /\ game # {} THEN [agent EXCEPT !.pc = "adding", !.todo = game] ELSE Ticking
    /\ UNCHANGED <<store, writer, minecraft, events, ghosts>>

\* HandleAddWhitelistEntry
ImportNext(p) ==
    /\ agent.pc = "adding" /\ p \in agent.todo
    /\ Start(p, "add", p)
    /\ agent' = [agent EXCEPT !.pc = "waiting", !.todo = @ \ {p}, !.want = {p}]
    /\ UNCHANGED <<store, minecraft, events, crossed>>

\* The call returns, or it times out.
ImportReturns ==
    /\ agent.pc = "waiting"
    /\ \/ (\A p \in agent.want : ~Open(p)) /\ UNCHANGED events
       \/ Fault
    /\ agent' = [agent EXCEPT !.pc = IF agent.todo = {} THEN "setconfig" ELSE "adding", !.want = {}]
    /\ UNCHANGED <<store, writer, minecraft, ghosts>>

\* getWhitelistEnabledStatus reads a file of the container.
EnabledStatus == up /\ on

ImportConfig ==
    /\ agent.pc = "setconfig"
    /\ \/ enabled' = EnabledStatus /\ UNCHANGED events
       \/ UNCHANGED enabled /\ Fault
    /\ agent' = Ticking
    /\ UNCHANGED <<entry, index, writer, minecraft, ghosts>>

(***************************************************************************)
(* syncWhitelist, on every tick with Minecraft running                     *)
(***************************************************************************)
\* An error reads as off.
GetConfig ==
    /\ agent.pc = "tick" /\ up
    /\ \/ agent' = [agent EXCEPT !.pc = "entries", !.cfg = enabled] /\ UNCHANGED events
       \/ agent' = [agent EXCEPT !.pc = "entries", !.cfg = FALSE] /\ Fault
    /\ UNCHANGED <<store, writer, minecraft, ghosts>>

GetEntries ==
    /\ agent.pc = "entries"
    /\ \/ \E read \in SUBSET Listed :
              ReadEntries(read) /\ agent' = [agent EXCEPT !.pc = "apply", !.want = read]
       \/ Fault /\ agent' = Ticking
    /\ UNCHANGED <<store, writer, minecraft, ghosts>>

\* A slip for the properties to catch: players are only added.
OnlyAdded(want) == game \union want

Followed(want) == want

\* The commands over RCON, each of which may fail.
Apply ==
    /\ agent.pc = "apply"
    /\ \/ up /\ game' = Followed(agent.want) /\ on' = agent.cfg /\ UNCHANGED events
       \/ /\ game' \in {(game \ gone) \union new :
                            gone \in SUBSET (game \ agent.want), new \in SUBSET (agent.want \ game)}
          /\ on' \in {on, agent.cfg}
          /\ Fault
       \/ ~up /\ UNCHANGED <<game, on, events>>
    /\ agent' = Ticking
    /\ UNCHANGED <<store, writer, up, ghosts>>

-----------------------------------------------------------------------------
AgentRestarts ==
    /\ Event
    /\ agent' = Started
    /\ UNCHANGED <<store, writer, minecraft, ghosts>>

MinecraftStops ==
    /\ up /\ Event
    /\ up' = FALSE
    /\ UNCHANGED <<store, writer, game, on, agent, ghosts>>

MinecraftStarts ==
    /\ ~up
    /\ up' = TRUE
    /\ UNCHANGED <<store, writer, game, on, agent, events, ghosts>>

RequestStep(r) ==
    \/ \E kind \in Kinds, p \in Player : Ask(r, kind, p)
    \/ SetEnabled(r)

WriterStep(w) == WriteEntry(w) \/ ReadIndex(w) \/ WriteIndex(w)

AgentStep ==
    \/ CheckStore \/ ReadFile \/ (\E p \in Player : ImportNext(p)) \/ ImportReturns \/ ImportConfig
    \/ GetConfig \/ GetEntries \/ Apply

Next ==
    \/ \E r \in Request : RequestStep(r)
    \/ \E w \in Writer : WriterStep(w)
    \/ AgentStep
    \/ AgentRestarts \/ MinecraftStops \/ MinecraftStarts

Spec == Init /\ [][Next]_vars

(***************************************************************************)
(* Handlers return, the agent ticks, and the service is restarted.         *)
(***************************************************************************)
Fairness ==
    /\ WF_vars(\E w \in Writer : WriterStep(w))
    /\ WF_vars(AgentStep) /\ WF_vars(MinecraftStarts)

FairSpec == Spec /\ Fairness

-----------------------------------------------------------------------------
(***************************************************************************)
(* A player whose addition succeeded is listed until a removal is asked    *)
(* for, whatever fails and whenever the agent imports: unless two updates  *)
(* of the index have crossed, or two requests were about the player.       *)
(***************************************************************************)
AddedIsListed == crossed \/ admitted \ contested \subseteq Listed

(***************************************************************************)
(* A player whose removal succeeded is not listed until an addition or an  *)
(* import begins, even when an older index is written back.                *)
(***************************************************************************)
RemovedIsUnlisted == (barred \ contested) \intersect Listed = {}

(***************************************************************************)
(* Once requests, failures and restarts have ended, Minecraft has the      *)
(* store's whitelist, and keeps it.                                        *)
(***************************************************************************)
GameFollowsStore == <>[](game = Listed /\ on = enabled)

-----------------------------------------------------------------------------
(***************************************************************************)
(* The inductive invariant                                                 *)
(***************************************************************************)
\* An import adds the player it is about.
ImportsAdd == \A p \in Player : writer[p].who = p /\ writer[p].kind = "add"

ContestsAreSeen ==
    \A v, w \in Writer : Open(v) /\ Open(w) /\ writer[v].who = writer[w].who /\ v # w
                             => writer[v].who \in contested

\* Alone with a player, a writer finds the entry as it has left it, and nobody
\* takes the player for admitted or barred but by its own success.
WritersInOrder ==
    \A w \in Writer :
        LET p == writer[w].who
        IN Open(w) /\ p \notin contested
           => IF writer[w].kind = "add"
              THEN p \notin barred /\ (writer[w].pc # "entry" => p \in entry)
              ELSE p \notin admitted /\ (writer[w].pc # "entry" => p \notin entry)

EntriesInOrder ==
    /\ admitted \ contested \subseteq entry
    /\ (barred \ contested) \intersect entry = {}

IInv ==
    /\ TypeOK /\ ImportsAdd /\ ContestsAreSeen /\ WritersInOrder /\ EntriesInOrder
    /\ AddedIsListed
=============================================================================
