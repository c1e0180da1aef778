------------------------------ MODULE Registry ------------------------------
(***************************************************************************)
(* The process's live agents (agent/process/registry.rs): spawned on       *)
(* demand by whoever has something to ring for, taken out of the map when  *)
(* their task ends, drained when the process stops.                        *)
(*                                                                         *)
(* An agent is named by its generation. The lock's two sections of         *)
(* get_or_create are two steps, and anything may happen between them. Of   *)
(* what an agent does, only whether its task is alive is kept.             *)
(***************************************************************************)
EXTENDS Integers, FiniteSets

CONSTANTS
  Conversations, Callers,
  MaxSpawns,  \* bound: generations that exist
  MaxPanics   \* bound: agents whose task panics

ASSUME RegistryAssumption ==
  Conversations # {} /\ MaxSpawns \in Nat /\ MaxPanics \in Nat

Generations == 1..MaxSpawns
NoEntry == 0

VARIABLES
  entry,      \* Conversation -> the generation the map holds for it, or none
  task,       \* generation -> what its task is doing
  home,       \* generation -> its Conversation
  permit,     \* generation -> its doorbell's permit
  caller,     \* caller -> where it stands in get_or_create, with which handle
  generations,\* AgentRegistry::generations, the last one handed out
  cancelled,  \* AgentRegistry::shutdown
  leases,     \* the leases drain waits for
  drained,    \* generations drain took out of the map
  panics

regvars == <<entry, task, home, permit, caller, generations, cancelled, leases, drained, panics>>

\* "cut": aborted, with its last step still running. "leaving": past its run,
\* before the map's lock.
Tasks == {"none", "building", "running", "leaving", "cut", "finished"}
Alive(g) == task[g] \in {"building", "running", "cut"}
Finished(g) == task[g] = "finished"

RegistryTypeOK ==
  /\ entry \in [Conversations -> {NoEntry} \cup Generations]
  /\ task \in [Generations -> Tasks] /\ home \in [Generations -> Conversations]
  /\ permit \in [Generations -> BOOLEAN]
  /\ caller \in [Callers -> [at : {"away", "missed", "holding"}, of : Conversations,
                             handle : {NoEntry} \cup Generations]]
  /\ generations \in {NoEntry} \cup Generations /\ cancelled \in BOOLEAN
  /\ leases \subseteq drained /\ drained \subseteq Generations /\ panics \in 0..MaxPanics
  /\ \A g \in Generations : task[g] = "none" <=> g > generations

AnyConversation == CHOOSE c \in Conversations : TRUE

RegistryInit ==
  /\ entry = [c \in Conversations |-> NoEntry]
  /\ task = [g \in Generations |-> "none"]
  /\ home = [g \in Generations |-> AnyConversation]
  /\ permit = [g \in Generations |-> FALSE]
  /\ caller = [p \in Callers |-> [at |-> "away", of |-> AnyConversation, handle |-> NoEntry]]
  /\ generations = NoEntry /\ cancelled = FALSE /\ leases = {} /\ drained = {} /\ panics = 0

-----------------------------------------------------------------------------
HandleOf(c) == IF entry[c] # NoEntry /\ ~Finished(entry[c]) THEN entry[c] ELSE NoEntry

\* get_or_create under the read lock.
Ask(p, c) ==
  /\ caller[p].at = "away"
  /\ caller' = [caller EXCEPT ![p] =
       IF HandleOf(c) # NoEntry THEN [at |-> "holding", of |-> c, handle |-> HandleOf(c)]
                                ELSE [at |-> "missed", of |-> c, handle |-> NoEntry]]
  /\ UNCHANGED <<entry, task, home, permit, generations, cancelled, leases, drained, panics>>

\* get, which spawns nobody: what a status query, a digest or a page reaches an
\* agent with.
Reach(p, c) ==
  /\ caller[p].at = "away" /\ HandleOf(c) # NoEntry
  /\ caller' = [caller EXCEPT ![p] = [at |-> "holding", of |-> c, handle |-> HandleOf(c)]]
  /\ UNCHANGED <<entry, task, home, permit, generations, cancelled, leases, drained, panics>>

\* Dropping an entry drops its lease, which aborts a task that still lives.
Dropping(dropped) ==
  [g \in Generations |-> IF g \in dropped /\ Alive(g) THEN "cut" ELSE task[g]]

\* retain: a write lock taken to create drops every entry whose task is over.
Pruned == [c \in Conversations |->
             IF entry[c] # NoEntry /\ Finished(entry[c]) THEN NoEntry ELSE entry[c]]

FoundMutant(c) == NoEntry                       \* OneAgentPerConversation
\* The write lock looks again: another caller may have been faster.
Found(c) == Pruned[c]

\* get_or_create under the write lock, and spawn.
Create(p) ==
  LET c == caller[p].of
      new == generations + 1
  IN  /\ caller[p].at = "missed"
      /\ IF Found(c) # NoEntry
         THEN /\ entry' = Pruned
              /\ caller' = [caller EXCEPT ![p].at = "holding", ![p].handle = Found(c)]
              /\ UNCHANGED <<task, home, generations>>
         ELSE /\ new \in Generations
              /\ entry' = [Pruned EXCEPT ![c] = new]
              /\ task' = [Dropping({Pruned[c]}) EXCEPT ![new] = "building"]
              /\ home' = [home EXCEPT ![new] = c]
              /\ generations' = new
              /\ caller' = [caller EXCEPT ![p].at = "holding", ![p].handle = new]
      /\ UNCHANGED <<permit, cancelled, leases, drained, panics>>

\* The caller rings with the handle it was given, however long ago.
Notify(p) ==
  /\ caller[p].at = "holding"
  /\ permit' = [permit EXCEPT ![caller[p].handle] = TRUE]
  /\ caller' = [caller EXCEPT ![p].at = "away", ![p].handle = NoEntry]
  /\ UNCHANGED <<entry, task, home, generations, cancelled, leases, drained, panics>>

-----------------------------------------------------------------------------
(***************************************************************************)
(* The spawned task                                                        *)
(***************************************************************************)
Goes(g, to) == /\ task' = [task EXCEPT ![g] = to]
               /\ UNCHANGED <<entry, home, caller, generations, cancelled, leases, drained>>

\* ConversationAgent::new restores the Conversation, or fails.
Build(g) == /\ task[g] = "building"
            /\ Goes(g, "running") \/ Goes(g, "leaving")
            /\ UNCHANGED <<permit, panics>>

Serve(g) == /\ task[g] = "running" /\ permit[g]
            /\ permit' = [permit EXCEPT ![g] = FALSE]
            /\ UNCHANGED <<entry, task, home, caller, generations, cancelled, leases, drained, panics>>

\* The run ends at an idle expiry, or because the process stops.
Leave(g) == /\ task[g] = "running" /\ (cancelled \/ ~permit[g])
            /\ Goes(g, "leaving")
            /\ UNCHANGED <<permit, panics>>

PanicRun(g) == /\ task[g] = "running" /\ panics < MaxPanics
               /\ panics' = panics + 1
               /\ Goes(g, "finished")
               /\ UNCHANGED permit

\* What an aborted task was in ends at its next await.
Die(g) == /\ task[g] = "cut"
          /\ Goes(g, "finished")
          /\ UNCHANGED <<permit, panics>>

IsOwnMutant(g) == entry[home[g]] # NoEntry     \* OneAgentPerConversation
\* A task removes its own entry, not the one a replacement stands in.
IsOwn(g) == entry[home[g]] = g

Remove(g) ==
  /\ task[g] = "leaving"
  /\ LET gone == IF IsOwn(g) THEN {entry[home[g]]} ELSE {}
     IN  /\ task' = [Dropping(gone) EXCEPT ![g] = "finished"]
         /\ entry' = IF gone # {} THEN [entry EXCEPT ![home[g]] = NoEntry] ELSE entry
  /\ UNCHANGED <<home, permit, caller, generations, cancelled, leases, drained, panics>>

-----------------------------------------------------------------------------
(***************************************************************************)
(* The end of the process                                                  *)
(***************************************************************************)
Cancel == /\ ~cancelled /\ cancelled' = TRUE
          /\ UNCHANGED <<entry, task, home, permit, caller, generations, leases, drained, panics>>

\* drain empties the map and joins what was in it. A caller that comes later
\* spawns again, into a registry that is already cancelled.
Drain ==
  /\ cancelled /\ drained = {}
  /\ LET taken == {entry[c] : c \in Conversations} \ {NoEntry}
     IN  leases' = taken /\ drained' = taken /\ taken # {}
  /\ entry' = [c \in Conversations |-> NoEntry]
  /\ UNCHANGED <<task, home, permit, caller, generations, cancelled, panics>>

Join(g) == /\ g \in leases /\ Finished(g)
           /\ leases' = leases \ {g}
           /\ UNCHANGED <<entry, task, home, permit, caller, generations, cancelled, drained, panics>>

\* A lease that outlives the deadline is dropped, which aborts its task.
Abandon(g) == /\ g \in leases /\ ~Finished(g)
              /\ leases' = leases \ {g}
              /\ task' = Dropping({g})
              /\ UNCHANGED <<entry, home, permit, caller, generations, cancelled, drained, panics>>

RegistryNext ==
  \/ \E p \in Callers : Create(p) \/ Notify(p) \/ \E c \in Conversations : Ask(p, c) \/ Reach(p, c)
  \/ \E g \in Generations : Build(g) \/ Serve(g) \/ Leave(g) \/ PanicRun(g) \/ Die(g) \/ Remove(g)
                            \/ Join(g) \/ Abandon(g)
  \/ Cancel \/ Drain

RegistrySpec == RegistryInit /\ [][RegistryNext]_regvars

-----------------------------------------------------------------------------
(* Two callers that miss at once share one agent, and the map holds it:    *)
(* no Conversation has two tasks that live, and nobody loses a live agent  *)
(* but to the drain, whose agents a late caller may overlap.               *)
OneAgentPerConversation ==
  /\ \A g, h \in Generations \ drained :
       Alive(g) /\ Alive(h) /\ home[g] = home[h] => g = h
  /\ \A g \in Generations \ drained : Alive(g) => entry[home[g]] = g /\ task[g] # "cut"
=============================================================================
