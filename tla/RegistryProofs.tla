--------------------------- MODULE RegistryProofs ---------------------------
(***************************************************************************)
(* Registry keeps one live agent per Conversation, whatever the callers,   *)
(* the Conversations and the number of spawns. The invariant is inductive  *)
(* as it stands, together with the types.                                  *)
(***************************************************************************)
EXTENDS Registry, TLAPS

Inv == RegistryTypeOK /\ OneAgentPerConversation

USE RegistryAssumption DEF RegistryAssumption, Generations, NoEntry, Tasks

Settled(g) == Alive(g) => entry[home[g]] = g /\ task[g] # "cut"

\* The second half of the property says it all: an entry is one agent's.
LEMMA MapHoldsAll ==
  ASSUME \A g \in Generations \ drained : Settled(g)
  PROVE  OneAgentPerConversation
BY DEF Settled, OneAgentPerConversation, Alive

Caller == [at : {"away", "missed", "holding"}, of : Conversations,
           handle : {NoEntry} \cup Generations]

LEMMA InitHolds == RegistryInit => Inv
<1>. SUFFICES ASSUME RegistryInit PROVE Inv
  OBVIOUS
<1>1. AnyConversation \in Conversations
  BY DEF AnyConversation
<1>2. RegistryTypeOK
  <2>1. [at |-> "away", of |-> AnyConversation, handle |-> NoEntry] \in Caller
    BY <1>1 DEF Caller
  <2>2. caller \in [Callers -> Caller]
    BY <2>1 DEF RegistryInit
  <2>3. \A g \in Generations : task[g] = "none" /\ g > generations
    BY DEF RegistryInit
  <2>4. /\ entry \in [Conversations -> {NoEntry} \cup Generations]
        /\ task \in [Generations -> Tasks] /\ permit \in [Generations -> BOOLEAN]
    BY DEF RegistryInit
  <2>6. home \in [Generations -> Conversations]
    BY <1>1 DEF RegistryInit
  <2>5. /\ generations \in {NoEntry} \cup Generations
        /\ leases \subseteq drained /\ drained \subseteq Generations /\ panics \in 0..MaxPanics
    BY DEF RegistryInit
  <2>7. cancelled \in BOOLEAN
    BY Zenon DEF RegistryInit
  <2>. QED BY <2>2, <2>3, <2>4, <2>5, <2>6, <2>7 DEF RegistryTypeOK, Caller
<1>3. OneAgentPerConversation
  BY DEF RegistryInit, OneAgentPerConversation, Alive
<1>. QED BY <1>2, <1>3 DEF Inv

-----------------------------------------------------------------------------
(***************************************************************************)
(* A caller's step                                                         *)
(***************************************************************************)
LEMMA CallerKeeps ==
  ASSUME Inv, NEW p \in Callers, NEW q \in Caller,
         caller' = [caller EXCEPT ![p] = q],
         permit' \in [Generations -> BOOLEAN],
         UNCHANGED <<entry, task, home, generations, cancelled, leases, drained, panics>>
  PROVE  Inv'
<1>1. caller' \in [Callers -> Caller]
  BY DEF Inv, RegistryTypeOK, Caller
<1>2. RegistryTypeOK'
  BY <1>1 DEF Inv, RegistryTypeOK, Caller
<1>3. OneAgentPerConversation'
  BY DEF Inv, OneAgentPerConversation, Alive
<1>. QED BY <1>2, <1>3 DEF Inv

LEMMA AskKeeps ==
  ASSUME Inv, NEW p \in Callers, NEW c \in Conversations, Ask(p, c) \/ Reach(p, c)
  PROVE  Inv'
<1>1. HandleOf(c) \in {NoEntry} \cup Generations
  BY DEF Inv, RegistryTypeOK, HandleOf
<1>2. \A at \in {"holding", "missed"}, h \in {NoEntry} \cup Generations :
        [at |-> at, of |-> c, handle |-> h] \in Caller
  BY DEF Caller
<1>3. permit' \in [Generations -> BOOLEAN]
  BY DEF Inv, RegistryTypeOK, Ask, Reach
<1>4. CASE Ask(p, c)
  <2>. DEFINE q == IF HandleOf(c) # NoEntry
                   THEN [at |-> "holding", of |-> c, handle |-> HandleOf(c)]
                   ELSE [at |-> "missed", of |-> c, handle |-> NoEntry]
  <2>1. q \in Caller
    BY <1>1, <1>2
  <2>2. caller' = [caller EXCEPT ![p] = q]
    BY <1>4 DEF Ask
  <2>. QED BY <1>3, <1>4, <2>1, <2>2, CallerKeeps DEF Ask
<1>5. CASE Reach(p, c)
  <2>. DEFINE q == [at |-> "holding", of |-> c, handle |-> HandleOf(c)]
  <2>1. q \in Caller
    BY <1>1, <1>2
  <2>. QED BY <1>3, <1>5, <2>1, CallerKeeps DEF Reach
<1>. QED BY <1>4, <1>5

LEMMA NotifyKeeps ==
  ASSUME Inv, NEW p \in Callers, Notify(p)
  PROVE  Inv'
<1>. DEFINE q == [caller[p] EXCEPT !.at = "away", !.handle = NoEntry]
<1>1. caller[p] \in Caller
  BY DEF Inv, RegistryTypeOK, Caller
<1>2. q \in Caller
  BY <1>1 DEF Caller
<1>3. caller' = [caller EXCEPT ![p] = q]
  BY <1>1 DEF Notify, Caller, Inv, RegistryTypeOK
<1>4. permit' \in [Generations -> BOOLEAN]
  BY DEF Notify, Inv, RegistryTypeOK
<1>. QED BY <1>2, <1>3, <1>4, CallerKeeps DEF Notify

-----------------------------------------------------------------------------
(***************************************************************************)
(* Steps of a task that touch neither the map nor who waits for it         *)
(***************************************************************************)
LEMMA GoesKeeps ==
  ASSUME Inv, NEW g \in Generations, NEW to \in Tasks \ {"none", "cut"}, Goes(g, to),
         task[g] # "none", to \in {"building", "running"} => Alive(g) /\ task[g] # "cut",
         permit' \in [Generations -> BOOLEAN], panics' \in 0..MaxPanics
  PROVE  Inv'
<1>1. RegistryTypeOK'
  <2>1. \A h \in Generations : task'[h] = "none" <=> h > generations'
    BY DEF Inv, RegistryTypeOK, Goes
  <2>. QED BY <2>1 DEF Inv, RegistryTypeOK, Goes
<1>2. \A h \in Generations \ drained' : Settled(h)'
  BY DEF Inv, RegistryTypeOK, Goes, OneAgentPerConversation, Alive, Settled
<1>. QED BY <1>1, <1>2 DEF Inv, Settled, OneAgentPerConversation, Alive

\* A task that is aborted is one the map no longer holds, or a drained one.
LEMMA TaskStep ==
  ASSUME Inv, NEW g \in Generations,
         Build(g) \/ Serve(g) \/ Leave(g) \/ PanicRun(g) \/ Die(g)
  PROVE  Inv'
<1>1. permit \in [Generations -> BOOLEAN] /\ panics \in 0..MaxPanics
  BY DEF Inv, RegistryTypeOK
<1>2. CASE Build(g)
  <2>1. permit' = permit /\ panics' = panics
    BY <1>2 DEF Build
  <2>2. Goes(g, "running") \/ Goes(g, "leaving")
    BY <1>2 DEF Build
  <2>3. task[g] = "building"
    BY <1>2 DEF Build
  <2>. QED BY <1>1, <2>1, <2>2, <2>3, GoesKeeps DEF Alive
<1>3. CASE Serve(g)
  <2>1. permit' \in [Generations -> BOOLEAN]
    BY <1>1, <1>3 DEF Serve
  <2>2. RegistryTypeOK'
    BY <1>3, <2>1 DEF Serve, Inv, RegistryTypeOK
  <2>3. OneAgentPerConversation'
    BY <1>3 DEF Serve, Inv, OneAgentPerConversation, Alive
  <2>. QED BY <2>2, <2>3 DEF Inv
<1>4. CASE Leave(g)
  BY <1>1, <1>4, GoesKeeps DEF Leave
<1>5. CASE PanicRun(g)
  <2>1. panics' \in 0..MaxPanics
    BY <1>1, <1>5 DEF PanicRun
  <2>2. permit' = permit /\ Goes(g, "finished") /\ task[g] = "running"
    BY <1>5 DEF PanicRun
  <2>. QED BY <1>1, <2>1, <2>2, GoesKeeps
<1>6. CASE Die(g)
  BY <1>1, <1>6, GoesKeeps DEF Die
<1>. QED BY <1>2, <1>3, <1>4, <1>5, <1>6

LEMMA RemoveKeeps ==
  ASSUME Inv, NEW g \in Generations, Remove(g)
  PROVE  Inv'
<1>. DEFINE gone == IF IsOwn(g) THEN {entry[home[g]]} ELSE {}
<1>1. gone \subseteq {g} /\ task[g] = "leaving"
  BY DEF Remove, IsOwn
<1>2. task' = [task EXCEPT ![g] = "finished"]
  BY <1>1 DEF Remove, Dropping, Alive, Inv, RegistryTypeOK
<1>3. entry' = entry \/ (entry' = [entry EXCEPT ![home[g]] = NoEntry] /\ entry[home[g]] = g)
  <2>1. CASE IsOwn(g)
    BY <2>1 DEF Remove, IsOwn
  <2>2. CASE ~IsOwn(g)
    BY <2>2 DEF Remove
  <2>. QED BY <2>1, <2>2
<1>4. UNCHANGED <<home, permit, caller, generations, cancelled, leases, drained, panics>>
  BY DEF Remove
<1>5. RegistryTypeOK'
  <2>1. \A h \in Generations : task'[h] = "none" <=> h > generations'
    BY <1>1, <1>2, <1>4 DEF Inv, RegistryTypeOK
  <2>2. task' \in [Generations -> Tasks] /\ entry' \in [Conversations -> {NoEntry} \cup Generations]
    BY <1>2, <1>3 DEF Inv, RegistryTypeOK
  <2>. QED BY <1>4, <2>1, <2>2 DEF Inv, RegistryTypeOK
<1>6. \A h \in Generations \ drained' : Settled(h)'
  BY <1>1, <1>2, <1>3, <1>4 DEF Inv, RegistryTypeOK, OneAgentPerConversation, Alive, Settled
<1>. QED BY <1>5, <1>6 DEF Inv, Settled, OneAgentPerConversation, Alive

-----------------------------------------------------------------------------
(***************************************************************************)
(* Under the write lock                                                    *)
(***************************************************************************)
LEMMA CreateKeeps ==
  ASSUME Inv, NEW p \in Callers, Create(p)
  PROVE  Inv'
<1>. DEFINE c == caller[p].of
            new == generations + 1
<1>1. c \in Conversations /\ caller[p] \in Caller
  BY DEF Inv, RegistryTypeOK, Caller
<1>2. Pruned \in [Conversations -> {NoEntry} \cup Generations]
  BY DEF Pruned, Inv, RegistryTypeOK
<1>3. ASSUME NEW h \in Generations \ drained, Alive(h)
      PROVE  Pruned[home[h]] = h /\ entry[home[h]] = h /\ task[h] # "cut"
  <2>1. entry[home[h]] = h /\ task[h] # "cut" /\ home[h] \in Conversations
    BY <1>3 DEF Inv, RegistryTypeOK, OneAgentPerConversation
  <2>2. ~Finished(h)
    BY <1>3 DEF Alive, Finished
  <2>. QED BY <2>1, <2>2 DEF Pruned
<1>4. UNCHANGED <<permit, cancelled, leases, drained, panics>>
  BY DEF Create
<1>5. CASE Found(c) # NoEntry
  <2>. DEFINE q == [caller[p] EXCEPT !.at = "holding", !.handle = Found(c)]
  <2>1. entry' = Pruned /\ UNCHANGED <<task, home, generations>>
    BY <1>5 DEF Create
  <2>2. q \in Caller
    BY <1>1, <1>2 DEF Caller, Found
  <2>3. caller' = [caller EXCEPT ![p] = q]
    BY <1>1, <1>5 DEF Create, Caller, Inv, RegistryTypeOK
  <2>4. caller' \in [Callers -> Caller]
    BY <2>2, <2>3 DEF Inv, RegistryTypeOK, Caller
  <2>5. RegistryTypeOK'
    BY <1>2, <1>4, <2>1, <2>4 DEF Inv, RegistryTypeOK, Caller
  <2>6. \A h \in Generations \ drained' : Settled(h)'
    BY <1>3, <1>4, <2>1 DEF Settled, Alive
  <2>. QED BY <2>5, <2>6 DEF Inv, Settled, OneAgentPerConversation, Alive
<1>6. CASE Found(c) = NoEntry
  <2>. DEFINE q == [caller[p] EXCEPT !.at = "holding", !.handle = new]
  <2>1. /\ new \in Generations /\ generations' = new
        /\ entry' = [Pruned EXCEPT ![c] = new]
    BY <1>6 DEF Create
  <2>2. home' = [home EXCEPT ![new] = c]
    BY <1>6 DEF Create
  <2>3. Dropping({Pruned[c]}) = task
    BY <1>6 DEF Dropping, Found, Inv, RegistryTypeOK
  <2>4. task' = [task EXCEPT ![new] = "building"]
    BY <1>6, <2>3 DEF Create
  <2>5. q \in Caller
    BY <1>1, <2>1 DEF Caller
  <2>6. caller' = [caller EXCEPT ![p] = q]
    BY <1>1, <1>6 DEF Create, Caller, Inv, RegistryTypeOK
  <2>7. caller' \in [Callers -> Caller]
    BY <2>5, <2>6 DEF Inv, RegistryTypeOK, Caller
  <2>8. \A h \in Generations : task'[h] = "none" <=> h > generations'
    BY <2>1, <2>4 DEF Inv, RegistryTypeOK
  <2>9. /\ entry' \in [Conversations -> {NoEntry} \cup Generations]
        /\ task' \in [Generations -> Tasks] /\ home' \in [Generations -> Conversations]
    BY <1>1, <1>2, <2>1, <2>2, <2>4 DEF Inv, RegistryTypeOK
  <2>10. RegistryTypeOK'
    BY <1>4, <2>1, <2>7, <2>8, <2>9 DEF Inv, RegistryTypeOK, Caller
  <2>11. task[new] = "none"
    BY <2>1 DEF Inv, RegistryTypeOK
  <2>12. ASSUME NEW h \in Generations \ drained', Alive(h)'
         PROVE  entry'[home'[h]] = h /\ task'[h] # "cut"
    <3>1. CASE h = new
      BY <1>1, <1>2, <2>1, <2>2, <2>4, <3>1 DEF Inv, RegistryTypeOK
    <3>2. CASE h # new
      <4>1. task'[h] = task[h] /\ home'[h] = home[h] /\ Alive(h)
        BY <2>2, <2>4, <2>12, <3>2 DEF Alive, Inv, RegistryTypeOK
      <4>2. Pruned[home[h]] = h /\ task[h] # "cut" /\ home[h] \in Conversations
        BY <1>3, <1>4, <4>1 DEF Inv, RegistryTypeOK
      <4>3. home[h] # c
        BY <1>6, <4>2 DEF Found
      <4>. QED BY <1>2, <2>1, <4>1, <4>2, <4>3
    <3>. QED BY <3>1, <3>2
  <2>. QED BY <2>10, <2>12 DEF Inv, OneAgentPerConversation, Alive
<1>. QED BY <1>5, <1>6

-----------------------------------------------------------------------------
(***************************************************************************)
(* The end of the process                                                  *)
(***************************************************************************)
LEMMA EndKeeps ==
  ASSUME Inv, Cancel \/ Drain \/ \E g \in Generations : Join(g) \/ Abandon(g)
  PROVE  Inv'
<1>1. CASE Cancel
  <2>1. cancelled' \in BOOLEAN
    BY <1>1, Zenon DEF Cancel
  <2>2. RegistryTypeOK'
    BY <1>1, <2>1 DEF Cancel, Inv, RegistryTypeOK
  <2>3. OneAgentPerConversation'
    BY <1>1 DEF Cancel, Inv, OneAgentPerConversation, Alive
  <2>. QED BY <2>2, <2>3 DEF Inv
<1>2. CASE Drain
  <2>1. drained' = {entry[c] : c \in Conversations} \ {NoEntry} /\ leases' = drained'
    BY <1>2 DEF Drain
  <2>2. /\ drained = {} /\ entry' = [c \in Conversations |-> NoEntry]
        /\ UNCHANGED <<task, home, permit, caller, generations, cancelled, panics>>
    BY <1>2 DEF Drain
  <2>3. drained' \subseteq Generations
    BY <2>1 DEF Inv, RegistryTypeOK
  <2>4. RegistryTypeOK'
    BY <2>1, <2>2, <2>3 DEF Inv, RegistryTypeOK
  <2>5. \A h \in Generations \ drained' : ~Alive(h)
    BY <2>1, <2>2 DEF Inv, RegistryTypeOK, OneAgentPerConversation
  <2>6. OneAgentPerConversation'
    BY <2>2, <2>5 DEF OneAgentPerConversation, Alive
  <2>. QED BY <2>4, <2>6 DEF Inv
<1>3. ASSUME NEW g \in Generations, Join(g) PROVE Inv'
  <2>1. leases' \subseteq drained'
    BY <1>3 DEF Join, Inv, RegistryTypeOK
  <2>2. RegistryTypeOK'
    BY <1>3, <2>1 DEF Join, Inv, RegistryTypeOK
  <2>3. OneAgentPerConversation'
    BY <1>3 DEF Join, Inv, OneAgentPerConversation, Alive
  <2>. QED BY <2>2, <2>3 DEF Inv
<1>4. ASSUME NEW g \in Generations, Abandon(g) PROVE Inv'
  <2>1. /\ g \in drained /\ leases' \subseteq drained
        /\ \A h \in Generations : h # g => task'[h] = task[h]
        /\ task' \in [Generations -> Tasks] /\ (task[g] = "none" <=> task'[g] = "none")
    BY <1>4 DEF Abandon, Dropping, Alive, Inv, RegistryTypeOK
  <2>2. UNCHANGED <<entry, home, permit, caller, generations, cancelled, drained, panics>>
    BY <1>4 DEF Abandon
  <2>3. \A h \in Generations : task'[h] = "none" <=> h > generations'
    BY <2>1, <2>2 DEF Inv, RegistryTypeOK
  <2>4. RegistryTypeOK'
    BY <2>1, <2>2, <2>3 DEF Inv, RegistryTypeOK
  <2>5. \A h \in Generations \ drained' : Settled(h)'
    BY <2>1, <2>2 DEF Inv, OneAgentPerConversation, Alive, Settled
  <2>. QED BY <2>4, <2>5 DEF Inv, Settled, OneAgentPerConversation, Alive
<1>. QED BY <1>1, <1>2, <1>3, <1>4

-----------------------------------------------------------------------------
LEMMA StepHolds == Inv /\ [RegistryNext]_regvars => Inv'
<1>. SUFFICES ASSUME Inv, [RegistryNext]_regvars PROVE Inv'
  OBVIOUS
<1>1. ASSUME NEW p \in Callers, NEW c \in Conversations, Ask(p, c) \/ Reach(p, c) PROVE Inv'
  BY <1>1, AskKeeps
<1>2. ASSUME NEW p \in Callers, Create(p) \/ Notify(p) PROVE Inv'
  BY <1>2, CreateKeeps, NotifyKeeps
<1>3. ASSUME NEW g \in Generations,
             Build(g) \/ Serve(g) \/ Leave(g) \/ PanicRun(g) \/ Die(g)
      PROVE  Inv'
  BY <1>3, TaskStep
<1>4. ASSUME NEW g \in Generations, Remove(g) PROVE Inv'
  BY <1>4, RemoveKeeps
<1>5. CASE Cancel \/ Drain \/ \E g \in Generations : Join(g) \/ Abandon(g)
  BY <1>5, EndKeeps
<1>6. CASE UNCHANGED regvars
  <2>1. RegistryTypeOK'
    BY <1>6 DEF regvars, Inv, RegistryTypeOK
  <2>2. OneAgentPerConversation'
    BY <1>6 DEF regvars, Inv, OneAgentPerConversation, Alive
  <2>. QED BY <2>1, <2>2 DEF Inv
<1>. QED BY <1>1, <1>2, <1>3, <1>4, <1>5, <1>6 DEF RegistryNext

(***************************************************************************)
(* Every reachable state is well typed; a generation exists exactly when   *)
(* its number has been handed out, and drain waits only for what it took.  *)
(***************************************************************************)
THEOREM RegistryTypes == RegistrySpec => []RegistryTypeOK
<1>1. Inv => RegistryTypeOK
  BY DEF Inv
<1>. QED BY <1>1, InitHolds, StepHolds, PTL DEF RegistrySpec

(***************************************************************************)
(* No Conversation has two live agents, and the map holds the one it has,  *)
(* however many callers miss at once and whatever agent leaves or panics   *)
(* meanwhile (get_or_create, spawn, drain).                                *)
(***************************************************************************)
THEOREM OneAgent == RegistrySpec => []OneAgentPerConversation
<1>1. Inv => OneAgentPerConversation
  BY DEF Inv
<1>. QED BY <1>1, InitHolds, StepHolds, PTL DEF RegistrySpec
=============================================================================
