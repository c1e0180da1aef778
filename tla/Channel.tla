------------------------------- MODULE Channel -------------------------------
(***************************************************************************)
(* One configured channel under its supervisor: the generations of its     *)
(* tasks (platform/telegram/builder.rs, platform/teamspeak/builder.rs and  *)
(* connection.rs), the scheduled-task watcher and the startup re-feed that *)
(* start with each (agent/process), and the tasks' rows they work from     *)
(* (domain/repo/scheduled_task.rs).                                        *)
(*                                                                         *)
(* Of an arrival only whether it is accepted is kept: Intake says what it  *)
(* becomes. Of an agent only that it is rung: Registry says which. The two *)
(* vendors' libraries, and what Telegram keeps until it is asked, are      *)
(* external. A wait with a time limit ends by what it waits for, or, while *)
(* faults last, by the limit; backoffs and sleeps end by themselves.       *)
(***************************************************************************)
EXTENDS Integers, Sequences, FiniteSets

CONSTANTS
  Repeating, OneOff,  \* the scheduled tasks
  MaxSlots,           \* bound: how often a task falls due
  MaxArrivals,        \* bound: arrivals
  MaxFaults           \* bound: failures, panics and missed time limits

ASSUME ChannelAssumption ==
  /\ Repeating \cap OneOff = {} /\ IsFiniteSet(Repeating) /\ IsFiniteSet(OneOff)
  /\ {MaxSlots, MaxArrivals, MaxFaults} \subseteq Nat /\ MaxSlots > 0

ScheduledTasks == Repeating \cup OneOff
Arrivals == 1..MaxArrivals
Generations == 1..(MaxFaults + 1)

VARIABLES
  platform,    \* which of the two the section names
  cancelled,   \* ChannelContext::shutdown
  supervisor,  \* where supervise and run_generation stand
  ended,       \* what ended the generation, or is ending it
  generation,  \* how many generations went live
  events,      \* TeamSpeak's event task, the owner of the connection
  dispatcher,  \* the task that hands arrivals to the intake, and what it does
  taken,       \* the arrival it has taken
  queue,       \* arrivals it has not: TeamSpeak's channel, Telegram's updates
  arrived,     \* how many there were
  lost,        \* arrivals nobody will accept, each with the reason
  watcher,     \* generation -> its watcher, what its query found, what it must ring for
  refeed,      \* generation -> its re-feed
  row,         \* task -> its row
  slots,       \* task -> how often it fell due
  fired,       \* task -> how often it was fired
  unrung,      \* tasks fired into an accumulation nobody was rung for
  unfed,       \* a re-feed failed
  faults

tasks    == <<watcher, refeed, unfed>>
rows     == <<row, slots, fired, unrung>>
inbound  == <<dispatcher, taken, queue, lost>>
super    == <<supervisor, ended, generation>>
chanvars == <<platform, cancelled, super, events, arrived, inbound, tasks, rows, faults>>

Phases == {"start", "joining", "live", "awaitEvents", "awaitDispatcher", "awaitWatcher",
           "leaving", "backoff", "stopped"}
NoWatcher == [at |-> "off", due |-> {}, ring |-> {}]

ChannelTypeOK ==
  /\ platform \in {"telegram", "teamspeak"} /\ cancelled \in BOOLEAN
  /\ supervisor \in Phases /\ generation \in 0..(MaxFaults + 1)
  /\ ended \in {"not", "cancelled", "unjoined", "events", "dispatcher", "watcher"}
  /\ events \in {"off", "up", "pushing", "over"}
  /\ dispatcher \in {"off", "idle", "accepting", "sending", "over"}
  /\ taken \subseteq Arrivals /\ Cardinality(taken) <= 1 /\ queue \in Seq(Arrivals)
  /\ arrived \in 0..MaxArrivals
  /\ watcher \in [Generations -> [at : {"off", "query", "firing", "ringing", "asleep", "over"},
                                  due : SUBSET ScheduledTasks, ring : SUBSET ScheduledTasks]]
  /\ refeed \in [Generations -> {"off", "due", "over"}]
  /\ row \in [ScheduledTasks -> {"none", "waiting", "due", "inactive", "deleted"}]
  /\ slots \in [ScheduledTasks -> 0..MaxSlots] /\ fired \in [ScheduledTasks -> Nat]
  /\ unrung \subseteq ScheduledTasks /\ unfed \in BOOLEAN /\ faults \in 0..MaxFaults

\* The process starts, on rows an earlier one may have left: a task fell due
\* meanwhile, or was fired and its Conversation never rung.
ChannelInit ==
  /\ platform \in {"telegram", "teamspeak"} /\ cancelled = FALSE
  /\ supervisor = "start" /\ ended = "not" /\ generation = 0
  /\ events = "off" /\ dispatcher = "off"
  /\ taken = {} /\ queue = <<>> /\ arrived \in 0..MaxArrivals /\ lost = {}
  /\ watcher = [g \in Generations |-> NoWatcher]
  /\ refeed = [g \in Generations |-> "off"] /\ unfed = FALSE
  /\ row \in [ScheduledTasks -> {"none", "waiting", "due", "inactive", "deleted"}]
  /\ slots = [t \in ScheduledTasks |-> IF row[t] = "due" THEN 1 ELSE 0]
  /\ fired = [t \in ScheduledTasks |-> 0] /\ unrung \in SUBSET ScheduledTasks
  /\ faults = 0

Fault == faults < MaxFaults /\ faults' = faults + 1

\* What a reason leaves of the arrivals in hand: Telegram keeps its updates.
Drop(reason) ==
  LET gone == taken \cup (IF platform = "teamspeak" THEN {queue[i] : i \in DOMAIN queue} ELSE {})
  IN  /\ lost' = lost \cup (gone \X {reason})
      /\ taken' = {} /\ queue' = IF platform = "teamspeak" THEN <<>> ELSE queue

-----------------------------------------------------------------------------
(***************************************************************************)
(* The supervisor and its generations                                      *)
(***************************************************************************)
GoLive ==
  /\ supervisor' = "live" /\ generation' = generation + 1 /\ dispatcher' = "idle"
  /\ watcher' = [watcher EXCEPT ![generation + 1].at = "query"]
  /\ refeed' = [refeed EXCEPT ![generation + 1] = "due"]

\* A generation of Telegram's is live at once, one of TeamSpeak's opens its
\* connection first.
StartGeneration ==
  /\ supervisor = "start" /\ ended' = "not"
  /\ IF platform = "telegram"
     THEN GoLive /\ UNCHANGED events
     ELSE /\ supervisor' = "joining" /\ events' = "up"
          /\ UNCHANGED <<generation, dispatcher, watcher, refeed>>
  /\ UNCHANGED <<platform, cancelled, arrived, taken, queue, lost, unfed, rows, faults>>

ConnectFails ==
  /\ supervisor = "start" /\ platform = "teamspeak" /\ Fault
  /\ supervisor' = "backoff" /\ ended' = "unjoined"
  /\ UNCHANGED <<platform, cancelled, generation, events, arrived, inbound, tasks, rows>>

\* wait_until_joined: the event task has been queueing arrivals all the while.
Join ==
  /\ supervisor = "joining" /\ events \in {"up", "pushing"}
  /\ GoLive
  /\ UNCHANGED <<platform, cancelled, ended, events, arrived, taken, queue, lost, unfed, rows, faults>>

\* A generation that does not join closes its connection and drops the queue.
JoinFails ==
  /\ supervisor = "joining"
  /\ \/ events = "over" /\ UNCHANGED faults
     \/ events # "over" /\ Fault
  /\ supervisor' = "backoff" /\ ended' = "unjoined" /\ events' = "off"
  /\ Drop("unjoined")
  /\ UNCHANGED <<platform, cancelled, generation, arrived, dispatcher, tasks, rows>>

SupervisedMutant == {"dispatcher", "events"}          \* DueTasksReachTheirAgent
\* Whatever of these ends on its own ends the generation.
Supervised == {"dispatcher", "events", "watcher"}

Over(who) == CASE who = "dispatcher" -> dispatcher = "over"
               [] who = "events"     -> events = "over"
               [] who = "watcher"    -> watcher[generation].at = "over"

FirstWait(who) ==
  IF platform = "telegram"
  THEN IF who = "dispatcher" THEN "leaving" ELSE "awaitDispatcher"
  ELSE IF who = "events" THEN "awaitDispatcher" ELSE "awaitEvents"

\* run_generation's select, whose ready branches are equals. Telegram decides
\* here whether it was cancelled.
Notice ==
  /\ supervisor = "live"
  /\ \E who \in Supervised \cup {"cancelled"} :
       /\ IF who = "cancelled" THEN cancelled ELSE Over(who)
       /\ ended' = IF platform = "telegram" /\ cancelled THEN "cancelled" ELSE who
       /\ supervisor' = FirstWait(who)
  /\ UNCHANGED <<platform, cancelled, generation, events, arrived, inbound, tasks, rows, faults>>

AfterEventsMutant == "leaving"                         \* LossesHaveACause
AfterEvents == IF ended = "cancelled" THEN "awaitDispatcher" ELSE "leaving"

AwaitEvents ==
  /\ supervisor = "awaitEvents"
  /\ \/ events = "over" /\ UNCHANGED faults
     \/ events # "over" /\ Fault
  /\ supervisor' = AfterEvents
  /\ UNCHANGED <<platform, cancelled, ended, generation, events, arrived, inbound, tasks, rows>>

\* A dispatcher still running at the limit is aborted.
AwaitDispatcher ==
  /\ supervisor = "awaitDispatcher"
  /\ \/ dispatcher = "over" /\ UNCHANGED <<inbound, faults>>
     \/ dispatcher # "over" /\ Fault /\ dispatcher' = "over" /\ Drop("late")
  /\ supervisor' = IF platform = "telegram" /\ ended = "cancelled" THEN "awaitWatcher" ELSE "leaving"
  /\ UNCHANGED <<platform, cancelled, ended, generation, events, arrived, tasks, rows>>

AwaitWatcher ==
  /\ supervisor = "awaitWatcher" /\ Over("watcher")
  /\ supervisor' = "leaving"
  /\ UNCHANGED <<platform, cancelled, ended, generation, events, arrived, inbound, tasks, rows, faults>>

GuardsMutant == watcher                                \* OccurrencesFireOnce
\* The guards of a generation abort what still runs of it.
Guards == [watcher EXCEPT ![generation].at = "over"]

StoppedMutant == ended = "cancelled"                   \* ChannelTypeOK
\* A stop starts no other generation, whatever ended the last one.
Stopped == IF platform = "telegram" THEN ended = "cancelled" ELSE cancelled

Leave ==
  /\ supervisor = "leaving"
  /\ supervisor' = IF Stopped THEN "stopped" ELSE "backoff"
  /\ events' = "off" /\ dispatcher' = "off" /\ watcher' = Guards
  /\ Drop(ended)
  /\ UNCHANGED <<platform, cancelled, ended, generation, arrived, refeed, unfed, rows, faults>>

\* The backoff does not look at the token.
Restart ==
  /\ supervisor = "backoff" /\ supervisor' = "start"
  /\ UNCHANGED <<platform, cancelled, ended, generation, events, arrived, inbound, tasks, rows, faults>>

\* ChannelHost::shutdown
Cancel ==
  /\ ~cancelled /\ cancelled' = TRUE
  /\ UNCHANGED <<platform, super, events, arrived, inbound, tasks, rows, faults>>

-----------------------------------------------------------------------------
(***************************************************************************)
(* Arrivals                                                                *)
(***************************************************************************)
RoomMutant == queue = <<>>                             \* SendsAreServed
\* The queue between the event task and the dispatcher is unbounded.
Room == TRUE

\* An event batch, or an update Telegram keeps.
Receive ==
  /\ arrived < MaxArrivals
  /\ IF platform = "telegram"
     THEN arrived' = arrived + 1 /\ queue' = Append(queue, arrived + 1) /\ UNCHANGED events
     ELSE events = "up" /\ events' = "pushing" /\ UNCHANGED <<arrived, queue>>
  /\ UNCHANGED <<platform, cancelled, super, dispatcher, taken, lost, tasks, rows, faults>>

\* While it hands arrivals over the event task serves nobody; it ends with a
\* dispatcher that is gone.
Push ==
  /\ events = "pushing" /\ arrived' = arrived + 1
  /\ IF dispatcher = "over"
     THEN events' = "over" /\ lost' = lost \cup {<<arrived + 1, "dispatcher">>} /\ UNCHANGED queue
     ELSE Room /\ events' = "up" /\ queue' = Append(queue, arrived + 1) /\ UNCHANGED lost
  /\ UNCHANGED <<platform, cancelled, super, dispatcher, taken, tasks, rows, faults>>

Closing == cancelled \/ (supervisor = "awaitEvents" /\ ended \in {"dispatcher", "watcher"})

\* run_events ends on its token, which the generation or the process cancels.
EventsEnd ==
  /\ events = "up" /\ Closing
  /\ events' = "over"
  /\ UNCHANGED <<platform, cancelled, super, arrived, inbound, tasks, rows, faults>>

\* It ends with its stream, too.
StreamEnds ==
  /\ events = "up" /\ Fault
  /\ events' = "over"
  /\ UNCHANGED <<platform, cancelled, super, arrived, inbound, tasks, rows>>

AskedToStop == platform = "telegram" /\ supervisor = "awaitDispatcher"

Take ==
  /\ dispatcher = "idle" /\ queue # <<>> /\ ~AskedToStop
  /\ dispatcher' = "accepting" /\ taken' = {Head(queue)} /\ queue' = Tail(queue)
  /\ UNCHANGED <<platform, cancelled, super, events, arrived, lost, tasks, rows, faults>>

\* The intake answers through the connection, which only the event task can use.
Answer ==
  /\ dispatcher = "accepting" /\ platform = "teamspeak"
  /\ dispatcher' = "sending"
  /\ UNCHANGED <<platform, cancelled, super, events, arrived, taken, queue, lost, tasks, rows, faults>>

Finished == /\ dispatcher' = "idle" /\ taken' = {}
            /\ UNCHANGED <<platform, cancelled, super, events, arrived, queue, lost, tasks, rows, faults>>

\* A send is served, or fails with the connection.
Served == dispatcher = "sending" /\ events # "pushing" /\ Finished
Accepted == dispatcher = "accepting" /\ Finished

\* The dispatcher ends when it is asked to, or when its queue is empty and the
\* event task is gone.
DispatcherEnds ==
  /\ dispatcher = "idle" /\ dispatcher' = "over"
  /\ AskedToStop \/ (platform = "teamspeak" /\ events = "over" /\ queue = <<>>)
  /\ UNCHANGED <<platform, cancelled, super, events, arrived, taken, queue, lost, tasks, rows, faults>>

DispatcherPanics ==
  /\ dispatcher \in {"idle", "accepting", "sending"} /\ Fault
  /\ dispatcher' = "over" /\ Drop("dispatcher")
  /\ UNCHANGED <<platform, cancelled, super, events, arrived, tasks, rows>>

-----------------------------------------------------------------------------
(***************************************************************************)
(* The watcher, the re-feed and the rows                                   *)
(***************************************************************************)
Elsewhere == UNCHANGED <<platform, cancelled, super, events, arrived, inbound>>

Query(g) ==
  /\ watcher[g].at = "query"
  /\ watcher' = [watcher EXCEPT ![g].at = "firing", ![g].due = {t \in ScheduledTasks : row[t] = "due"}]
  /\ Elsewhere /\ UNCHANGED <<refeed, unfed, rows, faults>>

\* The first query or write that fails ends the watcher, whatever was due besides.
WatcherFails(g) ==
  /\ watcher[g].at \in {"query", "firing"} /\ Fault
  /\ watcher' = [watcher EXCEPT ![g].at = "over"]
  /\ Elsewhere /\ UNCHANGED <<refeed, unfed, rows>>

\* fire, in one transaction, for the task as the query saw it: what became of
\* its row since is not looked at.
Fire(g) ==
  \E t \in watcher[g].due :
    /\ watcher[g].at = "firing"
    /\ watcher' = [watcher EXCEPT ![g] = [at |-> "ringing", due |-> @.due \ {t}, ring |-> {t}]]
    /\ row' = [row EXCEPT ![t] = CASE @ = "deleted"                     -> "deleted"
                                   [] @ # "deleted" /\ t \in OneOff    -> "inactive"
                                   [] @ = "inactive"                    -> "inactive"
                                   [] OTHER                             -> "waiting"]
    /\ fired' = [fired EXCEPT ![t] = @ + 1] /\ unrung' = unrung \cup {t}
    /\ Elsewhere /\ UNCHANGED <<refeed, unfed, slots, faults>>

Ring(g) ==
  /\ watcher[g].at = "ringing"
  /\ unrung' = unrung \ watcher[g].ring
  /\ watcher' = [watcher EXCEPT ![g].at = "firing", ![g].ring = {}]
  /\ Elsewhere /\ UNCHANGED <<refeed, unfed, row, slots, fired, faults>>

Sleep(g) ==
  /\ watcher[g].at = "firing" /\ watcher[g].due = {}
  /\ watcher' = [watcher EXCEPT ![g].at = "asleep"]
  /\ Elsewhere /\ UNCHANGED <<refeed, unfed, rows, faults>>

\* The minute passes, or the process stops.
Rise(g) ==
  /\ watcher[g].at = "asleep"
  /\ watcher' = [watcher EXCEPT ![g].at = IF cancelled THEN "over" ELSE "query"]
  /\ Elsewhere /\ UNCHANGED <<refeed, unfed, rows, faults>>

\* A re-feed belongs to no generation once it is started; a failed one is not
\* tried again.
Refeed(g) ==
  /\ refeed[g] = "due" /\ refeed' = [refeed EXCEPT ![g] = "over"]
  /\ \/ unrung' = {} /\ UNCHANGED <<unfed, faults>>
     \/ unfed' = TRUE /\ Fault /\ UNCHANGED unrung
  /\ Elsewhere /\ UNCHANGED <<watcher, row, slots, fired>>

Becomes(t, state) == /\ row' = [row EXCEPT ![t] = state]
                     /\ Elsewhere /\ UNCHANGED <<tasks, fired, unrung, faults>>

\* The schedule tool's create and cancel, a purge, and the clock.
Schedule(t)   == row[t] = "none" /\ Becomes(t, "waiting") /\ UNCHANGED slots
Unschedule(t) == row[t] \in {"waiting", "due"} /\ Becomes(t, "inactive") /\ UNCHANGED slots
Purge(t)      == row[t] \notin {"none", "deleted"} /\ Becomes(t, "deleted") /\ UNCHANGED slots
FallDue(t)    == /\ row[t] = "waiting" /\ slots[t] < MaxSlots
                 /\ Becomes(t, "due") /\ slots' = [slots EXCEPT ![t] = @ + 1]

Supervise == \/ StartGeneration \/ Join \/ JoinFails \/ Notice \/ AwaitEvents \/ AwaitDispatcher
             \/ AwaitWatcher \/ Leave \/ Restart
Serve == Push \/ EventsEnd
Dispatch == Take \/ Served \/ Accepted \/ DispatcherEnds
Watch(g) == Query(g) \/ Fire(g) \/ Ring(g) \/ Sleep(g) \/ Rise(g)

ChannelNext ==
  \/ Supervise \/ Serve \/ Dispatch
  \/ \E g \in Generations : Watch(g) \/ Refeed(g) \/ WatcherFails(g)
  \/ ConnectFails \/ StreamEnds \/ DispatcherPanics
  \/ Receive \/ Answer \/ Cancel
  \/ \E t \in ScheduledTasks : Schedule(t) \/ Unschedule(t) \/ Purge(t) \/ FallDue(t)

\* Each task the runtime holds runs on, and a connection is joined in the end;
\* nobody needs to write, to press, to fail or to stop the process.
ChannelFairness ==
  /\ WF_chanvars(Supervise) /\ WF_chanvars(Serve) /\ WF_chanvars(Dispatch)
  /\ \A g \in Generations : WF_chanvars(Watch(g)) /\ WF_chanvars(Refeed(g))

ChannelSpec == ChannelInit /\ [][ChannelNext]_chanvars /\ ChannelFairness

-----------------------------------------------------------------------------
(* However its generations follow each other, a task fires once for each   *)
(* time it fell due: no watcher of an older generation fires it besides.   *)
OccurrencesFireOnce == \A t \in ScheduledTasks : fired[t] <= slots[t]

(* A task that is due is fired and its Conversation rung, whichever task of *)
(* the channel dies on the way, or between the two: the next generation    *)
(* fires what is left and its re-feed rings for what was only fired. Two   *)
(* things excuse it: the process stops, or a re-feed failed.               *)
DueTasksReachTheirAgent ==
  \A t \in ScheduledTasks :
    (row[t] = "due" \/ t \in unrung) ~>
      (cancelled \/ unfed \/ (row[t] # "due" /\ t \notin unrung))

(* An arrival is lost only to a failure, or to a stop of a TeamSpeak        *)
(* channel: one that comes before it joined, or one that run_generation    *)
(* notices by its watcher, which ends with the token too and in whose      *)
(* branch nobody waits for the dispatcher. Whatever else failed, the other *)
(* branches leave the dispatcher to finish, or to die or be late, and      *)
(* Telegram loses nothing else.                                            *)
LossesHaveACause ==
  \A l \in lost :
    /\ \/ l[2] \in {"dispatcher", "late"}
       \/ platform = "teamspeak" /\ l[2] \in {"unjoined", "watcher"}
    /\ faults = 0 => cancelled /\ l[2] \in {"unjoined", "watcher"}

(* topics/platform.md, "Supervision and restart" and "Shutdown             *)
(* orchestration": on a shutdown the dispatcher is given 5 s to finish     *)
(* what it took, and drains until its sender is gone. Where no limit       *)
(* passes and nothing fails, a channel that was live loses nothing.        *)
AStopLosesNothingTaken == faults = 0 => \A l \in lost : l[2] = "unjoined"

(* The intake's answer needs the event task, and the event task never      *)
(* waits for the intake: a send that waits is served.                      *)
SendsAreServed == (dispatcher = "sending") ~> (dispatcher # "sending")

(* topics/platform.md, "Shutdown orchestration": the token cascade is what *)
(* starts each subsystem's shutdown, within one deadline.                  *)
AStopEnds == cancelled ~> supervisor = "stopped"
=============================================================================
