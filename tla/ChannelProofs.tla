---------------------------- MODULE ChannelProofs ----------------------------
(***************************************************************************)
(* Proofs about one channel of a platform (Channel), for any number of     *)
(* generations, tasks, arrivals and failures: a scheduled task fires once  *)
(* for each time it fell due, an arrival is lost only to a failure or to a *)
(* stop nobody drains, and a generation is followed by another only where  *)
(* something failed.                                                       *)
(***************************************************************************)
EXTENDS Channel, FiniteSetTheorems, TLAPS

\* What fires once needs two facts the property does not state: no watcher runs but
\* the present generation's, and what it is about to fire is still owed.
Rows == {"none", "waiting", "due", "inactive", "deleted"}
Watcher == [at : {"off", "query", "firing", "ringing", "asleep", "over"},
            due : SUBSET ScheduledTasks, ring : SUBSET ScheduledTasks]

Typed == /\ watcher \in [Generations -> Watcher]
         /\ row \in [ScheduledTasks -> Rows]
         /\ slots \in [ScheduledTasks -> Nat] /\ fired \in [ScheduledTasks -> Nat]
         /\ generation \in Int

\* While a generation is up, its guards have not been dropped.
Up == {"live", "awaitEvents", "awaitDispatcher", "awaitWatcher", "leaving"}
Active(g) == watcher[g].at \notin {"off", "over"}
OneWatcher == \A g \in Generations : Active(g) => g = generation /\ supervisor \in Up

Owed(t) == fired[t] < slots[t]
Holds(g, t) == watcher[g].at \in {"firing", "ringing"} /\ t \in watcher[g].due
OwedIsHeld == \A t \in ScheduledTasks :
                /\ row[t] = "due" => Owed(t)
                /\ \A g \in Generations : Holds(g, t) => Owed(t)

Inv == Typed /\ OneWatcher /\ OwedIsHeld /\ OccurrencesFireOnce

LEMMA InitHolds == ChannelInit => Inv
<1>. SUFFICES ASSUME ChannelInit PROVE Inv
  OBVIOUS
<1>1. NoWatcher \in Watcher /\ NoWatcher.at = "off"
  BY DEF NoWatcher, Watcher
<1>2. watcher = [g \in Generations |-> NoWatcher]
  BY DEF ChannelInit
<1>3. /\ row \in [ScheduledTasks -> Rows]
      /\ slots = [t \in ScheduledTasks |-> IF row[t] = "due" THEN 1 ELSE 0]
      /\ fired = [t \in ScheduledTasks |-> 0]
  BY DEF ChannelInit, Rows
<1>4. Typed
  BY <1>1, <1>2, <1>3 DEF Typed, ChannelInit
<1>5. OneWatcher /\ \A g \in Generations, t \in ScheduledTasks : ~Holds(g, t)
  BY <1>1, <1>2 DEF OneWatcher, Active, Holds
<1>6. OwedIsHeld /\ OccurrencesFireOnce
  BY <1>3, <1>5 DEF OwedIsHeld, Owed, OccurrencesFireOnce
<1>. QED BY <1>4, <1>5, <1>6 DEF Inv

-----------------------------------------------------------------------------
(***************************************************************************)
(* The supervisor's steps                                                  *)
(***************************************************************************)
\* A step that leaves the watchers and the rows alone, and no generation that
\* is up behind.
LEMMA OthersKeep ==
  ASSUME Inv, UNCHANGED <<watcher, row, slots, fired, generation>>,
         supervisor \in Up => supervisor' \in Up
  PROVE  Inv'
<1>1. Typed' /\ OccurrencesFireOnce'
  BY DEF Inv, Typed, OccurrencesFireOnce
<1>2. OneWatcher'
  BY DEF Inv, OneWatcher, Active
<1>3. OwedIsHeld'
  BY DEF Inv, OwedIsHeld, Owed, Holds
<1>. QED BY <1>1, <1>2, <1>3 DEF Inv

LEMMA GoLiveKeeps ==
  ASSUME Inv, GoLive, supervisor \notin Up,
         UNCHANGED <<row, slots, fired>>
  PROVE  Inv'
<1>. DEFINE new == generation + 1
<1>1. /\ watcher' = [watcher EXCEPT ![new].at = "query"]
      /\ supervisor' = "live" /\ generation' = new
  BY DEF GoLive
<1>2. \A g \in Generations : /\ watcher'[g] \in Watcher
                             /\ g # new => watcher'[g] = watcher[g]
                             /\ g = new => watcher'[g].at = "query"
  BY <1>1 DEF Inv, Typed, Watcher
<1>3. Typed' /\ OccurrencesFireOnce'
  <2>1. watcher' \in [Generations -> Watcher]
    BY <1>1, <1>2 DEF Inv, Typed
  <2>. QED BY <1>1, <2>1 DEF Inv, Typed, OccurrencesFireOnce
<1>4. OneWatcher'
  BY <1>1, <1>2 DEF Inv, OneWatcher, Active, Up
<1>5. \A g \in Generations, t \in ScheduledTasks : Holds(g, t)' => Holds(g, t)
  BY <1>2 DEF Holds
<1>6. OwedIsHeld'
  BY <1>5 DEF Inv, OwedIsHeld, Owed
<1>. QED BY <1>3, <1>4, <1>6 DEF Inv

LEMMA LeaveKeeps ==
  ASSUME Inv, Leave
  PROVE  Inv'
<1>1. /\ watcher' = [watcher EXCEPT ![generation].at = "over"]
      /\ UNCHANGED <<row, slots, fired, generation>>
  BY DEF Leave, Guards, rows
<1>2. \A g \in Generations : /\ watcher'[g] \in Watcher
                             /\ g # generation => watcher'[g] = watcher[g]
                             /\ g = generation => watcher'[g].at = "over"
  BY <1>1 DEF Inv, Typed, Watcher
<1>3. Typed' /\ OccurrencesFireOnce'
  BY <1>1, <1>2 DEF Inv, Typed, OccurrencesFireOnce
<1>4. OneWatcher'
  BY <1>1, <1>2 DEF Inv, OneWatcher, Active
<1>5. \A g \in Generations, t \in ScheduledTasks : Holds(g, t)' => Holds(g, t)
  BY <1>2 DEF Holds
<1>6. OwedIsHeld'
  BY <1>1, <1>5 DEF Inv, OwedIsHeld, Owed
<1>. QED BY <1>3, <1>4, <1>6 DEF Inv

-----------------------------------------------------------------------------
(***************************************************************************)
(* The watcher's steps                                                     *)
(***************************************************************************)
\* What a watcher turns into holds no task it may not fire.
LEMMA WatcherKeeps ==
  ASSUME Inv, NEW g \in Generations, Active(g), NEW w \in Watcher,
         watcher' = [watcher EXCEPT ![g] = w],
         UNCHANGED <<row, slots, fired, supervisor, generation>>,
         w.at \in {"firing", "ringing"} => \A t \in w.due : Owed(t)
  PROVE  Inv'
<1>1. \A h \in Generations : /\ h # g => watcher'[h] = watcher[h]
                             /\ h = g => watcher'[h] = w
  BY DEF Inv, Typed
<1>2. Typed' /\ OccurrencesFireOnce'
  BY DEF Inv, Typed, OccurrencesFireOnce
<1>3. OneWatcher'
  BY <1>1 DEF Inv, OneWatcher, Active
<1>4. OwedIsHeld'
  BY <1>1 DEF Inv, OwedIsHeld, Owed, Holds
<1>. QED BY <1>2, <1>3, <1>4 DEF Inv

LEMMA WatchKeeps ==
  ASSUME Inv, NEW g \in Generations,
         Query(g) \/ WatcherFails(g) \/ Ring(g) \/ Sleep(g) \/ Rise(g)
  PROVE  Inv'
<1>. DEFINE dueNow == {t \in ScheduledTasks : row[t] = "due"}
<1>1. watcher[g] \in Watcher
  BY DEF Inv, Typed
<1>2. UNCHANGED <<row, slots, fired, supervisor, generation>> /\ Active(g)
  BY DEF Query, WatcherFails, Ring, Sleep, Rise, Elsewhere, rows, super, Active
<1>3. \A t \in ScheduledTasks : /\ row[t] = "due" => Owed(t)
                                /\ Holds(g, t) => Owed(t)
  BY DEF Inv, OwedIsHeld
<1>4. CASE Query(g)
  <2>. DEFINE w == [watcher[g] EXCEPT !.at = "firing", !.due = dueNow]
  <2>1. w \in Watcher /\ w.due = dueNow
    BY <1>1 DEF Watcher
  <2>2. watcher' = [watcher EXCEPT ![g] = w]
    BY <1>1, <1>4 DEF Query, Inv, Typed, Watcher
  <2>. QED BY <1>2, <1>3, <2>1, <2>2, WatcherKeeps
<1>5. CASE WatcherFails(g)
  <2>. DEFINE w == [watcher[g] EXCEPT !.at = "over"]
  <2>1. w \in Watcher /\ w.at = "over"
    BY <1>1 DEF Watcher
  <2>2. watcher' = [watcher EXCEPT ![g] = w]
    BY <1>1, <1>5 DEF WatcherFails, Inv, Typed, Watcher
  <2>. QED BY <1>2, <2>1, <2>2, WatcherKeeps
<1>6. CASE Ring(g)
  <2>. DEFINE w == [watcher[g] EXCEPT !.at = "firing", !.ring = {}]
  <2>1. w \in Watcher /\ w.due = watcher[g].due
    BY <1>1 DEF Watcher
  <2>2. watcher' = [watcher EXCEPT ![g] = w]
    BY <1>1, <1>6 DEF Ring, Inv, Typed, Watcher
  <2>3. \A t \in w.due : Owed(t)
    BY <1>1, <1>3, <1>6, <2>1 DEF Ring, Holds, Watcher
  <2>. QED BY <1>2, <2>1, <2>2, <2>3, WatcherKeeps
<1>7. CASE Sleep(g)
  <2>. DEFINE w == [watcher[g] EXCEPT !.at = "asleep"]
  <2>1. w \in Watcher /\ w.at = "asleep"
    BY <1>1 DEF Watcher
  <2>2. watcher' = [watcher EXCEPT ![g] = w]
    BY <1>1, <1>7 DEF Sleep, Inv, Typed, Watcher
  <2>. QED BY <1>2, <2>1, <2>2, WatcherKeeps
<1>8. CASE Rise(g)
  <2>. DEFINE w == [watcher[g] EXCEPT !.at = IF cancelled THEN "over" ELSE "query"]
  <2>1. w \in Watcher /\ w.at \in {"over", "query"}
    BY <1>1 DEF Watcher
  <2>2. watcher' = [watcher EXCEPT ![g] = w]
    BY <1>1, <1>8 DEF Rise, Inv, Typed, Watcher
  <2>. QED BY <1>2, <2>1, <2>2, WatcherKeeps
<1>. QED BY <1>4, <1>5, <1>6, <1>7, <1>8

\* Firing a task takes it off what is owed and off what the watcher holds; the
\* present generation's is the only watcher there is.
LEMMA FireKeeps ==
  ASSUME Inv, NEW g \in Generations, NEW t \in watcher[g].due, watcher[g].at = "firing",
         watcher' = [watcher EXCEPT ![g] = [at |-> "ringing", due |-> @.due \ {t}, ring |-> {t}]],
         row' \in [ScheduledTasks -> Rows], row'[t] # "due",
         \A u \in ScheduledTasks : u # t => row'[u] = row[u],
         fired' = [fired EXCEPT ![t] = @ + 1],
         UNCHANGED <<slots, supervisor, generation>>
  PROVE  Inv'
<1>. DEFINE w == [at |-> "ringing", due |-> watcher[g].due \ {t}, ring |-> {t}]
<1>1. watcher[g] \in Watcher /\ t \in ScheduledTasks
  BY DEF Inv, Typed, Watcher
<1>2. Owed(t) /\ Active(g)
  BY <1>1 DEF Inv, OwedIsHeld, Holds, Active
<1>3. w \in Watcher /\ w.at = "ringing" /\ w.due = watcher[g].due \ {t}
  BY <1>1 DEF Watcher
<1>4. watcher' = [watcher EXCEPT ![g] = w]
  OBVIOUS
<1>5. \A h \in Generations : /\ h # g => watcher'[h] = watcher[h]
                             /\ h = g => watcher'[h] = w
  BY <1>4 DEF Inv, Typed
<1>6. /\ fired' \in [ScheduledTasks -> Nat] /\ fired'[t] = fired[t] + 1
      /\ \A u \in ScheduledTasks : u # t => fired'[u] = fired[u]
  BY <1>1 DEF Inv, Typed
<1>7. Typed'
  BY <1>3, <1>4, <1>6 DEF Inv, Typed
<1>8. OccurrencesFireOnce'
  BY <1>1, <1>2, <1>6 DEF Inv, Typed, OccurrencesFireOnce, Owed
<1>9. OneWatcher'
  BY <1>2, <1>3, <1>5 DEF Inv, OneWatcher, Active
<1>10. ASSUME NEW u \in ScheduledTasks PROVE row'[u] = "due" => Owed(u)'
  BY <1>6 DEF Inv, OwedIsHeld, Owed
<1>11. ASSUME NEW u \in ScheduledTasks, NEW h \in Generations, Holds(h, u)'
       PROVE  Owed(u)'
  <2>1. h = g
    BY <1>2, <1>5, <1>11 DEF Inv, OneWatcher, Active, Holds
  <2>2. u # t /\ Holds(g, u)
    BY <1>3, <1>5, <1>11, <2>1 DEF Holds
  <2>. QED BY <1>6, <2>2 DEF Inv, OwedIsHeld, Owed
<1>12. OwedIsHeld'
  BY <1>10, <1>11 DEF OwedIsHeld
<1>. QED BY <1>7, <1>8, <1>9, <1>12 DEF Inv

-----------------------------------------------------------------------------
(***************************************************************************)
(* The rows' steps                                                         *)
(***************************************************************************)
LEMMA BecomesKeeps ==
  ASSUME Inv, NEW t \in ScheduledTasks,
         Schedule(t) \/ Unschedule(t) \/ Purge(t) \/ FallDue(t)
  PROVE  Inv'
<1>1. UNCHANGED <<watcher, fired, supervisor, generation>>
  BY DEF Schedule, Unschedule, Purge, FallDue, Becomes, Elsewhere, tasks, super
<1>2. /\ row' \in [ScheduledTasks -> Rows] /\ slots' \in [ScheduledTasks -> Nat]
      /\ \A u \in ScheduledTasks : slots'[u] >= slots[u]
      /\ \A u \in ScheduledTasks : row'[u] = "due" => row[u] = "due" \/ slots'[u] > slots[u]
  BY DEF Schedule, Unschedule, Purge, FallDue, Becomes, Inv, Typed, Rows
<1>3. Typed' /\ OneWatcher'
  BY <1>1, <1>2 DEF Inv, Typed, OneWatcher, Active
<1>4. OccurrencesFireOnce'
  BY <1>1, <1>2 DEF Inv, Typed, OccurrencesFireOnce
<1>5. OwedIsHeld'
  BY <1>1, <1>2 DEF Inv, Typed, OwedIsHeld, OccurrencesFireOnce, Owed, Holds
<1>. QED BY <1>3, <1>4, <1>5 DEF Inv

-----------------------------------------------------------------------------
LEMMA StepHolds == Inv /\ [ChannelNext]_chanvars => Inv'
<1>. SUFFICES ASSUME Inv, [ChannelNext]_chanvars PROVE Inv'
  OBVIOUS
<1>1. CASE StartGeneration
  <2>1. supervisor \notin Up /\ UNCHANGED <<row, slots, fired>>
    BY <1>1 DEF StartGeneration, Up, rows
  <2>2. CASE GoLive
    BY <2>1, <2>2, GoLiveKeeps
  <2>3. CASE UNCHANGED <<generation, watcher>>
    BY <2>1, <2>3, OthersKeep
  <2>. QED BY <1>1, <2>2, <2>3 DEF StartGeneration
<1>2. CASE Join
  <2>1. supervisor \notin Up /\ UNCHANGED <<row, slots, fired>> /\ GoLive
    BY <1>2 DEF Join, Up, rows
  <2>. QED BY <2>1, GoLiveKeeps
<1>3. CASE JoinFails \/ Notice \/ AwaitEvents \/ AwaitDispatcher \/ AwaitWatcher \/ Restart
           \/ ConnectFails
  <2>1. UNCHANGED <<watcher, row, slots, fired, generation>>
    BY <1>3 DEF JoinFails, Notice, AwaitEvents, AwaitDispatcher, AwaitWatcher, Restart,
                ConnectFails, rows, tasks
  <2>2. supervisor \in Up => supervisor' \in Up
    BY <1>3 DEF JoinFails, Notice, AwaitEvents, AwaitDispatcher, AwaitWatcher, Restart,
                ConnectFails, Up, FirstWait, AfterEvents
  <2>. QED BY <2>1, <2>2, OthersKeep
<1>4. CASE Leave
  BY <1>4, LeaveKeeps
<1>5. CASE Serve \/ Dispatch \/ StreamEnds \/ DispatcherPanics \/ Receive \/ Answer \/ Cancel
  <2>1. UNCHANGED <<watcher, row, slots, fired, generation, supervisor>>
    BY <1>5 DEF Serve, Push, EventsEnd, Dispatch, Take, Served, Accepted, Finished,
                DispatcherEnds, StreamEnds, DispatcherPanics, Receive, Answer, Cancel,
                super, rows, tasks
  <2>. QED BY <2>1, OthersKeep
<1>6. ASSUME NEW g \in Generations, Watch(g) \/ WatcherFails(g) PROVE Inv'
  <2>1. CASE Fire(g)
    <3>1. PICK t \in watcher[g].due :
            /\ watcher[g].at = "firing"
            /\ watcher' = [watcher EXCEPT ![g] = [at |-> "ringing", due |-> @.due \ {t},
                                                  ring |-> {t}]]
            /\ row' = [row EXCEPT ![t] = CASE @ = "deleted"                  -> "deleted"
                                           [] @ # "deleted" /\ t \in OneOff -> "inactive"
                                           [] @ = "inactive"                 -> "inactive"
                                           [] OTHER                          -> "waiting"]
            /\ fired' = [fired EXCEPT ![t] = @ + 1]
      BY <2>1 DEF Fire
    <3>2. UNCHANGED <<slots, supervisor, generation>>
      BY <2>1 DEF Fire, Elsewhere, super
    <3>3. t \in ScheduledTasks
      BY <1>6 DEF Inv, Typed, Watcher
    <3>4. /\ row' \in [ScheduledTasks -> Rows] /\ row'[t] # "due"
          /\ \A u \in ScheduledTasks : u # t => row'[u] = row[u]
      BY <3>1, <3>3 DEF Inv, Typed, Rows
    <3>. QED BY <3>1, <3>2, <3>4, FireKeeps
  <2>2. CASE Query(g) \/ WatcherFails(g) \/ Ring(g) \/ Sleep(g) \/ Rise(g)
    BY <2>2, WatchKeeps
  <2>. QED BY <1>6, <2>1, <2>2 DEF Watch
<1>7. ASSUME NEW g \in Generations, Refeed(g) PROVE Inv'
  <2>1. UNCHANGED <<watcher, row, slots, fired, generation, supervisor>>
    BY <1>7 DEF Refeed, Elsewhere, super
  <2>. QED BY <2>1, OthersKeep
<1>8. ASSUME NEW t \in ScheduledTasks,
             Schedule(t) \/ Unschedule(t) \/ Purge(t) \/ FallDue(t)
      PROVE  Inv'
  BY <1>8, BecomesKeeps
<1>9. CASE UNCHANGED chanvars
  <2>1. UNCHANGED <<watcher, row, slots, fired, generation, supervisor>>
    BY <1>9 DEF chanvars, super, tasks, rows
  <2>. QED BY <2>1, OthersKeep
<1>. QED BY <1>1, <1>2, <1>3, <1>4, <1>5, <1>6, <1>7, <1>8, <1>9 DEF ChannelNext, Supervise

(***************************************************************************)
(* A scheduled task fires at most once for each time it fell due, through  *)
(* any number of generations, failed watchers, cancellations and purges    *)
(* (task_watcher.rs run, scheduled_task.rs fire, TaskGuard).               *)
(***************************************************************************)
THEOREM EachSlotFiresOnce == ChannelSpec => []OccurrencesFireOnce
<1>1. Inv => OccurrencesFireOnce
  BY DEF Inv
<1>. QED BY <1>1, InitHolds, StepHolds, PTL DEF ChannelSpec

-----------------------------------------------------------------------------
(***************************************************************************)
(* Arrivals.  A dispatcher that is over has nothing in hand, and nothing   *)
(* is queued for it; whoever leaves a generation has waited until it was   *)
(* over, but for TeamSpeak's watcher branch.                               *)
(***************************************************************************)
Nothing == taken = {} /\ (platform = "teamspeak" => queue = <<>>)

ArrivalInv ==
  /\ platform \in {"telegram", "teamspeak"}
  /\ events \in {"off", "up", "pushing", "over"}
  /\ dispatcher \in {"off", "idle", "accepting", "sending", "over"}
  /\ taken = {} \/ \E a \in Arrivals : taken = {a}
  /\ queue \in Seq(Arrivals) /\ arrived \in 0..MaxArrivals
  /\ events = "pushing" => arrived < MaxArrivals
  /\ platform = "telegram" => events = "off"
  /\ dispatcher \notin {"accepting", "sending"} => taken = {}
  /\ dispatcher = "over" => Nothing

StopInv ==
  /\ supervisor \in {"start", "joining", "backoff"} => dispatcher = "off"
  /\ supervisor = "joining" => platform = "teamspeak"
  /\ supervisor = "awaitEvents" =>
       platform = "teamspeak" /\ ended \in {"cancelled", "dispatcher", "watcher"}
  /\ supervisor = "awaitEvents" /\ ended = "dispatcher" => dispatcher = "over"
  /\ supervisor = "awaitWatcher" => dispatcher = "over"
  /\ supervisor = "leaving" =>
       dispatcher = "over" \/ (platform = "teamspeak" /\ ended = "watcher")

LEMMA ArrivalsInit == ChannelInit => ArrivalInv /\ StopInv
<1>. SUFFICES ASSUME ChannelInit PROVE ArrivalInv /\ StopInv
  OBVIOUS
<1>1. /\ supervisor = "start" /\ events = "off" /\ dispatcher = "off"
      /\ taken = {} /\ queue = <<>> /\ lost = {}
      /\ platform \in {"telegram", "teamspeak"} /\ arrived \in 0..MaxArrivals
  BY DEF ChannelInit
<1>. QED BY <1>1 DEF ArrivalInv, StopInv

LEMMA DropFacts ==
  ASSUME ArrivalInv, NEW reason, Drop(reason)
  PROVE  /\ taken' = {} /\ queue' \in Seq(Arrivals)
         /\ queue' = IF platform = "teamspeak" THEN <<>> ELSE queue
         /\ lost \subseteq lost' /\ \A l \in lost' : l \in lost \/ l[2] = reason
         /\ Nothing => lost' = lost
<1>1. taken' = {} /\ queue' = (IF platform = "teamspeak" THEN <<>> ELSE queue)
  BY DEF Drop
<1>2. queue' \in Seq(Arrivals)
  BY <1>1 DEF ArrivalInv
<1>3. PICK gone : /\ lost' = lost \cup (gone \X {reason})
                  /\ Nothing => gone = {}
  <2>. DEFINE g == taken \cup (IF platform = "teamspeak" THEN {queue[i] : i \in DOMAIN queue}
                                                       ELSE {})
  <2>1. lost' = lost \cup (g \X {reason})
    BY DEF Drop
  <2>2. Nothing => g = {}
    <3>1. DOMAIN (<<>>) = {}
      OBVIOUS
    <3>. QED BY <3>1 DEF Nothing
  <2>. QED BY <2>1, <2>2
<1>4. lost \subseteq lost' /\ \A l \in lost' : l \in lost \/ l[2] = reason
  BY <1>3
<1>5. Nothing => lost' = lost
  BY <1>3
<1>. QED BY <1>1, <1>2, <1>4, <1>5

\* The supervisor's half.
LEMMA SupervisorArrivals ==
  ASSUME ArrivalInv, StopInv, Supervise \/ ConnectFails \/ Cancel
  PROVE  ArrivalInv' /\ StopInv'
<1>1. CASE StartGeneration \/ Join
  <2>1. /\ supervisor' \in {"live", "joining"}
        /\ UNCHANGED <<platform, arrived, taken, queue, lost>>
        /\ events' \in {events, "up"} /\ dispatcher = "off"
        /\ \/ supervisor' = "joining" /\ dispatcher' = dispatcher
           \/ supervisor' = "live" /\ dispatcher' = "idle"
        /\ platform = "telegram" => events' = events
        /\ supervisor' = "joining" => platform = "teamspeak"
    BY <1>1 DEF StartGeneration, Join, GoLive, ArrivalInv, StopInv
  <2>. QED BY <2>1 DEF ArrivalInv, StopInv, Nothing
<1>2. CASE JoinFails
  <2>1. /\ supervisor' = "backoff" /\ events' = "off" /\ Drop("unjoined")
        /\ dispatcher = "off" /\ UNCHANGED <<platform, arrived, dispatcher>>
    BY <1>2 DEF JoinFails, StopInv
  <2>. QED BY <2>1, DropFacts DEF ArrivalInv, StopInv, Nothing
<1>3. CASE Notice
  <2>1. UNCHANGED <<platform, events, arrived, dispatcher, taken, queue, lost>>
    BY <1>3 DEF Notice, inbound
  <2>2. PICK who \in Supervised \cup {"cancelled"} :
          /\ IF who = "cancelled" THEN cancelled ELSE Over(who)
          /\ ended' = IF platform = "telegram" /\ cancelled THEN "cancelled" ELSE who
          /\ supervisor' = FirstWait(who)
    BY <1>3 DEF Notice
  <2>3. who = "dispatcher" => dispatcher = "over"
    BY <2>2 DEF Over
  <2>4. who = "events" => platform # "telegram"
    BY <2>2 DEF Over, ArrivalInv
  <2>. QED BY <2>1, <2>2, <2>3, <2>4
         DEF ArrivalInv, StopInv, Nothing, FirstWait, Supervised
<1>4. CASE AwaitEvents \/ AwaitWatcher \/ Restart \/ ConnectFails
  <2>1. UNCHANGED <<platform, events, arrived, dispatcher, taken, queue, lost>>
    BY <1>4 DEF AwaitEvents, AwaitWatcher, Restart, ConnectFails, inbound
  <2>2. \/ /\ supervisor = "awaitEvents" /\ ended' = ended
           /\ supervisor' = IF ended = "cancelled" THEN "awaitDispatcher" ELSE "leaving"
        \/ supervisor = "awaitWatcher" /\ supervisor' = "leaving" /\ ended' = ended
        \/ supervisor' \in {"start", "backoff"} /\ dispatcher = "off"
    BY <1>4 DEF AwaitEvents, AfterEvents, AwaitWatcher, Restart, ConnectFails, StopInv
  <2>. QED BY <2>1, <2>2 DEF ArrivalInv, StopInv, Nothing
<1>5. CASE AwaitDispatcher
  <2>1. /\ dispatcher' = "over" /\ supervisor' \in {"awaitWatcher", "leaving"}
        /\ UNCHANGED <<platform, events, arrived, ended>>
        /\ \/ dispatcher = "over" /\ UNCHANGED <<taken, queue, lost>>
           \/ Drop("late")
    BY <1>5 DEF AwaitDispatcher, inbound
  <2>2. ArrivalInv'
    BY <2>1, DropFacts DEF ArrivalInv, StopInv, Nothing
  <2>. QED BY <2>1, <2>2 DEF StopInv
<1>6. CASE Leave
  <2>1. /\ supervisor = "leaving" /\ supervisor' \in {"stopped", "backoff"}
        /\ events' = "off" /\ dispatcher' = "off" /\ Drop(ended)
        /\ UNCHANGED <<platform, arrived>>
    BY <1>6 DEF Leave
  <2>. QED BY <2>1, DropFacts DEF ArrivalInv, StopInv, Nothing
<1>7. CASE Cancel
  BY <1>7 DEF Cancel, super, inbound, ArrivalInv, StopInv, Nothing
<1>. QED BY <1>1, <1>2, <1>3, <1>4, <1>5, <1>6, <1>7 DEF Supervise

\* The half of those who hand arrivals over.
LEMMA TrafficArrivals ==
  ASSUME ArrivalInv, StopInv,
         Serve \/ Dispatch \/ Receive \/ Answer \/ StreamEnds \/ DispatcherPanics
  PROVE  ArrivalInv' /\ StopInv'
<1>1. UNCHANGED <<platform, supervisor, ended>>
  BY DEF Serve, Push, EventsEnd, Dispatch, Take, Served, Accepted, Finished, DispatcherEnds,
         Receive, Answer, StreamEnds, DispatcherPanics, super
<1>2. MaxArrivals \in Nat
  BY ChannelAssumption
<1>3. dispatcher \in {"off", "over"} => dispatcher' = dispatcher
  BY DEF Serve, Push, EventsEnd, Dispatch, Take, Served, Accepted, Finished, DispatcherEnds,
         Receive, Answer, StreamEnds, DispatcherPanics, inbound
<1>4. ASSUME ArrivalInv' PROVE ArrivalInv' /\ StopInv'
  BY <1>1, <1>3, <1>4 DEF StopInv
<1>5. CASE Receive
  <2>1. arrived < MaxArrivals /\ UNCHANGED <<dispatcher, taken, lost>>
    BY <1>5 DEF Receive
  <2>2. \/ /\ platform = "telegram" /\ arrived' = arrived + 1
           /\ queue' = Append(queue, arrived + 1) /\ events' = events
        \/ platform # "telegram" /\ events' = "pushing" /\ UNCHANGED <<arrived, queue>>
    BY <1>5 DEF Receive
  <2>3. arrived + 1 \in Arrivals
    BY <1>2, <2>1 DEF ArrivalInv, Arrivals
  <2>4. queue' \in Seq(Arrivals)
    BY <2>2, <2>3 DEF ArrivalInv
  <2>. QED BY <1>1, <1>2, <1>4, <2>1, <2>2, <2>4
         DEF ArrivalInv, StopInv, Nothing
<1>6. CASE Push
  <2>1. /\ events = "pushing" /\ arrived' = arrived + 1
        /\ UNCHANGED <<dispatcher, taken>>
    BY <1>6 DEF Push
  <2>2. \/ /\ events' = "over" /\ lost' = lost \cup {<<arrived + 1, "dispatcher">>}
           /\ queue' = queue
        \/ /\ dispatcher # "over" /\ events' = "up" /\ lost' = lost
           /\ queue' = Append(queue, arrived + 1)
    BY <1>6 DEF Push
  <2>3. arrived + 1 \in Arrivals /\ arrived' \in 0..MaxArrivals /\ platform # "telegram"
    BY <1>2, <2>1 DEF ArrivalInv, Arrivals
  <2>4. queue' \in Seq(Arrivals)
    BY <2>2, <2>3 DEF ArrivalInv
  <2>. QED BY <1>1, <1>4, <2>1, <2>2, <2>3, <2>4 DEF ArrivalInv, Nothing
<1>7. CASE EventsEnd \/ StreamEnds \/ Answer
  <2>1. /\ UNCHANGED <<arrived, taken, queue, lost>>
        /\ \/ events = "up" /\ events' = "over" /\ dispatcher' = dispatcher
           \/ events' = events /\ dispatcher' = "sending"
    BY <1>7 DEF EventsEnd, StreamEnds, Answer, inbound
  <2>. QED BY <1>1, <1>4, <2>1 DEF ArrivalInv, StopInv, Nothing
<1>8. CASE Take
  <2>1. /\ dispatcher = "idle" /\ dispatcher' = "accepting" /\ queue # <<>>
        /\ taken' = {Head(queue)} /\ queue' = Tail(queue)
        /\ UNCHANGED <<events, arrived, lost>>
    BY <1>8 DEF Take
  <2>2. Head(queue) \in Arrivals /\ Tail(queue) \in Seq(Arrivals)
    BY <2>1 DEF ArrivalInv
  <2>. QED BY <1>1, <1>4, <2>1, <2>2 DEF ArrivalInv, StopInv
<1>9. CASE Served \/ Accepted
  <2>1. /\ dispatcher' = "idle" /\ taken' = {}
        /\ UNCHANGED <<events, arrived, queue, lost>>
    BY <1>9 DEF Served, Accepted, Finished
  <2>. QED BY <1>1, <1>4, <2>1 DEF ArrivalInv, StopInv
<1>10. CASE DispatcherEnds
  <2>1. /\ dispatcher = "idle" /\ dispatcher' = "over"
        /\ UNCHANGED <<events, arrived, taken, queue, lost>>
        /\ platform = "teamspeak" => queue = <<>>
    BY <1>10 DEF DispatcherEnds, AskedToStop
  <2>. QED BY <1>1, <1>4, <2>1 DEF ArrivalInv, StopInv, Nothing
<1>11. CASE DispatcherPanics
  <2>1. dispatcher' = "over" /\ Drop("dispatcher") /\ UNCHANGED <<events, arrived>>
    BY <1>11 DEF DispatcherPanics
  <2>. QED BY <1>1, <1>4, <2>1, DropFacts DEF ArrivalInv, StopInv, Nothing
<1>. QED BY <1>5, <1>6, <1>7, <1>8, <1>9, <1>10, <1>11 DEF Serve, Dispatch

LEMMA ArrivalsStep ==
  ArrivalInv /\ StopInv /\ [ChannelNext]_chanvars => (ArrivalInv /\ StopInv)'
<1>. SUFFICES ASSUME ArrivalInv, StopInv, [ChannelNext]_chanvars
              PROVE  ArrivalInv' /\ StopInv'
  OBVIOUS
<1>1. ASSUME UNCHANGED <<platform, super, events, arrived, inbound>>
      PROVE  ArrivalInv' /\ StopInv'
  BY <1>1 DEF super, inbound, ArrivalInv, StopInv, Nothing
<1>2. ASSUME NEW g \in Generations, Watch(g) \/ Refeed(g) \/ WatcherFails(g)
      PROVE  ArrivalInv' /\ StopInv'
  BY <1>1, <1>2 DEF Watch, Query, Fire, Ring, Sleep, Rise, Refeed, WatcherFails, Elsewhere
<1>3. ASSUME NEW t \in ScheduledTasks, Schedule(t) \/ Unschedule(t) \/ Purge(t) \/ FallDue(t)
      PROVE  ArrivalInv' /\ StopInv'
  BY <1>1, <1>3 DEF Schedule, Unschedule, Purge, FallDue, Becomes, Elsewhere
<1>4. CASE UNCHANGED chanvars
  BY <1>1, <1>4 DEF chanvars
<1>. QED BY <1>2, <1>3, <1>4, SupervisorArrivals, TrafficArrivals DEF ChannelNext

-----------------------------------------------------------------------------
(***************************************************************************)
(* Restarts.  A generation is followed by another only where something     *)
(* failed in it, so their number is bounded by the failures: this is what  *)
(* keeps the numbers of the generations in their type.                     *)
(***************************************************************************)
Waiting == {"awaitEvents", "awaitDispatcher", "awaitWatcher", "leaving"}

RestartInv ==
  /\ supervisor \in Phases
  /\ ended \in {"not", "cancelled", "unjoined", "events", "dispatcher", "watcher"}
  /\ cancelled \in BOOLEAN
  /\ generation \in Nat /\ faults \in 0..MaxFaults /\ generation <= faults + 1
  /\ supervisor \in {"start", "joining", "backoff"} => generation <= faults
  /\ supervisor \in Up => generation \in Generations
  /\ supervisor = "live" =>
       \A who \in Supervised : Over(who) => generation <= faults \/ cancelled
  /\ supervisor \in Waiting => generation <= faults \/ Stopped

LEMMA RestartInit == ChannelInit => RestartInv
<1>. SUFFICES ASSUME ChannelInit PROVE RestartInv
  OBVIOUS
<1>1. /\ supervisor = "start" /\ ended = "not" /\ generation = 0 /\ faults = 0
  BY DEF ChannelInit
<1>2. cancelled \in BOOLEAN
  BY Zenon DEF ChannelInit
<1>3. supervisor \in Phases /\ supervisor \notin Up \cup Waiting
  BY <1>1 DEF Phases, Up, Waiting
<1>4. MaxFaults \in Nat
  BY ChannelAssumption
<1>. QED BY <1>1, <1>2, <1>3, <1>4 DEF RestartInv

LEMMA GoLiveRestarts ==
  ASSUME Inv, ArrivalInv, RestartInv, GoLive, supervisor \in {"start", "joining"},
         UNCHANGED <<cancelled, faults>>, ended' \in {ended, "not"},
         events' = events, events # "over"
  PROVE  RestartInv'
<1>1. /\ generation <= faults /\ generation \in Nat /\ faults \in Nat
      /\ faults <= MaxFaults /\ MaxFaults \in Nat
  BY ChannelAssumption DEF RestartInv
<1>2. /\ supervisor' = "live" /\ generation' = generation + 1 /\ dispatcher' = "idle"
      /\ watcher' = [watcher EXCEPT ![generation + 1].at = "query"]
  BY DEF GoLive
<1>3. generation + 1 \in Generations
  BY <1>1 DEF Generations
<1>4. watcher'[generation'].at = "query"
  BY <1>2, <1>3 DEF Inv, Typed, Watcher
<1>5. \A who \in Supervised : ~Over(who)'
  BY <1>2, <1>4 DEF Over, Supervised
<1>6. supervisor' \in Phases /\ supervisor' \notin Waiting
  BY <1>2 DEF Phases, Waiting
<1>7. generation' \in Nat /\ generation' <= faults' + 1 /\ faults' \in 0..MaxFaults
  BY <1>1, <1>2 DEF RestartInv
<1>8. /\ ended' \in {"not", "cancelled", "unjoined", "events", "dispatcher", "watcher"}
      /\ cancelled' \in BOOLEAN
  BY Zenon DEF RestartInv
<1>. QED BY <1>2, <1>3, <1>5, <1>6, <1>7, <1>8 DEF RestartInv

\* A step that costs nothing and ends nobody.
LEMMA RestartsKept ==
  ASSUME RestartInv, UNCHANGED <<platform, super, faults>>,
         cancelled' = cancelled \/ cancelled' = TRUE,
         supervisor = "live" =>
           \A who \in Supervised : Over(who)' => Over(who) \/ generation <= faults \/ cancelled
  PROVE  RestartInv'
<1>1. cancelled' \in BOOLEAN /\ (cancelled => cancelled')
  BY Zenon DEF RestartInv
<1>2. Stopped => Stopped'
  BY <1>1, Zenon DEF Stopped, super
<1>3. UNCHANGED <<supervisor, ended, generation, faults>>
  BY DEF super
<1>. QED BY <1>1, <1>2, <1>3 DEF RestartInv

LEMMA RestartFault ==
  ASSUME RestartInv, UNCHANGED <<platform, cancelled, super>>, Fault
  PROVE  RestartInv'
<1>1. faults \in Nat /\ MaxFaults \in Nat /\ faults' = faults + 1 /\ faults < MaxFaults
  BY ChannelAssumption DEF Fault, RestartInv
<1>2. UNCHANGED <<supervisor, ended, generation>> /\ cancelled' \in BOOLEAN
  BY Zenon DEF super, RestartInv
<1>3. generation \in Nat /\ generation <= faults'
  BY <1>1 DEF RestartInv
<1>4. faults' \in 0..MaxFaults /\ generation' <= faults' + 1
  BY <1>1, <1>2, <1>3
<1>. QED BY <1>1, <1>2, <1>3, <1>4 DEF RestartInv

LEMMA SupervisorRestarts ==
  ASSUME Inv, ArrivalInv, RestartInv, Supervise \/ ConnectFails
  PROVE  RestartInv'
<1>0. /\ MaxFaults \in Nat /\ faults \in Nat /\ faults <= MaxFaults /\ generation \in Nat
      /\ cancelled' = cancelled /\ cancelled' \in BOOLEAN
  BY ChannelAssumption DEF RestartInv, Supervise, StartGeneration, Join, JoinFails, Notice,
     AwaitEvents, AwaitDispatcher, AwaitWatcher, Leave, Restart, ConnectFails
<1>1. CASE StartGeneration
  <2>1. CASE GoLive
    <3>1. /\ supervisor = "start" /\ ended' = "not" /\ UNCHANGED <<cancelled, faults, events>>
          /\ platform = "telegram"
      BY <1>1, <2>1 DEF StartGeneration, GoLive
    <3>. QED BY <2>1, <3>1, GoLiveRestarts DEF ArrivalInv
  <2>2. CASE ~GoLive
    <3>1. /\ supervisor = "start" /\ supervisor' = "joining" /\ ended' = "not"
          /\ UNCHANGED <<cancelled, faults, generation>>
      BY <1>1, <2>2 DEF StartGeneration
    <3>. QED BY <1>0, <3>1 DEF RestartInv, Phases, Up, Waiting
  <2>. QED BY <2>1, <2>2
<1>2. CASE Join
  <2>1. /\ supervisor = "joining" /\ GoLive /\ UNCHANGED <<cancelled, faults, events, ended>>
        /\ events # "over"
    BY <1>2 DEF Join
  <2>. QED BY <2>1, GoLiveRestarts
<1>3. CASE JoinFails \/ ConnectFails \/ Restart
  <2>1. /\ supervisor \in {"start", "joining", "backoff"} /\ supervisor' \in {"start", "backoff"}
        /\ ended' \in {ended, "unjoined"} /\ generation' = generation
        /\ faults' = faults \/ (faults' = faults + 1 /\ faults < MaxFaults)
    BY <1>3 DEF JoinFails, ConnectFails, Restart, Fault
  <2>. QED BY <1>0, <2>1 DEF RestartInv, Phases, Up, Waiting
<1>4. CASE Notice
  <2>1. PICK who \in Supervised \cup {"cancelled"} :
          /\ IF who = "cancelled" THEN cancelled ELSE Over(who)
          /\ ended' = IF platform = "telegram" /\ cancelled THEN "cancelled" ELSE who
          /\ supervisor' = FirstWait(who)
    BY <1>4 DEF Notice
  <2>2. supervisor = "live" /\ UNCHANGED <<platform, generation, faults>>
    BY <1>4 DEF Notice
  <2>3. generation <= faults \/ cancelled
    BY <2>1, <2>2 DEF RestartInv
  <2>4. generation <= faults \/ Stopped'
    BY <1>0, <2>1, <2>2, <2>3 DEF Stopped
  <2>5. supervisor' \in Waiting /\ supervisor' \in Up /\ supervisor' \in Phases
        /\ supervisor' \notin {"start", "joining", "backoff", "live"}
    BY <2>1 DEF FirstWait, Waiting, Up, Phases
  <2>6. ended' \in {"not", "cancelled", "unjoined", "events", "dispatcher", "watcher"}
    BY <2>1 DEF Supervised
  <2>7. generation' \in Generations
    BY <2>2 DEF RestartInv, Up
  <2>. QED BY <1>0, <2>2, <2>4, <2>5, <2>6, <2>7 DEF RestartInv
<1>5. CASE AwaitEvents \/ AwaitDispatcher \/ AwaitWatcher
  <2>1. /\ supervisor \in Waiting /\ supervisor' \in Waiting
        /\ UNCHANGED <<platform, generation, ended>>
        /\ faults' = faults \/ (faults' = faults + 1 /\ faults < MaxFaults)
    BY <1>5 DEF AwaitEvents, AwaitDispatcher, AwaitWatcher, AfterEvents, Waiting, Fault, inbound
  <2>2. generation <= faults \/ Stopped
    BY <2>1 DEF RestartInv
  <2>3. Stopped => Stopped'
    BY <1>0, <2>1 DEF Stopped
  <2>4. supervisor \in Up /\ supervisor' \in Up /\ supervisor' \in Phases
        /\ supervisor' \notin {"start", "joining", "backoff", "live"}
    BY <2>1 DEF Waiting, Up, Phases
  <2>. QED BY <1>0, <2>1, <2>2, <2>3, <2>4 DEF RestartInv
<1>6. CASE Leave
  <2>1. /\ supervisor = "leaving" /\ UNCHANGED <<generation, ended, faults>>
        /\ supervisor' = IF Stopped THEN "stopped" ELSE "backoff"
    BY <1>6 DEF Leave
  <2>2. generation <= faults \/ Stopped
    BY <2>1 DEF RestartInv, Waiting
  <2>3. supervisor' \notin Waiting \cup Up /\ supervisor' \in Phases
    BY <2>1 DEF Waiting, Up, Phases
  <2>. QED BY <1>0, <2>1, <2>2, <2>3 DEF RestartInv, Up
<1>. QED BY <1>1, <1>2, <1>3, <1>4, <1>5, <1>6 DEF Supervise

LEMMA OtherRestarts ==
  ASSUME Inv, RestartInv, [ChannelNext]_chanvars
  PROVE  RestartInv' \/ Supervise \/ ConnectFails
<1>1. CASE Cancel \/ Receive \/ Answer \/ Take \/ Served \/ Accepted \/ UNCHANGED chanvars
  <2>1. /\ UNCHANGED <<platform, super, faults, watcher>> /\ cancelled' \in {cancelled, TRUE}
        /\ dispatcher' = "over" => dispatcher = "over"
        /\ events' = "over" => events = "over"
    BY <1>1 DEF Cancel, Receive, Answer, Take, Served, Accepted, Finished, chanvars, tasks,
                inbound
  <2>2. \A who \in Supervised : Over(who)' => Over(who)
    BY <2>1 DEF Over, Supervised, super
  <2>. QED BY <2>1, <2>2, RestartsKept
<1>2. CASE Push \/ EventsEnd \/ DispatcherEnds
  <2>1. UNCHANGED <<platform, cancelled, super, faults, watcher>>
    BY <1>2 DEF Push, EventsEnd, DispatcherEnds, tasks, inbound
  <2>2. /\ dispatcher' = "over" => dispatcher = "over" \/ events = "over" \/ supervisor # "live"
        /\ events' = "over" => events = "over" \/ dispatcher = "over" \/ cancelled
                                 \/ supervisor # "live"
    BY <1>2 DEF Push, EventsEnd, DispatcherEnds, AskedToStop, Closing, inbound
  <2>3. supervisor = "live" =>
          \A who \in Supervised : Over(who)' => (\E by \in Supervised : Over(by)) \/ cancelled
    BY <2>1, <2>2 DEF Over, Supervised, super
  <2>4. supervisor = "live" =>
          \A who \in Supervised : Over(who) => generation <= faults \/ cancelled
    BY DEF RestartInv
  <2>. QED BY <2>1, <2>3, <2>4, RestartsKept
<1>3. CASE StreamEnds \/ DispatcherPanics
  BY <1>3, RestartFault DEF StreamEnds, DispatcherPanics
<1>4. ASSUME NEW g \in Generations, Watch(g) \/ Refeed(g) \/ WatcherFails(g)
      PROVE  RestartInv'
  <2>1. CASE UNCHANGED faults
    <3>1. UNCHANGED <<platform, cancelled, super, faults, events, dispatcher>>
      BY <1>4, <2>1 DEF Watch, Query, Fire, Ring, Sleep, Rise, Refeed, WatcherFails, Elsewhere,
                        inbound
    <3>2. /\ watcher' = watcher \/ \E w : watcher' = [watcher EXCEPT ![g] = w]
          /\ watcher'[g].at = "over" => watcher[g].at = "over" \/ cancelled
      <4>1. watcher \in [Generations -> Watcher] /\ faults \in Nat
        BY DEF Inv, Typed, RestartInv
      <4>. QED BY <1>4, <2>1, <4>1 DEF Watch, Query, Fire, Ring, Sleep, Rise, Refeed, Watcher,
                                   WatcherFails, Fault
    <3>3. supervisor = "live" => \A who \in Supervised : Over(who)' => Over(who) \/ cancelled
      BY <3>1, <3>2 DEF Over, Supervised, super, Inv, Typed, RestartInv, Up
    <3>. QED BY <3>1, <3>3, RestartsKept
  <2>2. CASE Fault
    <3>1. UNCHANGED <<platform, cancelled, super>>
      BY <1>4 DEF Watch, Query, Fire, Ring, Sleep, Rise, Refeed, WatcherFails, Elsewhere
    <3>. QED BY <2>2, <3>1, RestartFault
  <2>. QED BY <1>4, <2>1, <2>2 DEF Watch, Query, Fire, Ring, Sleep, Rise, Refeed, WatcherFails
<1>5. ASSUME NEW t \in ScheduledTasks, Schedule(t) \/ Unschedule(t) \/ Purge(t) \/ FallDue(t)
      PROVE  RestartInv'
  <2>1. UNCHANGED <<platform, cancelled, super, faults, events, dispatcher, watcher>>
    BY <1>5 DEF Schedule, Unschedule, Purge, FallDue, Becomes, Elsewhere, tasks, inbound
  <2>2. \A who \in Supervised : Over(who)' => Over(who)
    BY <2>1 DEF Over, Supervised, super
  <2>. QED BY <2>1, <2>2, RestartsKept
<1>. QED BY <1>1, <1>2, <1>3, <1>4, <1>5 DEF ChannelNext, Serve, Dispatch

\* What is left of the type: the re-feeds and how often a task falls due.
CountType ==
  /\ refeed \in [Generations -> {"off", "due", "over"}]
  /\ slots \in [ScheduledTasks -> 0..MaxSlots]
  /\ unrung \subseteq ScheduledTasks /\ unfed \in BOOLEAN

LEMMA CountInit == ChannelInit => CountType
<1>. SUFFICES ASSUME ChannelInit PROVE CountType
  OBVIOUS
<1>1. MaxSlots \in Nat /\ MaxSlots > 0
  BY ChannelAssumption
<1>2. unfed \in BOOLEAN
  BY Zenon DEF ChannelInit
<1>. QED BY <1>1, <1>2 DEF ChannelInit, CountType

LEMMA CountStep ==
  ASSUME Inv, CountType, [ChannelNext]_chanvars
  PROVE  CountType'
<1>1. unfed' \in BOOLEAN
  <2>1. unfed' = unfed \/ unfed' = TRUE
    BY DEF ChannelNext, chanvars, Supervise, StartGeneration, Join, JoinFails, Notice,
       AwaitEvents, AwaitDispatcher, AwaitWatcher, Leave, Restart, Serve, Push, EventsEnd,
       Dispatch, Take, Served, Accepted, Finished, DispatcherEnds, Watch, Query, Fire, Ring,
       Sleep, Rise, Refeed, WatcherFails, ConnectFails, StreamEnds, DispatcherPanics, Receive,
       Answer, Cancel, Schedule, Unschedule, Purge, FallDue, Becomes, Elsewhere, tasks
  <2>. QED BY <2>1, Zenon DEF CountType
<1>2. refeed' \in [Generations -> {"off", "due", "over"}]
  <2>1. \/ refeed' = refeed
        \/ \E g, v : v \in {"due", "over"} /\ refeed' = [refeed EXCEPT ![g] = v]
    BY DEF ChannelNext, chanvars, Supervise, StartGeneration, Join, JoinFails, Notice, GoLive,
       AwaitEvents, AwaitDispatcher, AwaitWatcher, Leave, Restart, Serve, Push, EventsEnd,
       Dispatch, Take, Served, Accepted, Finished, DispatcherEnds, Watch, Query, Fire, Ring,
       Sleep, Rise, Refeed, WatcherFails, ConnectFails, StreamEnds, DispatcherPanics, Receive,
       Answer, Cancel, Schedule, Unschedule, Purge, FallDue, Becomes, Elsewhere, tasks
  <2>. QED BY <2>1 DEF CountType
<1>3. slots' \in [ScheduledTasks -> 0..MaxSlots]
  <2>1. \/ slots' = slots
        \/ \E t \in ScheduledTasks : slots[t] < MaxSlots /\ slots' = [slots EXCEPT ![t] = @ + 1]
    BY DEF ChannelNext, chanvars, Supervise, StartGeneration, Join, JoinFails, Notice,
       AwaitEvents, AwaitDispatcher, AwaitWatcher, Leave, Restart, Serve, Push, EventsEnd,
       Dispatch, Take, Served, Accepted, Finished, DispatcherEnds, Watch, Query, Fire, Ring,
       Sleep, Rise, Refeed, WatcherFails, ConnectFails, StreamEnds, DispatcherPanics, Receive,
       Answer, Cancel, Schedule, Unschedule, Purge, FallDue, Becomes, Elsewhere, rows
  <2>. QED BY <2>1, ChannelAssumption DEF CountType
<1>4. unrung' \subseteq ScheduledTasks
  <2>1. \/ unrung' \subseteq unrung
        \/ \E g \in Generations : \E t \in watcher[g].due : unrung' = unrung \cup {t}
    BY DEF ChannelNext, chanvars, Supervise, StartGeneration, Join, JoinFails, Notice,
       AwaitEvents, AwaitDispatcher, AwaitWatcher, Leave, Restart, Serve, Push, EventsEnd,
       Dispatch, Take, Served, Accepted, Finished, DispatcherEnds, Watch, Query, Fire, Ring,
       Sleep, Rise, Refeed, WatcherFails, ConnectFails, StreamEnds, DispatcherPanics, Receive,
       Answer, Cancel, Schedule, Unschedule, Purge, FallDue, Becomes, Elsewhere, rows
  <2>. QED BY <2>1 DEF CountType, Inv, Typed, Watcher
<1>. QED BY <1>1, <1>2, <1>3, <1>4 DEF CountType

LEMMA TypeFollows ==
  Inv /\ ArrivalInv /\ RestartInv /\ CountType => ChannelTypeOK
<1>. SUFFICES ASSUME Inv, ArrivalInv, RestartInv, CountType PROVE ChannelTypeOK
  OBVIOUS
<1>1. generation \in 0..(MaxFaults + 1)
  BY ChannelAssumption DEF RestartInv
<1>2. taken \subseteq Arrivals /\ Cardinality(taken) <= 1
  <2>1. CASE taken = {}
    BY <2>1, FS_EmptySet
  <2>2. ASSUME NEW a \in Arrivals, taken = {a}
        PROVE  taken \subseteq Arrivals /\ Cardinality(taken) <= 1
    BY <2>2, FS_Singleton
  <2>. QED BY <2>1, <2>2 DEF ArrivalInv
<1>3. watcher \in [Generations -> [at : {"off", "query", "firing", "ringing", "asleep", "over"},
                                   due : SUBSET ScheduledTasks, ring : SUBSET ScheduledTasks]]
  BY DEF Inv, Typed, Watcher
<1>4. fired \in [ScheduledTasks -> Nat]
      /\ row \in [ScheduledTasks -> {"none", "waiting", "due", "inactive", "deleted"}]
  BY DEF Inv, Typed, Rows
<1>. QED BY <1>1, <1>2, <1>3, <1>4, Zenon DEF ChannelTypeOK, ArrivalInv, RestartInv, CountType

(***************************************************************************)
(* Every variable keeps its type, however often the process is stopped and *)
(* whatever fails. What matters in it is the number of generations: each   *)
(* but the first costs a failure, since a stop starts no other             *)
(* (supervise, run_generation).                                            *)
(***************************************************************************)
THEOREM ChannelTypes == ChannelSpec => []ChannelTypeOK
<1> DEFINE All == Inv /\ ArrivalInv /\ StopInv /\ RestartInv /\ CountType
<1>1. ChannelInit => All
  BY InitHolds, ArrivalsInit, RestartInit, CountInit
<1>2. All /\ [ChannelNext]_chanvars => All'
  <2>. SUFFICES ASSUME All, [ChannelNext]_chanvars PROVE All'
    OBVIOUS
  <2>1. RestartInv'
    BY OtherRestarts, SupervisorRestarts
  <2>. QED BY <2>1, StepHolds, ArrivalsStep, CountStep
<1>3. All => ChannelTypeOK
  BY TypeFollows
<1>. QED BY <1>1, <1>2, <1>3, PTL DEF ChannelSpec
-----------------------------------------------------------------------------
(***************************************************************************)
(* Losses.  Where nothing failed, a dispatcher that is over outlived the   *)
(* event task, and a connection that broke off while it joined was told to *)
(* stop.                                                                   *)
(***************************************************************************)
LossInv ==
  /\ faults = 0 /\ dispatcher = "over" => events \in {"off", "over"}
  /\ faults = 0 /\ supervisor = "joining" /\ events = "over" => cancelled
  /\ LossesHaveACause

LEMMA LossInit == ChannelInit => LossInv
BY DEF ChannelInit, LossInv, LossesHaveACause

\* A step that loses nothing.
LEMMA LossKept ==
  ASSUME LossInv, faults \in Nat, UNCHANGED <<platform, lost>>,
         cancelled' = cancelled \/ cancelled' = TRUE,
         \/ faults' = faults + 1
         \/ /\ faults' = faults
            /\ dispatcher' = "over" =>
                 events' \in {"off", "over"} \/ (dispatcher = "over" /\ events' = events)
            /\ supervisor' = "joining" /\ events' = "over" =>
                 cancelled \/ (supervisor = "joining" /\ events = "over")
  PROVE  LossInv'
<1>1. faults' = 0 => faults = 0 /\ faults' = faults
  OBVIOUS
<1>2. cancelled => cancelled'
  BY Zenon
<1>3. LossesHaveACause'
  BY <1>1, <1>2, Zenon DEF LossInv, LossesHaveACause
<1>4. faults' = 0 /\ dispatcher' = "over" => events' \in {"off", "over"}
  BY <1>1 DEF LossInv
<1>5. faults' = 0 /\ supervisor' = "joining" /\ events' = "over" => cancelled'
  BY <1>1, <1>2 DEF LossInv
<1>. QED BY <1>3, <1>4, <1>5 DEF LossInv

\* A step that loses arrivals, for one reason.
LEMMA LossAdds ==
  ASSUME LossInv, faults \in Nat, UNCHANGED <<platform, cancelled>>,
         NEW reason, \A l \in lost' : l \in lost \/ l[2] = reason,
         \/ reason \in {"dispatcher", "late"}
         \/ platform = "teamspeak" /\ reason \in {"unjoined", "watcher"},
         \/ faults' # 0 /\ faults' \in {faults, faults + 1}
         \/ /\ faults' = faults /\ cancelled /\ reason \in {"unjoined", "watcher"}
            /\ dispatcher' # "over",
         supervisor' # "joining"
  PROVE  LossInv'
<1>1. faults' = 0 => /\ faults = 0 /\ cancelled /\ reason \in {"unjoined", "watcher"}
                     /\ dispatcher' # "over"
  OBVIOUS
<1>2. LossesHaveACause'
  <2>. SUFFICES ASSUME NEW l \in lost'
                PROVE  /\ \/ l[2] \in {"dispatcher", "late"}
                          \/ platform = "teamspeak" /\ l[2] \in {"unjoined", "watcher"}
                       /\ faults' = 0 => cancelled /\ l[2] \in {"unjoined", "watcher"}
    BY DEF LossesHaveACause
  <2>1. CASE l \in lost
    BY <1>1, <2>1 DEF LossInv, LossesHaveACause
  <2>2. CASE l[2] = reason
    BY <1>1, <2>2
  <2>. QED BY <2>1, <2>2
<1>. QED BY <1>1, <1>2 DEF LossInv

LEMMA LossStep ==
  ASSUME ArrivalInv, StopInv, RestartInv, LossInv, [ChannelNext]_chanvars
  PROVE  LossInv'
<1>0. faults \in Nat
  BY DEF RestartInv
<1>1. CASE StartGeneration \/ Join \/ Notice \/ AwaitEvents \/ AwaitWatcher \/ Restart
             \/ ConnectFails
  <2>1. /\ UNCHANGED <<platform, lost, cancelled>>
        /\ faults' = faults \/ faults' = faults + 1
    BY <1>1 DEF StartGeneration, Join, Notice, AwaitEvents, AwaitWatcher, Restart,
                ConnectFails, Fault, inbound
  <2>2. /\ supervisor' = "joining" => events' = "up"
        /\ dispatcher' = "over" => dispatcher = "over" /\ events' = events
    BY <1>1 DEF StartGeneration, Join, GoLive, Notice, AwaitEvents, AwaitWatcher, Restart,
                ConnectFails, FirstWait, AfterEvents, StopInv, inbound
  <2>. QED BY <1>0, <2>1, <2>2, LossKept
<1>2. CASE JoinFails
  <2>1. /\ supervisor = "joining" /\ supervisor' = "backoff" /\ Drop("unjoined")
        /\ UNCHANGED <<platform, cancelled, dispatcher>>
        /\ \/ events = "over" /\ faults' = faults
           \/ faults' = faults + 1
    BY <1>2 DEF JoinFails, Fault
  <2>2. platform = "teamspeak" /\ dispatcher = "off"
    BY <2>1 DEF StopInv
  <2>3. \A l \in lost' : l \in lost \/ l[2] = "unjoined"
    BY <2>1, DropFacts
  <2>4. faults = 0 /\ events = "over" => cancelled
    BY <2>1 DEF LossInv
  <2>. QED BY <1>0, <2>1, <2>2, <2>3, <2>4, LossAdds
<1>3. CASE AwaitDispatcher
  <2>1. CASE UNCHANGED <<inbound, faults>>
    <3>1. /\ UNCHANGED <<platform, lost, cancelled, events, dispatcher, faults>>
          /\ supervisor' # "joining"
      BY <1>3, <2>1 DEF AwaitDispatcher, inbound
    <3>. QED BY <1>0, <3>1, LossKept
  <2>2. CASE Fault /\ Drop("late")
    <3>1. /\ UNCHANGED <<platform, cancelled>> /\ supervisor' # "joining"
          /\ faults' = faults + 1
      BY <1>3, <2>2 DEF AwaitDispatcher, Fault
    <3>2. \A l \in lost' : l \in lost \/ l[2] = "late"
      BY <2>2, DropFacts
    <3>. QED BY <1>0, <3>1, <3>2, LossAdds
  <2>. QED BY <1>3, <2>1, <2>2 DEF AwaitDispatcher
<1>4. CASE Leave
  <2>1. /\ supervisor = "leaving" /\ supervisor' \in {"stopped", "backoff"}
        /\ dispatcher' = "off" /\ Drop(ended)
        /\ UNCHANGED <<platform, cancelled, faults>>
    BY <1>4 DEF Leave
  <2>2. CASE dispatcher = "over"
    <3>1. lost' = lost
      BY <2>1, <2>2, DropFacts DEF ArrivalInv
    <3>. QED BY <1>0, <2>1, <3>1, LossKept
  <2>3. CASE dispatcher # "over"
    <3>1. platform = "teamspeak" /\ ended = "watcher"
      BY <2>1, <2>3 DEF StopInv
    <3>2. faults = 0 => cancelled
      BY <2>1, <3>1 DEF RestartInv, Waiting, Up, Generations, Stopped
    <3>3. \A l \in lost' : l \in lost \/ l[2] = "watcher"
      BY <2>1, <3>1, DropFacts
    <3>. QED BY <1>0, <2>1, <3>1, <3>2, <3>3, LossAdds
  <2>. QED BY <2>2, <2>3
<1>5. CASE Push
  <2>1. /\ events = "pushing" /\ UNCHANGED <<platform, cancelled, dispatcher, supervisor, faults>>
        /\ \/ /\ dispatcher = "over" /\ events' = "over"
              /\ lost' = lost \cup {<<arrived + 1, "dispatcher">>}
           \/ dispatcher # "over" /\ events' = "up" /\ lost' = lost
    BY <1>5 DEF Push, super
  <2>2. CASE dispatcher = "over"
    <3>1. faults # 0 /\ supervisor # "joining"
      BY <2>1, <2>2 DEF LossInv, StopInv
    <3>2. \A l \in lost' : l \in lost \/ l[2] = "dispatcher"
      BY <2>1, <2>2
    <3>. QED BY <1>0, <2>1, <3>1, <3>2, LossAdds
  <2>3. CASE dispatcher # "over"
    BY <1>0, <2>1, <2>3, LossKept
  <2>. QED BY <2>2, <2>3
<1>6. CASE EventsEnd \/ DispatcherEnds \/ StreamEnds
  <2>1. /\ UNCHANGED <<platform, cancelled, supervisor, lost>>
        /\ faults' = faults \/ faults' = faults + 1
    BY <1>6 DEF EventsEnd, DispatcherEnds, StreamEnds, Fault, super, inbound
  <2>2. CASE EventsEnd
    BY <1>0, <2>1, <2>2, LossKept DEF EventsEnd, Closing
  <2>3. CASE DispatcherEnds
    <3>1. events' = events /\ faults' = faults /\ events \in {"off", "over"}
      BY <2>3 DEF DispatcherEnds, AskedToStop, ArrivalInv
    <3>. QED BY <1>0, <2>1, <3>1, LossKept
  <2>4. CASE StreamEnds
    BY <1>0, <2>1, <2>4, LossKept DEF StreamEnds, Fault
  <2>. QED BY <1>6, <2>2, <2>3, <2>4
<1>7. CASE DispatcherPanics
  <2>1. /\ dispatcher # "off" /\ Drop("dispatcher") /\ faults' = faults + 1
        /\ UNCHANGED <<platform, cancelled, supervisor>>
    BY <1>7 DEF DispatcherPanics, Fault, super
  <2>2. supervisor' # "joining"
    BY <2>1 DEF StopInv
  <2>3. \A l \in lost' : l \in lost \/ l[2] = "dispatcher"
    BY <2>1, DropFacts
  <2>. QED BY <1>0, <2>1, <2>2, <2>3, LossAdds
<1>8. CASE Receive \/ Take \/ Answer \/ Served \/ Accepted \/ Cancel \/ UNCHANGED chanvars
  <2>1. /\ UNCHANGED <<platform, supervisor, lost, faults>>
        /\ cancelled' = cancelled \/ cancelled' = TRUE
        /\ dispatcher' = "over" => dispatcher = "over"
        /\ events' = events \/ (events = "up" /\ events' = "pushing")
    BY <1>8 DEF Receive, Take, Answer, Served, Accepted, Finished, Cancel, chanvars, super,
                inbound
  <2>2. faults = 0 /\ events = "up" => dispatcher # "over"
    BY DEF LossInv
  <2>3. CASE faults = 0
    BY <1>0, <2>1, <2>2, <2>3, LossKept
  <2>4. CASE faults # 0
    <3>1. faults' # 0
      BY <2>1, <2>4
    <3>2. cancelled => cancelled'
      BY <2>1, Zenon
    <3>. QED BY <2>1, <2>4, <3>1, <3>2 DEF LossInv, LossesHaveACause
  <2>. QED BY <2>3, <2>4
<1>9. ASSUME NEW g \in Generations, Watch(g) \/ Refeed(g) \/ WatcherFails(g)
      PROVE  LossInv'
  <2>1. /\ UNCHANGED <<platform, cancelled, supervisor, lost, events, dispatcher>>
        /\ faults' = faults \/ faults' = faults + 1
    BY <1>9 DEF Watch, Query, Fire, Ring, Sleep, Rise, Refeed, WatcherFails, Fault, Elsewhere,
                super, inbound
  <2>. QED BY <1>0, <2>1, LossKept
<1>10. ASSUME NEW t \in ScheduledTasks, Schedule(t) \/ Unschedule(t) \/ Purge(t) \/ FallDue(t)
       PROVE  LossInv'
  <2>1. UNCHANGED <<platform, cancelled, supervisor, lost, events, dispatcher, faults>>
    BY <1>10 DEF Schedule, Unschedule, Purge, FallDue, Becomes, Elsewhere, super, inbound
  <2>. QED BY <1>0, <2>1, LossKept
<1>. QED BY <1>1, <1>2, <1>3, <1>4, <1>5, <1>6, <1>7, <1>8, <1>9, <1>10
     DEF ChannelNext, Supervise, Serve, Dispatch

(***************************************************************************)
(* An arrival is lost only to a failure, or to a stop of a TeamSpeak       *)
(* channel that was still joining or that run_generation noticed by its    *)
(* watcher. On Telegram, and wherever else a generation ends, only the     *)
(* dispatcher's own end and its limit lose anything (run_generation of     *)
(* both platforms, wait_until_joined).                                     *)
(***************************************************************************)
THEOREM ArrivalsAreLostForACause == ChannelSpec => []LossesHaveACause
<1> DEFINE All == Inv /\ ArrivalInv /\ StopInv /\ RestartInv /\ LossInv
<1>1. ChannelInit => All
  BY InitHolds, ArrivalsInit, RestartInit, LossInit
<1>2. All /\ [ChannelNext]_chanvars => All'
  <2>. SUFFICES ASSUME All, [ChannelNext]_chanvars PROVE All'
    OBVIOUS
  <2>1. RestartInv'
    BY OtherRestarts, SupervisorRestarts
  <2>. QED BY <2>1, StepHolds, ArrivalsStep, LossStep
<1>3. All => LossesHaveACause
  BY DEF LossInv
<1>. QED BY <1>1, <1>2, <1>3, PTL DEF ChannelSpec
==============================================================================
