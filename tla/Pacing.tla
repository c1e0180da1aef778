------------------------------- MODULE Pacing -------------------------------
(***************************************************************************)
(* When one Conversation's agent spends a Turn: the attention rules        *)
(* (agent/chat/scheduler.rs, attention.rs), the retry budget and its       *)
(* backoff (pacing.rs), and the idle tick that waits by them (run.rs).     *)
(*                                                                         *)
(* An instant is kept as the time left until it, or the time since it: the *)
(* clocks run down together in Pass. Time may pass before an agent that is *)
(* due gets to act. Heat is a whole number; what is halved is rounded down.*)
(* Purges, policies and the token threshold intercept a tick before these  *)
(* rules and are ConversationAgent's.                                      *)
(***************************************************************************)
EXTENDS Integers, Sequences, FiniteSets

CONSTANTS
  Debounce,    \* DEBOUNCE_DURATION
  WindowSecs,  \* [agent.attention] window-secs
  IdleTimeout, \* [agent.context] session-idle-timeout-secs
  DecayStep,   \* DECAY_STEP
  Backoff,     \* RETRY_BACKOFF
  BaseHeat,    \* [agent.attention] base-attention
  MaxHeat,     \* MAX_HEAT
  SpendHeat,   \* SPEND_HEAT
  MaxRetries,  \* MAX_TURN_RETRIES
  MaxArrivals, \* bound: changes that arrive
  MaxPanics    \* bound: Turns that panic

ASSUME PacingAssumption ==
  /\ {Debounce, WindowSecs, IdleTimeout, DecayStep, Backoff, MaxHeat} \subseteq Nat \ {0}
  /\ {BaseHeat, SpendHeat, MaxRetries, MaxArrivals, MaxPanics} \subseteq Nat
  /\ BaseHeat <= MaxHeat

None == -1
Audiences == {"agent", "bystanders", "context"}

VARIABLES
  quiet,     \* debounce_until: time left, None when there is none
  window,    \* Window: time left, 0 when it is closed
  heat,      \* Heat::value
  cooling,   \* time since the last decay, 0 while the window is open
  sinceRun,  \* time since last_run_end, counted to just past the timeout
  attempts,  \* RetryBudget::attempts_left
  owed,      \* RetryBudget::owed_at: time left, None when nothing is owed
  pause,     \* time left of the wait a failed refresh ends its tick with
  unread,    \* the changes not yet fed to the scheduler, in order
  rung,      \* the doorbell's permit
  pending,   \* how many reasons to wake the batch holds
  held,      \* the batch holds anything
  content,   \* the chapter has content no wrap-up has read
  pc,        \* where the agent stands
  ground,    \* what the Turn under way, or the last one, was started by
  late,      \* it was dispatched past the idle expiry
  deferred,  \* a tick decided nothing, and nothing has changed since
  arrivals, panics

clocks == <<quiet, window, heat, cooling, sinceRun, attempts, owed, pause>>
facts  == <<unread, rung, pending, held, content>>
counts == <<arrivals, panics>>
vars   == <<clocks, facts, pc, ground, late, deferred, counts>>

Waiting == {"pause", "owed", "wait"}

PacingTypeOK ==
  /\ quiet \in None..Debounce /\ window \in 0..WindowSecs
  /\ heat \in BaseHeat..MaxHeat /\ cooling \in 0..(DecayStep - 1)
  /\ sinceRun \in 0..(IdleTimeout + 1) /\ attempts \in 0..MaxRetries
  /\ owed \in None..Backoff /\ pause \in 0..Backoff
  /\ unread \in Seq(Audiences) /\ arrivals \in 0..MaxArrivals /\ panics \in 0..MaxPanics
  /\ {rung, held, content, deferred} \subseteq BOOLEAN
  /\ pc \in Waiting \cup {"tick", "decide", "dispatch", "turn", "wrapup", "gone"}
  /\ ground \in {"none", "window", "heat", "retry"}
  /\ late \in BOOLEAN
  /\ pending \in 0..MaxArrivals /\ (pending > 0 => held)

\* A new agent, built by the ring that found it missing.
Init ==
  /\ quiet = None /\ window = 0 /\ heat = BaseHeat /\ cooling = 0 /\ sinceRun = 0
  /\ attempts = MaxRetries /\ owed = None /\ pause = 0
  /\ unread = <<>> /\ rung = TRUE /\ pending = 0 /\ held = FALSE
  /\ content \in BOOLEAN
  /\ pc = "tick" /\ ground = "none" /\ late = FALSE /\ deferred = FALSE
  /\ arrivals = 0 /\ panics = 0

-----------------------------------------------------------------------------
(***************************************************************************)
(* The clocks                                                              *)
(***************************************************************************)
Down(left) == IF left > 0 THEN left - 1 ELSE left

\* Heat::decay, which is due once a window is over.
Cool ==
  IF window > 0 THEN cooling' = 0 /\ UNCHANGED heat
  ELSE IF cooling + 1 < DecayStep THEN cooling' = cooling + 1 /\ UNCHANGED heat
  ELSE cooling' = 0 /\ heat' = BaseHeat + (heat - BaseHeat) \div 2

Pass ==
  /\ pc \notin {"decide", "gone"}
  /\ deferred' = FALSE
  /\ quiet' = Down(quiet) /\ window' = Down(window)
  /\ owed' = Down(owed) /\ pause' = Down(pause)
  /\ sinceRun' = IF sinceRun > IdleTimeout THEN sinceRun ELSE sinceRun + 1
  /\ Cool
  /\ UNCHANGED <<attempts, facts, pc, ground, late, counts>>

\* EventScheduler::on_event, on_addressed: what one change does to the clocks.
\* A host action moves none.
OnEvent(state, audience) ==
  CASE audience = "agent"      -> [quiet |-> None, window |-> WindowSecs, heat |-> MaxHeat,
                                   cooling |-> 0]
    [] audience = "bystanders" -> [state EXCEPT !.quiet = Debounce]
    [] audience = "context"    -> state

\* RetryBudget::fail_after_backoff and fail_now
FailAttempt(wait) ==
  /\ attempts' = Down(attempts)
  /\ owed' = IF attempts > 0 THEN wait ELSE owed

\* The entries the scheduler has not seen are fed to it in their order; fed[n] is
\* where the clocks stand after n of them.
Fed(state, changes) ==
  LET fed[n \in 0..Len(changes)] == IF n = 0 THEN state ELSE OnEvent(fed[n - 1], changes[n])
  IN  fed[Len(changes)]

Wakes(changes) == {i \in DOMAIN changes : changes[i] # "context"}

\* refresh_batch: any new entry makes the retry budget whole and cancels the
\* attempt it owed.
Refresh ==
  LET fed == Fed([quiet |-> quiet, window |-> window, heat |-> heat, cooling |-> cooling], unread)
  IN  /\ quiet' = fed.quiet /\ window' = fed.window
      /\ heat' = fed.heat /\ cooling' = fed.cooling
      /\ unread' = <<>>
      /\ held' = (held \/ unread # <<>>)
      /\ pending' = pending + Cardinality(Wakes(unread))
      /\ IF unread # <<>> THEN attempts' = MaxRetries /\ owed' = None
                          ELSE UNCHANGED <<attempts, owed>>

-----------------------------------------------------------------------------
(***************************************************************************)
(* The idle tick                                                           *)
(***************************************************************************)
HasWakeReason == attempts > 0 /\ pending > 0

DeadlineMutant ==                                  \* ADeferredTickWaits
  IF quiet # None THEN quiet
  ELSE IF window > 0 THEN 0
  ELSE IF sinceRun >= IdleTimeout THEN 0 ELSE IdleTimeout - sinceRun

\* next_deadline: the time left until the tick wakes up by itself.
Deadline ==
  IF quiet # None THEN quiet
  ELSE IF HasWakeReason /\ window > 0 THEN 0
  ELSE IF sinceRun >= IdleTimeout THEN 0 ELSE IdleTimeout - sinceRun

\* The head of a tick: what is already in hand is settled first.
Settle ==
  /\ pc = "tick"
  /\ IF held \/ window > 0
     THEN Refresh /\ deferred' = (deferred /\ unread = <<>>)
     ELSE UNCHANGED <<clocks, facts, deferred>>
  /\ pc' = IF owed' # None THEN "owed" ELSE "wait"
  /\ UNCHANGED <<sinceRun, pause, rung, content, ground, late, counts>>

\* A refresh that fails, at the head of a tick, counts as an attempt and waits.
SettleFails ==
  /\ pc = "tick" /\ (held \/ window > 0)
  /\ FailAttempt(Backoff)
  /\ pc' = "pause" /\ pause' = Backoff
  /\ UNCHANGED <<quiet, window, heat, cooling, sinceRun, facts, ground, late, deferred, counts>>

Paused ==
  /\ pc = "pause" /\ pause = 0
  /\ pc' = "tick"
  /\ UNCHANGED <<clocks, facts, ground, late, deferred, counts>>

Activate(by) == /\ pc' = "dispatch" /\ ground' = by
                /\ late' = (sinceRun > IdleTimeout) /\ deferred' = FALSE

\* The attempt a failure owes goes without asking the scheduler.
Retry ==
  /\ pc = "owed" /\ owed = 0
  /\ owed' = None
  /\ Activate("retry")
  /\ UNCHANGED <<quiet, window, heat, cooling, sinceRun, attempts, pause, facts, counts>>

Woken == pc = "wait" /\ (rung \/ Deadline = 0)

\* The doorbell or the deadline ends the wait; the batch is read again. (A
\* permit taken by a refresh that then fails is gone.)
Wake ==
  /\ Woken
  /\ Refresh
  /\ rung' = FALSE /\ pc' = "decide"
  /\ UNCHANGED <<sinceRun, pause, content, ground, late, deferred, counts>>

WakeFails ==
  /\ Woken
  /\ FailAttempt(Backoff)
  /\ rung' = FALSE /\ pc' = "tick" /\ deferred' = FALSE
  /\ UNCHANGED <<quiet, window, heat, cooling, sinceRun, pause, unread, pending, held, content,
                 ground, late, counts>>

Defer == /\ pc' = "tick" /\ deferred' = TRUE
         /\ UNCHANGED <<heat, ground, late>>

SpendMutant == heat' = heat - SpendHeat            \* PacingTypeOK
Spend == heat' = IF heat - SpendHeat > BaseHeat THEN heat - SpendHeat ELSE BaseHeat

\* Done: a chapter with content is wrapped up, an empty one lets the agent go.
Expire == /\ pc' = IF content THEN "wrapup" ELSE "gone"
          /\ deferred' = FALSE /\ UNCHANGED <<heat, ground, late>>

ExpiredMutant == sinceRun > IdleTimeout /\ pending = 0   \* PendingIsSettled
Expired == sinceRun > IdleTimeout

\* EventScheduler::decide. Heat that is not at its maximum may lose the draw.
Decide ==
  /\ pc = "decide"
  /\ quiet' = IF quiet = 0 THEN None ELSE quiet
  /\ \/ quiet > 0 /\ Defer
     \/ quiet <= 0 /\ window > 0 /\ ~HasWakeReason /\ Defer
     \/ quiet <= 0 /\ window > 0 /\ HasWakeReason
          /\ Activate("window") /\ UNCHANGED heat
     \/ quiet <= 0 /\ window = 0 /\ HasWakeReason /\ heat > 0
          /\ Spend /\ Activate("heat")
     \/ /\ quiet <= 0 /\ window = 0
        /\ HasWakeReason => heat < MaxHeat
        /\ IF Expired THEN Expire ELSE Defer
  /\ UNCHANGED <<window, cooling, sinceRun, attempts, owed, pause, facts, counts>>

-----------------------------------------------------------------------------
(***************************************************************************)
(* Runs                                                                    *)
(***************************************************************************)
\* A dispatch that finds no origin gives up quietly; one that fails before the
\* Turn starts stands down.
Dispatch ==
  /\ pc = "dispatch"
  /\ \/ pending > 0 /\ pc' = "turn" /\ UNCHANGED <<attempts, owed>>
     \/ pending = 0 /\ pc' = "tick" /\ UNCHANGED <<attempts, owed>>
     \/ pending > 0 /\ pc' = "tick" /\ FailAttempt(Backoff)
  /\ UNCHANGED <<quiet, window, heat, cooling, sinceRun, pause, facts, ground, late, deferred,
                 counts>>

\* end_run: the idle clock restarts.
EndRun == pc' = "tick" /\ sinceRun' = 0

\* on_complete: a Turn that spoke opens the window and leaves the quiet period;
\* what it read leaves the batch, where another Chat may have more.
TurnDone ==
  \E spoke \in BOOLEAN, more \in 0..(pending - 1) :
    /\ pc = "turn" /\ EndRun
    /\ IF spoke THEN window' = WindowSecs /\ heat' = MaxHeat /\ cooling' = 0
               ELSE UNCHANGED <<window, heat, cooling>>
    /\ pending' = more /\ held' = (more > 0) /\ content' = TRUE
    /\ attempts' = MaxRetries /\ owed' = None
    /\ UNCHANGED <<quiet, pause, unread, rung, ground, late, deferred, counts>>

\* The model's own failure is tried again at once; one of the snapshot waits.
TurnFails ==
  \E wait \in {0, Backoff} :
    /\ pc = "turn" /\ EndRun
    /\ FailAttempt(wait)
    /\ UNCHANGED <<quiet, window, heat, cooling, pause, facts, ground, late, deferred, counts>>

\* A panic spends no attempt.
TurnPanics ==
  /\ pc = "turn" /\ panics < MaxPanics /\ EndRun
  /\ panics' = panics + 1
  /\ UNCHANGED <<quiet, window, heat, cooling, attempts, owed, pause, facts, ground, late,
                 deferred, arrivals>>

\* The chapter reopens whether or not the wrap-up succeeded.
WrapUpEnds ==
  /\ pc = "wrapup" /\ EndRun
  /\ content' = FALSE
  /\ UNCHANGED <<quiet, window, heat, cooling, attempts, owed, pause, unread, rung, pending,
                 held, ground, late, deferred, counts>>

\* A change is stored and the Conversation rung; a host action wakes nobody,
\* but may come with a ring for something else.
Arrive ==
  \E audience \in Audiences :
    /\ arrivals < MaxArrivals /\ pc # "gone"
    /\ arrivals' = arrivals + 1 /\ deferred' = FALSE
    /\ unread' = Append(unread, audience)
    /\ rung' \in IF audience = "context" THEN {rung, TRUE} ELSE {TRUE}
    /\ UNCHANGED <<clocks, pending, held, content, pc, ground, late, panics>>

Step == \/ Settle \/ SettleFails \/ Paused \/ Retry \/ Wake \/ WakeFails \/ Decide \/ Dispatch
        \/ TurnDone \/ TurnFails \/ TurnPanics \/ WrapUpEnds
Next == Pass \/ Arrive \/ Step

\* Time passes, and the loop, whose every wait ends by a timer, takes its steps.
Spec == Init /\ [][Next]_vars /\ SF_vars(Pass) /\ WF_vars(Step)

-----------------------------------------------------------------------------
(* A tick that decided nothing waits for something: it is not due again at *)
(* the same instant, over and over, reading the store each time. Two cases *)
(* are left: the very instant of the expiry, and an attention window still *)
(* open past the expiry over a batch whose attempts are spent.             *)
ADeferredTickWaits ==
  deferred /\ pc = "wait" /\ ~rung /\ Deadline = 0 =>
    sinceRun = IdleTimeout \/ (sinceRun > IdleTimeout /\ window > 0 /\ attempts = 0)

(* No batch waits for ever: what holds a reason to wake is read by a Turn, *)
(* or its attempts are spent, or the agent goes and leaves it in the store.*)
PendingIsSettled == pending > 0 ~> (pending = 0 \/ attempts = 0 \/ pc = "gone")

(* topics/chat-agent.md, "Expiry": past the idle baseline plus the timeout *)
(* the answer is Done, and a backlog is never dispatched.                  *)
ExpiryNeverDispatches == ~(ground = "heat" /\ late)
=============================================================================
