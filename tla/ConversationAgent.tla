-------------------------- MODULE ConversationAgent --------------------------
(***************************************************************************)
(* One Conversation and the agent that reads it: the conversation row in   *)
(* PostgreSQL, the producers that append changes and ring, the doorbell,   *)
(* and the run loop of agent/chat/run.rs with its passes (Turn, wrap-up,   *)
(* purge, digest), its inbox and its retry budget.                         *)
(*                                                                         *)
(* The row outlives the agent, the agent's memory does not: a crash, an    *)
(* idle exit or a failed construction drops everything below "memory".     *)
(* Time is abstract: a sleep may end at any moment and the scheduler's     *)
(* decision is free within what its rules allow (see EventScheduler).      *)
(*                                                                         *)
(* A definition named ...Mutant is a variant no action uses: it says what  *)
(* a slip in the definition below it would look like, and which property   *)
(* notices.                                                                *)
(*                                                                         *)
(* A snapshot is abstracted to the session that identifies its chapter and *)
(* the set of changes its message log tells; ContextMeta.turn_count is     *)
(* zero exactly when that set is empty, since a Turn always reads one.     *)
(***************************************************************************)
EXTENDS Naturals, FiniteSets

CONSTANTS
  Chats,      \* the member Chats of the Conversation
  Changes,    \* the changes that may be appended; the number orders ChatEntry::at
  KindOf,     \* what each change is
  ChatOf,     \* the Chat each change names
  Steering,   \* [agent.context] steering
  Faults,     \* the kinds of failure that may happen
  MaxFaults   \* bound: how many failures happen in all

WakeKinds    == {"instruct", "addressed", "overheard"}
PurgeKinds   == {"purge", "sweep"}   \* with and without the agent surface
RequestKinds == PurgeKinds \cup {"policy"}
Kinds        == WakeKinds \cup RequestKinds \cup {"host"}

FaultKinds ==
  {"read",    \* a query or a render fails before anything is written
   "store",   \* a completed Turn cannot be turned into a snapshot
   "write",   \* the snapshot statement fails and nothing is written
   "reply",   \* the snapshot statement is committed but its answer is lost
   "turn",    \* the model run ends in an error
   "panic",   \* the task behind a pass dies without a signal
   "tail",    \* a purge fails after its transaction committed
   "crash"}   \* the process stops or dies

ASSUME ChangesAssumption == Changes \subseteq Nat /\ IsFiniteSet(Changes)
ASSUME KindAssumption == KindOf \in [Changes -> Kinds]
ASSUME ChatAssumption == Chats # {} /\ ChatOf \in [Changes -> Chats]
ASSUME FaultAssumption ==
  Steering \in BOOLEAN /\ Faults \subseteq FaultKinds /\ MaxFaults \in Nat

MAX_TURN_RETRIES == 2

VARIABLES
  \* the conversation row
  pending,    \* the accumulation
  stored,     \* the snapshot
  \* producers and the doorbell
  sent,       \* changes appended so far
  unrung,     \* changes committed whose producer has not rung yet
  refeed,     \* a generation start still owes its re-feed
  bell,       \* the Notify permit
  steered,    \* the origin Chat rang since the running Turn recorded its version
  \* memory of the live agent
  pc,         \* where the run loop stands
  mem,        \* Conversation: the snapshot this agent holds
  restored,   \* restored_last_active is still to be looked at
  batch,      \* Inbox::batch
  fed,        \* Inbox::fed
  policyDue,  \* Inbox::policy_due
  left,       \* RetryBudget::attempts_left
  owed,       \* RetryBudget::owed_at is set
  unsaved,    \* pending_write: empty or one record
  origin,     \* the Chat the running Turn speaks in
  read,       \* the changes the running Turn was handed
  spend,      \* the changes the running wrap-up or purge will spend
  \* history, read by properties only
  minted,     \* the last session id handed out
  tries,      \* Turns started since the budget was last whole
  retired,    \* changes told in a closed chapter or carried out by a pass
  wiped,      \* changes whose telling or whose message a purge deleted
  faults      \* failures so far

row     == <<pending, stored>>
ring    == <<unrung, refeed>>
chime   == <<bell, steered>>
inbox   == <<batch, fed, policyDue>>
budget  == <<left, owed, tries>>
pass    == <<origin, read, spend>>
ghosts  == <<minted, retired, wiped>>
vars    == <<row, sent, ring, chime, pc, mem, restored, inbox, budget,
             unsaved, pass, ghosts, faults>>

Snapshots == [chapter : Nat, told : SUBSET Changes]
Blank     == [chapter |-> 0, told |-> {}]

RowType     == pending \subseteq Changes /\ stored \in Snapshots
SentType    == sent \subseteq Changes /\ unrung \subseteq Changes
FlagType    == /\ refeed \in BOOLEAN /\ bell \in BOOLEAN /\ steered \in BOOLEAN
               /\ restored \in BOOLEAN /\ policyDue \in BOOLEAN /\ owed \in BOOLEAN
LoopType    == /\ pc \in {"absent", "new", "tick", "settled", "sleep", "woken",
                          "decide", "dispatch", "turn", "steered", "resume",
                          "reopen", "wrapup", "purge", "purged",
                          "purgeFailed", "digest", "exiting"}
               /\ faults \in 0..MaxFaults
HeldType    == /\ mem \in Snapshots
               /\ unsaved \subseteq [snap : Snapshots, consumed : SUBSET Changes]
InboxType   == batch \subseteq Changes /\ fed \subseteq Changes
BudgetType  == left \in 0..MAX_TURN_RETRIES /\ tries \in Nat
PassType    == origin \in Chats /\ read \subseteq Changes /\ spend \subseteq Changes
HistoryType == minted \in Nat /\ retired \subseteq Changes /\ wiped \subseteq Changes

TypeOK ==
  /\ RowType /\ SentType /\ FlagType /\ LoopType
  /\ HeldType /\ InboxType /\ BudgetType /\ PassType /\ HistoryType

-----------------------------------------------------------------------------
(***************************************************************************)
(* The inbox                                                               *)
(***************************************************************************)
OfKind(S, kinds) == {c \in S : KindOf[c] \in kinds}

\* WakeReason::of_entry: a request or a host action is no reason to wake.
Waking(S, chat) == {c \in OfKind(S, WakeKinds) : ChatOf[c] = chat}
HasWakeReason(S) == OfKind(S, WakeKinds) # {}

Strength(c) == CASE KindOf[c] = "instruct"  -> 2
                 [] KindOf[c] = "addressed" -> 1
                 [] OTHER                   -> 0

\* The group select_origin compares: everything of the Chat but a purge.
Group(S, chat) == {c \in S : ChatOf[c] = chat /\ KindOf[c] \notin PurgeKinds}
AsStrong(S, a, b) ==
  \A d \in Waking(S, b) : \E c \in Waking(S, a) : Strength(c) >= Strength(d)
Older(S, a, b) == \E c \in Group(S, a) : \A d \in Group(S, b) : c < d

\* select_origin: the strongest reason, then the oldest entry of the group.
IsOrigin(S, chat) ==
  /\ Waking(S, chat) # {}
  /\ \A other \in Chats \ {chat} : Waking(S, other) # {} =>
       /\ AsStrong(S, chat, other)
       /\ AsStrong(S, other, chat) => Older(S, chat, other)

\* What the prompt of a Turn renders: the origin's messages and reasons, and
\* the host actions of the whole Conversation.
RenderedForTurn(S, chat) == Waking(S, chat) \cup OfKind(S, {"host"})

ConsumedForTurnMutant1(S, chat) ==       \* TurnConsumesOnlyWhatItRead
  {c \in S : KindOf[c] \notin RequestKinds}
ConsumedForTurnMutant2(S, chat) ==       \* NoChangeIsReadTwice
  {c \in S : ChatOf[c] = chat /\ KindOf[c] \notin RequestKinds}
\* Inbox::consumed_for_turn.
ConsumedForTurn(S, chat) ==
  {c \in S : /\ ChatOf[c] = chat \/ KindOf[c] = "host"
             /\ KindOf[c] \notin RequestKinds}

PolicyIds(S, due) == IF due THEN OfKind(S, {"policy"}) ELSE {}

HasPurgeMutant(S) == OfKind(S, {"purge"}) # {}   \* RequestsAreCarriedOut
\* pending_purge takes the first; the order of the row is not modelled.
HasPurge(S) == OfKind(S, PurgeKinds) # {}

-----------------------------------------------------------------------------
(***************************************************************************)
(* The retry budget, and failures                                          *)
(***************************************************************************)
ReopenBudget == left' = MAX_TURN_RETRIES /\ owed' = FALSE /\ tries' = 0

FailAttemptMutant1 ==                    \* TypeOK
  /\ left' = left - 1
  /\ owed' = (owed \/ left > 0)
  /\ UNCHANGED tries
FailAttemptMutant2 ==                    \* AttemptsAreBounded
  owed' = TRUE /\ UNCHANGED <<left, tries>>
\* RetryBudget::fail_now; the backoff variant differs in its instant only.
FailAttempt ==
  /\ left' = IF left > 0 THEN left - 1 ELSE 0
  /\ owed' = (owed \/ left > 0)
  /\ UNCHANGED tries

StandDown == FailAttempt

Fault(kind) == kind \in Faults /\ faults < MaxFaults /\ faults' = faults + 1
NoFault == UNCHANGED faults

-----------------------------------------------------------------------------
(***************************************************************************)
(* Producers.  A change is committed first and rung afterwards, by the     *)
(* task that committed it.  A host action is appended and never rung.      *)
(***************************************************************************)
Append(c) ==
  /\ c \notin sent
  /\ sent' = sent \cup {c}
  /\ pending' = pending \cup {c}
  /\ unrung' = IF KindOf[c] = "host" THEN unrung ELSE unrung \cup {c}
  /\ UNCHANGED <<stored, refeed, chime, pc, mem, restored, inbox, budget,
                 unsaved, pass, ghosts, faults>>

WakeAgentMutant ==                       \* NoLostWake: notify_waiters keeps no permit
  /\ bell' = (bell \/ pc \in {"absent", "sleep"})
  /\ pc' = IF pc = "absent" THEN "new" ELSE pc
\* get_or_create: an agent that has not finished is handed out, else one is
\* spawned; its doorbell exists before it is constructed.
WakeAgent ==
  /\ bell' = TRUE
  /\ pc' = IF pc = "absent" THEN "new" ELSE pc

Ring(c) ==
  /\ c \in unrung
  /\ unrung' = unrung \ {c}
  /\ WakeAgent
  /\ steered' = (steered \/ (pc = "turn" /\ ChatOf[c] = origin))
  /\ UNCHANGED <<row, sent, refeed, mem, restored, inbox, budget, unsaved,
                 pass, ghosts, faults>>

\* startup_refeed: one ring per Conversation that still has pending changes.
StartupRefeed ==
  /\ refeed
  /\ refeed' = FALSE
  /\ IF pending # {} THEN WakeAgent ELSE UNCHANGED <<bell, pc>>
  /\ UNCHANGED <<row, sent, unrung, steered, mem, restored, inbox, budget,
                 unsaved, pass, ghosts, faults>>

-----------------------------------------------------------------------------
WrittenMutant1(snap, consumed) ==        \* EveryChangeIsAccounted
  /\ stored' = snap
  /\ pending' = batch \ consumed
  /\ retired' = retired \cup OfKind(consumed, RequestKinds)
                  \cup (IF snap.chapter # stored.chapter THEN stored.told ELSE {})
WrittenMutant2(snap, consumed) ==        \* KeepsThePromise
  /\ stored' = snap
  /\ UNCHANGED <<pending, retired>>

(***************************************************************************)
(* The row is written in one statement: the snapshot together with what it *)
(* consumed, relative to what the accumulation holds when the write lands. *)
(* The history variable records what leaves the chapter for good.          *)
(***************************************************************************)
Written(snap, consumed) ==
  /\ stored' = snap
  /\ pending' = pending \ consumed
  /\ retired' = retired \cup OfKind(consumed, RequestKinds)
                  \cup (IF snap.chapter # stored.chapter THEN stored.told ELSE {})

Persisted(snap, consumed) == NoFault /\ Written(snap, consumed)

\* An error tells the agent nothing about what the database did.
PersistFailed(snap, consumed) ==
  \/ Fault("write") /\ UNCHANGED <<row, retired>>
  \/ Fault("reply") /\ Written(snap, consumed)

\* apply_snapshot.
Apply(snap) == mem' = snap /\ restored' = FALSE

Unapplied == UNCHANGED <<mem, restored, inbox>>

AnyChat == CHOOSE chat \in Chats : TRUE
PassOver == origin' = AnyChat /\ read' = {} /\ spend' = {} /\ steered' = FALSE

-----------------------------------------------------------------------------
(***************************************************************************)
(* The agent comes and goes                                                *)
(***************************************************************************)
NoMemory ==
  /\ pc' = "absent" /\ bell' = FALSE
  /\ Apply(Blank)
  /\ batch' = {} /\ fed' = {} /\ policyDue' = FALSE
  /\ ReopenBudget
  /\ unsaved' = {}
  /\ PassOver

Init ==
  /\ pending = {} /\ stored = Blank
  /\ sent = {} /\ unrung = {} /\ refeed = FALSE
  /\ bell = FALSE /\ steered = FALSE
  /\ pc = "absent" /\ mem = Blank /\ restored = FALSE
  /\ batch = {} /\ fed = {} /\ policyDue = FALSE
  /\ left = MAX_TURN_RETRIES /\ owed = FALSE /\ tries = 0
  /\ unsaved = {}
  /\ origin = AnyChat /\ read = {} /\ spend = {}
  /\ minted = 0 /\ retired = {} /\ wiped = {}
  /\ faults = 0

\* ConversationAgent::new.  A failed construction ends the task, and the ring
\* that spawned it is gone.
Build ==
  /\ pc = "new"
  /\ \/ /\ NoFault
        /\ pc' = "tick"
        /\ mem' = stored /\ restored' = TRUE
        /\ batch' = pending /\ fed' = {}
        /\ policyDue' = (OfKind(pending, {"policy"}) # {})
        /\ UNCHANGED <<bell, steered, budget, unsaved, pass>>
     \/ Fault("read") /\ NoMemory
  /\ UNCHANGED <<row, sent, ring, ghosts>>

\* The loop breaks; until the task is finished the registry hands its handle
\* out, and a permit rung by then is dropped with the doorbell.
Exit ==
  /\ pc = "exiting"
  /\ NoMemory
  /\ UNCHANGED <<row, sent, ring, ghosts, faults>>

\* The process stops or dies.  The tasks that still had to ring die with it,
\* and the next generation re-feeds once.
Crash ==
  /\ Fault("crash")
  /\ NoMemory
  /\ unrung' = {} /\ refeed' = TRUE
  /\ UNCHANGED <<row, sent, ghosts>>

-----------------------------------------------------------------------------
(***************************************************************************)
(* idle_tick                                                               *)
(***************************************************************************)
\* A completed Turn that was not persisted is retried before anything else.
WriteBack ==
  /\ pc = "tick"
  /\ \E w \in unsaved :
       \/ /\ Persisted(w.snap, w.consumed)
          /\ Apply(w.snap)
          /\ batch' = batch \ w.consumed
          /\ unsaved' = {}
          /\ ReopenBudget
          /\ UNCHANGED <<fed, policyDue>>
       \/ /\ PersistFailed(w.snap, w.consumed)
          /\ StandDown
          /\ Unapplied /\ UNCHANGED unsaved
  /\ UNCHANGED <<sent, ring, chime, pc, pass, minted, wiped>>

\* refresh_batch: re-reads the row; a change not seen before reopens the budget.
RefreshBatch(next) ==
  \/ /\ NoFault
     /\ batch' = pending /\ fed' = pending
     /\ policyDue' = (policyDue \/ OfKind(pending, {"policy"}) # {})
     /\ IF pending \ fed # {} THEN ReopenBudget ELSE UNCHANGED budget
     /\ pc' = next
  \/ /\ Fault("read")
     /\ StandDown
     /\ pc' = "tick"
     /\ UNCHANGED inbox

SettleMutant ==                          \* NoPassOvertakesAWrite
  /\ pc = "tick"
  /\ RefreshBatch("settled")
  /\ UNCHANGED <<row, sent, ring, chime, mem, restored, unsaved, pass, ghosts>>

\* With an empty batch the refresh happens only inside the attention window.
Settle ==
  /\ pc = "tick" /\ unsaved = {}
  /\ \/ RefreshBatch("settled")
     \/ /\ batch = {}
        /\ pc' = "settled"
        /\ UNCHANGED <<inbox, budget, faults>>
  /\ UNCHANGED <<row, sent, ring, chime, mem, restored, unsaved, pass, ghosts>>

RefreshAwake ==
  /\ pc = "woken"
  /\ RefreshBatch("decide")
  /\ UNCHANGED <<row, sent, ring, chime, mem, restored, unsaved, pass, ghosts>>

\* The order both halves of the tick share: a purge goes before everything,
\* then the wrap-up a policy change or the context's size asks for.
StartPurge ==
  /\ pc \in {"settled", "decide"}
  /\ \E c \in OfKind(batch, PurgeKinds) : spend' = {c}
  /\ pc' = "purge"
  /\ UNCHANGED <<row, sent, ring, chime, mem, restored, inbox, budget, unsaved,
                 origin, read, ghosts, faults>>

Reopen ==
  /\ pc \in {"settled", "decide"}
  /\ ~HasPurge(batch)
  /\ policyDue \/ mem.told # {}
  /\ pc' = "reopen"
  /\ UNCHANGED <<row, sent, ring, chime, mem, restored, inbox, budget, unsaved,
                 pass, ghosts, faults>>

Retry ==
  /\ pc = "settled"
  /\ ~HasPurge(batch) /\ ~policyDue /\ owed
  /\ owed' = FALSE
  /\ pc' = "dispatch"
  /\ UNCHANGED <<row, sent, ring, chime, mem, restored, inbox, left, tries,
                 unsaved, pass, ghosts, faults>>

\* Nothing is due.  A chapter restored from long ago is wrapped up, once.
Rest ==
  /\ pc = "settled"
  /\ ~HasPurge(batch) /\ ~policyDue /\ ~owed
  /\ restored' = FALSE
  /\ \/ pc' = "sleep"
     \/ restored /\ mem.told # {} /\ pc' = "reopen"
  /\ UNCHANGED <<row, sent, ring, chime, mem, inbox, budget, unsaved, pass,
                 ghosts, faults>>

\* The permit of the doorbell is taken, however many rings it stands for.
Hear ==
  /\ pc = "sleep" /\ bell
  /\ bell' = FALSE
  /\ pc' = "woken"
  /\ UNCHANGED <<row, sent, ring, steered, mem, restored, inbox, budget,
                 unsaved, pass, ghosts, faults>>

\* A debounce, an open window or the chapter's idle expiry comes due.
Deadline ==
  /\ pc = "sleep"
  /\ pc' = "woken"
  /\ UNCHANGED <<row, sent, ring, chime, mem, restored, inbox, budget, unsaved,
                 pass, ghosts, faults>>

\* A status query ends the tick.
AnswerStatus ==
  /\ pc = "sleep"
  /\ pc' = "tick"
  /\ UNCHANGED <<row, sent, ring, chime, mem, restored, inbox, budget, unsaved,
                 pass, ghosts, faults>>

\* EventScheduler::decide, reduced to what it may answer for this batch.
Decide ==
  /\ pc = "decide"
  /\ ~HasPurge(batch) /\ ~policyDue
  /\ \/ left > 0 /\ HasWakeReason(batch) /\ pc' = "dispatch"   \* Ready
     \/ pc' = "tick"                                           \* Defer
     \/ pc' = IF mem.told # {} THEN "reopen" ELSE "exiting"    \* Done
  /\ UNCHANGED <<row, sent, ring, chime, mem, restored, inbox, budget, unsaved,
                 pass, ghosts, faults>>

-----------------------------------------------------------------------------
(***************************************************************************)
(* The Turn                                                                *)
(***************************************************************************)
\* A batch without an origin starts nothing; a failed lookup leaves the batch.
Dispatch ==
  /\ pc = "dispatch"
  /\ \/ /\ ~HasWakeReason(batch)
        /\ pc' = "tick"
        /\ UNCHANGED <<budget, pass, steered, faults>>
     \/ /\ HasWakeReason(batch) /\ Fault("read")
        /\ StandDown
        /\ pc' = "tick"
        /\ UNCHANGED <<pass, steered>>
     \/ /\ NoFault
        /\ \E chat \in Chats :
             /\ IsOrigin(batch, chat)
             /\ origin' = chat
             /\ read' = RenderedForTurn(batch, chat)
        /\ steered' = FALSE
        /\ tries' = tries + 1
        /\ pc' = "turn"
        /\ UNCHANGED <<spend, left, owed>>
  /\ UNCHANGED <<row, sent, ring, bell, mem, restored, inbox, unsaved, ghosts>>

\* next_snapshot: what this agent holds, and what the Turn told.
Answered == [mem EXCEPT !.told = @ \cup read]

\* on_complete, for a Turn that ended by itself and for one cut short because
\* its own Chat rang.
CompleteTurn(next) ==
  LET consumed == ConsumedForTurn(batch, origin) IN
  /\ pc = "turn"
  /\ next = "steered" => Steering /\ steered
  /\ pc' = next
  /\ PassOver
  /\ \/ /\ Persisted(Answered, consumed)
        /\ Apply(Answered)
        /\ batch' = batch \ consumed
        /\ ReopenBudget
        /\ UNCHANGED <<fed, policyDue, unsaved>>
     \/ /\ PersistFailed(Answered, consumed)
        /\ unsaved' = {[snap |-> Answered, consumed |-> consumed]}
        /\ StandDown
        /\ Unapplied
     \/ /\ Fault("store")
        /\ StandDown
        /\ Unapplied /\ UNCHANGED <<row, retired, unsaved>>
  /\ UNCHANGED <<sent, ring, bell, minted, wiped>>

TurnFailed ==
  /\ pc = "turn" /\ Fault("turn")
  /\ FailAttempt
  /\ pc' = "tick"
  /\ PassOver
  /\ UNCHANGED <<row, sent, ring, bell, mem, restored, inbox, unsaved, ghosts>>

\* The arrival that steered the Turn is read right away.
RefreshSteered ==
  /\ pc = "steered"
  /\ RefreshBatch("resume")
  /\ UNCHANGED <<row, sent, ring, chime, mem, restored, unsaved, pass, ghosts>>

ResumeSteeredMutant ==                   \* RequestsGoFirst
  /\ pc = "resume"
  /\ pc' = IF left > 0 /\ HasWakeReason(batch) THEN "dispatch" ELSE "tick"
  /\ UNCHANGED <<row, sent, ring, chime, mem, restored, inbox, budget, unsaved,
                 pass, ghosts, faults>>

ResumeSteered ==
  /\ pc = "resume"
  /\ pc' = IF ~HasPurge(batch) /\ ~policyDue /\ left > 0 /\ HasWakeReason(batch)
             THEN "dispatch" ELSE "tick"
  /\ UNCHANGED <<row, sent, ring, chime, mem, restored, inbox, budget, unsaved,
                 pass, ghosts, faults>>

-----------------------------------------------------------------------------
(***************************************************************************)
(* The wrap-up.  A pass that failed closes the chapter all the same, only  *)
(* without a summary.                                                      *)
(***************************************************************************)
StartWrapUp ==
  /\ pc = "reopen"
  /\ \/ Fault("read") /\ pc' = "tick" /\ UNCHANGED spend
     \/ NoFault /\ pc' = "wrapup" /\ spend' = PolicyIds(batch, policyDue)
  /\ UNCHANGED <<row, sent, ring, chime, mem, restored, inbox, budget, unsaved,
                 origin, read, ghosts>>

NextChapterMutant ==                     \* PolicyClosesTheChapter
  [chapter |-> mem.chapter, told |-> {}]

\* next_chapter_snapshot and start_new_chapter: every call mints a session.
NextChapter == [chapter |-> minted + 1, told |-> {}]

CompleteWrapUp ==
  /\ pc = "wrapup"
  /\ pc' = "tick"
  /\ minted' = minted + 1
  /\ PassOver
  /\ \/ /\ Persisted(NextChapter, spend)
        /\ Apply(NextChapter)
        /\ batch' = batch \ spend /\ policyDue' = FALSE
        /\ UNCHANGED <<fed, budget>>
     \/ /\ PersistFailed(NextChapter, spend)
        /\ StandDown
        /\ Unapplied
  /\ UNCHANGED <<sent, ring, bell, unsaved, wiped>>

-----------------------------------------------------------------------------
(***************************************************************************)
(* The purge                                                               *)
(***************************************************************************)
\* The wipe's transaction.  With the agent surface the chapter starts fresh,
\* and the pending changes whose messages or tasks were deleted go along.
CommitPurge ==
  /\ pc = "purge"
  /\ pc' = "purged"
  /\ LET whole == OfKind(spend, {"purge"}) # {} IN
     \E gone \in SUBSET (IF whole THEN OfKind(pending, WakeKinds) ELSE {}) :
       /\ spend' = spend \cup gone
       /\ IF whole
            THEN /\ Persisted(NextChapter, spend')
                 /\ minted' = minted + 1
                 /\ wiped' = wiped \cup stored.told \cup gone
            ELSE Persisted(stored, spend') /\ UNCHANGED <<minted, wiped>>
  /\ UNCHANGED <<sent, ring, chime, mem, restored, inbox, budget, unsaved,
                 origin, read>>

\* A channel, the database or the workspace refuses before the commit.
AbortPurge ==
  /\ pc = "purge" /\ Fault("read")
  /\ pc' = "purgeFailed"
  /\ UNCHANGED <<row, sent, ring, chime, mem, restored, inbox, budget, unsaved,
                 pass, ghosts>>

\* The images, the events, the perceptions or the files refuse after it.
PurgeTailFails ==
  /\ pc = "purged" /\ Fault("tail")
  /\ pc' = "purgeFailed"
  /\ UNCHANGED <<row, sent, ring, chime, mem, restored, inbox, budget, unsaved,
                 pass, ghosts>>

AfterPurgeMutant(whole) ==               \* PurgedStaysGone
  UNCHANGED <<mem, minted>>

AfterPurge(whole) ==
  IF whole THEN mem' = NextChapter /\ minted' = minted + 1
           ELSE UNCHANGED <<mem, minted>>

\* on_purge_done, Ok: start_new_chapter mints a session of its own.
PurgeDone ==
  /\ pc = "purged"
  /\ pc' = "tick"
  /\ batch' = batch \ spend
  /\ AfterPurge(OfKind(spend, {"purge"}) # {})
  /\ PassOver
  /\ UNCHANGED <<row, sent, ring, bell, restored, fed, policyDue, budget,
                 unsaved, retired, wiped, faults>>

\* on_purge_done, Err: what this agent holds is written back, and only the
\* purge's own change is spent.
PurgeFailed ==
  LET entry == OfKind(spend, PurgeKinds) IN
  /\ pc = "purgeFailed"
  /\ pc' = "tick"
  /\ PassOver
  /\ \/ /\ Persisted(mem, entry)
        /\ batch' = batch \ entry
        /\ UNCHANGED <<budget, fed, policyDue>>
     \/ PersistFailed(mem, entry) /\ StandDown /\ UNCHANGED inbox
  /\ UNCHANGED <<sent, ring, bell, mem, restored, unsaved, minted, wiped>>

-----------------------------------------------------------------------------
(***************************************************************************)
(* The digest, and a pass whose task dies                                  *)
(***************************************************************************)
StartDigest ==
  /\ pc = "sleep"
  /\ \/ NoFault /\ pc' = "digest"
     \/ Fault("read") /\ pc' = "tick"
  /\ UNCHANGED <<row, sent, ring, chime, mem, restored, inbox, budget, unsaved,
                 pass, ghosts>>

FinishDigest ==
  /\ pc = "digest"
  /\ pc' = "tick"
  /\ UNCHANGED <<row, sent, ring, chime, mem, restored, inbox, budget, unsaved,
                 pass, ghosts, faults>>

\* The sender is dropped without a signal: the loop goes back to Idle and
\* nothing else changes.
Panic ==
  /\ pc \in {"turn", "wrapup", "purge", "purged", "digest"} /\ Fault("panic")
  /\ pc' = "tick"
  /\ PassOver
  /\ UNCHANGED <<row, sent, ring, bell, mem, restored, inbox, budget, unsaved,
                 ghosts>>

-----------------------------------------------------------------------------
IdleStep ==
  \/ Build \/ WriteBack \/ Settle \/ RefreshAwake \/ StartPurge \/ Reopen
  \/ Retry \/ Rest \/ Decide \/ Exit

TurnStep ==
  \/ Dispatch \/ CompleteTurn("tick") \/ CompleteTurn("steered") \/ TurnFailed
  \/ RefreshSteered \/ ResumeSteered

PassStep ==
  \/ StartWrapUp \/ CompleteWrapUp
  \/ CommitPurge \/ AbortPurge \/ PurgeTailFails \/ PurgeDone \/ PurgeFailed
  \/ FinishDigest \/ Panic

Next ==
  \/ \E c \in Changes : Append(c) \/ Ring(c)
  \/ StartupRefeed \/ Crash
  \/ Hear \/ Deadline \/ AnswerStatus \/ StartDigest
  \/ IdleStep \/ TurnStep \/ PassStep

Spec == Init /\ [][Next]_vars

\* The runtime schedules every task and every sleep ends.  A select picks among
\* its ready branches at random, so a permit that waits is taken sooner or
\* later however many queries and digests come in between.
Fairness ==
  /\ \A c \in Changes : WF_vars(Ring(c))
  /\ WF_vars(StartupRefeed)
  /\ WF_vars(Deadline) /\ SF_vars(Hear)
  /\ WF_vars(IdleStep \/ TurnStep \/ PassStep)

FairSpec == Spec /\ Fairness

-----------------------------------------------------------------------------
(***************************************************************************)
(* What the agent may never do                                             *)
(***************************************************************************)
(***************************************************************************)
(* A request goes before the conversation (idle_tick, finish): no Turn and *)
(* no wrap-up runs over a batch that holds a purge, and no Turn runs while *)
(* a stricter content policy still waits for its wrap-up.  Steering        *)
(* bypasses idle_tick and has to repeat the check.                         *)
(***************************************************************************)
RequestsGoFirst ==
  /\ pc \in {"dispatch", "turn", "reopen", "wrapup"} => ~HasPurge(batch)
  /\ pc \in {"dispatch", "turn"} => ~policyDue

(***************************************************************************)
(* A Turn consumes what it was handed and nothing else (consumed_for_turn  *)
(* against reasons, message_ids and host_actions): a change of another     *)
(* Chat, or one appended while it ran, is still pending when it ends.      *)
(***************************************************************************)
TurnConsumesOnlyWhatItRead == [][pc = "turn" => pending \ pending' \subseteq read]_vars

(***************************************************************************)
(* A stricter content policy is never dropped: its entry leaves the row    *)
(* only together with the chapter it was queued to close (policy_ids,      *)
(* consumed_entries, on_wrap_up_done).                                     *)
(***************************************************************************)
PolicyClosesTheChapter ==
  [][OfKind(pending \ pending', {"policy"}) # {} =>
       stored'.chapter # stored.chapter]_vars

(***************************************************************************)
(* A completed Turn that waits to be written is never overtaken by a pass  *)
(* that would close, purge or read the chapter it belongs to (idle_tick    *)
(* writes it before it looks at anything else).                            *)
(***************************************************************************)
NoPassOvertakesAWrite ==
  pc \in {"reopen", "wrapup", "purge", "purged", "purgeFailed", "digest"} =>
    unsaved = {}

(***************************************************************************)
(* "Three attempts in total, the first one included" (pacing.rs): between  *)
(* two events that make the budget whole, at most three Turns start.       *)
(***************************************************************************)
AttemptsAreBounded == tries <= MAX_TURN_RETRIES + 1

(***************************************************************************)
(* Whatever was committed to the accumulation is still there, or told by   *)
(* the stored chapter, or left with a chapter that closed, a request that  *)
(* was carried out or a message that a purge deleted: "a context and the   *)
(* changes it read can never disagree" (chat-agent.md, The batch).         *)
(***************************************************************************)
EveryChangeIsAccounted == sent = pending \cup stored.told \cup retired \cup wiped

(***************************************************************************)
(* No Turn is handed a change that the stored chapter already tells: a     *)
(* lost answer, a retry of the write or a restart repeats no message.      *)
(***************************************************************************)
NoChangeIsReadTwice == pc = "turn" => read \cap stored.told = {}

(***************************************************************************)
(* What a purge deleted never comes back into the stored chapter           *)
(* (on_purge_done, wipe).                                                  *)
(***************************************************************************)
PurgedStaysGone == stored.told \cap wiped = {}

(***************************************************************************)
(* A sleeping agent owes nothing to a producer: a change that was rung for *)
(* and that the agent has not been fed leaves the permit standing.         *)
(***************************************************************************)
NoLostWake ==
  pc = "sleep" =>
    \A c \in pending \ (fed \cup unrung) : KindOf[c] = "host" \/ bell

(***************************************************************************)
(* A purge or a stricter policy the agent has read is carried out, also    *)
(* across restarts, failed writes and panicked passes.                     *)
(***************************************************************************)
RequestsAreCarriedOut ==
  \A c \in OfKind(Changes, RequestKinds) : c \in batch ~> c \notin pending

(***************************************************************************)
(* A confirmed purge is carried out: "the purge backoff is the only delay  *)
(* it ever takes" (chat-agent.md, Purge).                                  *)
(***************************************************************************)
EveryPurgeIsCarriedOut ==
  \A c \in OfKind(Changes, PurgeKinds) : c \in sent ~> c \notin pending

(***************************************************************************)
(* The row keeps the contract of Accumulation.                             *)
(***************************************************************************)
Promise == INSTANCE Accumulation
             WITH Requests <- OfKind(Changes, RequestKinds),
                  AnswersMayBeLost <- "reply" \in Faults,
                  told <- stored.told, retired <- retired \cup wiped
KeepsThePromise == Promise!Spec
=============================================================================
