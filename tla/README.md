# A verification of hai's core

hai is a chat agent: platforms deliver messages, the messages accumulate per
Conversation, an agent per Conversation reads what accumulated and answers in
Turns.  This directory models the part of the program that decides what happens
to an accumulated change, and says what holds of it.

## The parts of the system

| part | state it keeps | operations | what is hard about it |
|---|---|---|---|
| Conversation row (`domain/repo/conversation_record.rs`) | messages, chapter scalars, `pending` | append, save snapshot and consume, move a Chat | one statement against concurrent appends; a lost answer |
| Conversation agent (`agent/chat`) | snapshot in memory, batch, retry budget, unwritten snapshot, running pass | the idle tick, Turn, wrap-up, purge, digest, their completions | the order of requests, writes and Turns; failures at every await; steering |
| Doorbell (`agent/events/doorbell.rs`) | a permit, one version per Chat | ring, wait, steer | coalesced rings, rings before the agent sleeps |
| Membership (`agent/chat/chats.rs`, `attach_chat`/`detach_chat`) | `chat.conversation_id`, the roster and surfaces of each agent | attach, detach, mount, sync | a transaction over two rows against lookups made before it and copies kept after it |
| Attention (`agent/chat/scheduler.rs`, `attention.rs`, `pacing.rs`) | quiet period, window, heat, attempts, backoffs | feed a change, decide, spend, fail | clocks against refreshes that fail; a loop that must neither spin nor sleep for ever |
| Registry (`agent/process/registry.rs`) | live agents, generations | get or create, remove, drain | two locked sections; an agent that leaves while somebody rings |
| Startup re-feed, task watcher (`agent/process`) | none, due tasks | ring what is pending; fire and ring | a crash between the two steps; a watcher per generation |
| Run engine (`agent/run`) | the step loop of one Turn | call the model, run tools, retry, stop | retries, notices kept by their place, steering, the budget |
| Sending (`agent/tools/send`, `platform/outbound.rs`) | the Chat's message rows | resolve a reference, send in plainer and plainer forms, record | answers lost after the platform took the message |
| Inbound path (`agent/inbound`, `domain/repo/ingest.rs`) | unauthorized-reply cooldowns | store a change, run a command, resolve a press | redelivery, edits out of order |
| Commands and pages (`agent/command`) | pending button pages | open, press, expire | a page pressed twice, late, by somebody else, or by the next process |
| Event bus (`agent/events/bus.rs`) | a queue to one writer | emit, flush | the flush a purge waits for |
| Platforms (`platform`) | a supervisor per channel, its generation's tasks | connect, dispatch, restart, stop | which task's end ends a generation, and what is dropped with it |
| Repositories and services (`domain`) | PostgreSQL | queries, small transactions | chunking and fusion are pure algorithms |
| Tools, web, prompt, roles, environment, multimodal, model catalog, `agentcore`, configuration, CLI | little | conversions and I/O | see PROJECT.json for each |

Producers commit a change to the row first and ring afterwards; the ring spawns
the agent if there is none.  The agent re-reads the row when it is rung or when
a deadline comes due, and consumes in the statement that stores the context
which tells the change.  Everything but the row is lost when the process stops.

## Modules

| module | what it is | composes with |
|---|---|---|
| `ConversationAgent` | the row of one Conversation, its producers, the doorbell and the run loop with every pass | implements `Accumulation` |
| `Accumulation` | the contract of the row | |
| `Membership` | several Conversations and the Chats that move between them | |
| `Pacing` | the attention clocks behind the agent's decisions | |
| `Outbound` | one message on its way out | |
| `Run` | one run of the model, Step by Step | extends `Outbound` |
| `Registry` | the live agents of the process | |
| `Channel` | one channel's generations, its watcher and the re-feed | |
| `Pages` | the dialog engine: tokens, table, what the chat shows | |
| `Inbound` | one chat's updates, its commands and its dialogs | extends `Pages` |

`MC...` modules hold the definitions an instance needs, `...Proofs` modules the
theorems: one module for each of the modules above, but that `RunProofs` speaks
of `Outbound` too and `InboundProofs` of `Pages`, and that `ConversationAgent`
has two, `ConversationAgentProofs` for what its passes may do and
`DurabilityProofs` for what becomes of a change and for `Accumulation`.  A definition whose name ends in `Mutant` is used by no action.  It is
what a slip in the definition below it would look like; the property it names
fails when it is put in that definition's place, which shows that the property
can fail.

### ConversationAgent: state

| variables | code |
|---|---|
| `pending`, `stored` | `conversation.pending` and `messages`/`context_meta` |
| `sent`, `unrung`, `refeed` | producers between their commit and their ring; a generation that still has to re-feed |
| `bell`, `steered` | the `Notify` permit; whether the origin Chat rang since `steering_since` |
| `pc` | where `run`/`idle_tick`/`finish` stands, with `PassSlot` |
| `mem`, `restored` | `Conversation`, `restored_last_active` |
| `batch`, `fed`, `policyDue` | `Inbox` |
| `left`, `owed` | `RetryBudget` |
| `unsaved` | `pending_write` |
| `origin`, `read`, `spend` | what the running pass was started with |
| `minted`, `tries`, `retired`, `wiped`, `faults` | history for the properties, no program state |

A snapshot is the session of its chapter and the set of changes its log tells.
What a change is (`KindOf`) and which Chat it names (`ChatOf`) are constants;
the number of a change orders `ChatEntry::at`.  Instants are left out: a sleep
may end at any moment, and `Decide` answers anything that `EventScheduler` may
answer for the batch at hand.  So every interleaving of the clocks is covered
here; what depends on how long they run is shown in `Pacing`.

### ConversationAgent: actions

`Append`, `Ring` and `StartupRefeed` are the producers; `Build`, `Exit` and
`Crash` the life of the agent.  One tick is `WriteBack` (the unwritten
snapshot), `Settle`, then one of `StartPurge`, `Reopen`, `Retry` and `Rest`,
then the sleep that `Hear`, `Deadline`, `AnswerStatus` or `StartDigest` end,
`RefreshAwake`, and one of `StartPurge`, `Reopen` and `Decide`.  `Dispatch` and
`CompleteTurn` are a Turn, with `CompleteTurn("steered")`, `RefreshSteered` and
`ResumeSteered` for one that its own Chat cut short.  `StartWrapUp` and
`CompleteWrapUp` close a chapter, `CommitPurge` to `PurgeFailed` are a purge,
with the commit of its transaction as a step of its own because the code after
it can fail.  `Panic` is a pass whose task dies without a signal.

`Faults` names the failures an instance may meet and `MaxFaults` how many in
all:

- `read`: a query or a render fails before anything is written;
- `store`: a finished Turn cannot be turned into a snapshot;
- `write`: the snapshot statement fails; `reply`: it is committed and its answer
  is lost, which the agent cannot tell apart;
- `turn`: the model run ends in an error; `panic`: the pass dies silently;
- `tail`: a purge fails after its commit; `crash`: the process stops.

Not modelled here: membership changes while an agent lives (see Membership), the first render of
a chapter (which adds recent messages to the prompt that no change names), the
contents of a purge's range (a purge of the agent surface deletes everything the
chapter tells and any part of what is pending), and how long anything takes.

### Accumulation

`Append`, `Answer` (told by the stored chapter), `Spend` (a request carried
out) and `Close` (the chapter ends).  A change leaves the accumulation only in
one of the last three, together with what it is told by.  `ConversationAgent`
implements it under the mapping `told <- stored.told`,
`retired <- retired \cup wiped`.  A write whose answer is lost is made again,
and by then a purge may have closed the chapter that the first one stored;
`AnswersMayBeLost` lets `Answer` resume such a chapter (`Resumed`), and is true
only of an instance in which answers are lost.

### Membership

| variables | code |
|---|---|
| `open`, `home` | the conversation rows, `chat.conversation_id` |
| `row`, `messages` | `conversation.pending` of each row, the message rows |
| `resolved`, `sent`, `unrung` | producers: the Conversation they looked up, what they committed, what they have not rung |
| `at`, `move`, `held`, `copy` | the transaction of each operator: its statement, its Chat and rows, its locks, what it read |
| `pc`, `batch`, `pass` | an agent, reduced to what touches membership |
| `chats`, `roster` | `ChatSet::chats`, `ChatSet::membership` |
| `view` | what the running wipe has read |
| `told`, `spent`, `late`, `moves`, `faults` | history and bounds |

A move is `BeginMove` (the chat row is locked and looked up; a detach has
inserted its target), `LockRow` twice, `ReadRows`, `CommitMove`; `AbortMove` is
any failure, the process dying included.  An attach to where the Chat is, or to
a row that does not exist, changes nothing and is left out.  `Resolve` and
`Append` are the two halves of a producer.  An agent is mounted (`Mount`), reads
its row (`Restore`), and refreshes in two steps, `Sync` and `Refresh`, with a
database statement in each.  `StartTurn` and `EndTurn` are a Turn; `StartPurge`,
`WipeReads`, `WipeCommits` and `PurgeFails` a purge of everything.  What the
agent does besides (the budget, steering, the delayed write, wrap-ups, what goes
first after the purge) is `ConversationAgent`; here a Turn that fails just ends.

READ COMMITTED is modelled by what it lets a transaction see: reads take what is
committed, an UPDATE waits for the lock of its row, a transaction commits in
one step.  The wipe's two reads are one step, its deletions and its UPDATE
another: what matters is that something may commit between the two.  A
`"setting"` is a host action: consumed by whichever Turn comes next, rung by
nobody.  A policy change stays behind in a move in the same way, and is not
drawn separately.

### Pacing

An instant of the code is kept as the time left until it (`quiet` for
`debounce_until`, `window`, `owed`, `pause`) or as the time since it
(`sinceRun`, `cooling`), so a `Pass` of one unit runs every clock down and the
state stays finite.  Time may pass before an agent that is due acts.  `heat` is
a whole number, `attempts` the retry budget, `unread` what is stored and not fed
yet, `pending` the reasons to wake in the batch, `content` whether the chapter
holds anything a wrap-up would read.

`Settle`/`SettleFails` are the head of a tick, `Paused`, `Retry` and
`Wake`/`WakeFails` the ends of its three waits, `Decide` is
`EventScheduler::decide` with `Deadline` for `next_deadline`, `Dispatch`,
`TurnDone`, `TurnFails`, `TurnPanics` and `WrapUpEnds` what comes of it, and
`Arrive` a stored change of one of the three audiences.  Purges, policies and
the token threshold intercept a tick earlier and are ConversationAgent's.
`Refresh` feeds what is unread to `OnEvent` in its order (`Fed`); `Wakes` are
those of it that give a reason to wake.

### Outbound and Run

`Outbound` follows one send: `BeginSend`, `ResolveSend` (whether a reply needs
its link), the wire calls in ever plainer forms (`WireTakes`, `WireRefuses`,
`WireAnswerLost`), and the row (`RecordSend`, `RecordFails`), while
`PersonWrites` goes on.  `left` is what the platform really took, `rows` what
the store knows of it.

`Run` is the Step loop over `messages`, each the kind of thing it is and the
Step it belongs to.  `AskModel`, `ModelAnswers`, `ModelRetries` and `ModelFails`
are a request; `RefuseCall`, `RunCall` and `BeginSpeaking` to `EndSpeaking` the
calls, run one after the other; `EndStep` the role's `Decision`, the notices and
the three ways out; `Arrive` is what steering looks at and `Shutdown` drops the
run at an await.  A tool is what its metadata says of it.  `transient` holds
places in `messages`, as in the code, and `IntoMessages` takes them out.

### Registry

An agent is named by its generation; `entry` is the map, `task` what each
spawned task is doing, `caller` where each caller of `get_or_create` stands.
`Ask` and `Create` are the read-locked and the write-locked section, with
anything in between; `Notify` rings with a handle that may be old; `Build`,
`Leave`, `PanicRun` and `Remove` are the task, `Drain`, `Join` and `Abandon` the
end of the process.  Dropping an entry aborts a task that still lives (`"cut"`),
and an aborted task ends at its next await (`Die`).

### Channel

`supervisor` is where `supervise` and `run_generation` of the Telegram or the
TeamSpeak builder stand, `ended` what ended the generation, and `events`,
`dispatcher`, `watcher` and `refeed` its tasks.  `Notice` is the `select!` over
them, `AwaitEvents`, `AwaitDispatcher` and `AwaitWatcher` the ordered waits of a
stop, `Leave` and `Restart` the drop of the guards and the backoff.  Arrivals go
`Receive`, `Push`, `Take`, `Accepted`, with `Answer` and `Served` for a send
that needs the connection.  Watchers belong to a generation: `Query`, `Fire`,
`Ring`, `Sleep`, `Rise`.  `row`, `slots`, `fired` and `unrung` are the
scheduled tasks and what became of them; `Schedule`, `Unschedule`, `Purge` and
`FallDue` act on them from outside.  `lost` records every arrival that nobody
will accept, with the reason.

### Pages and Inbound

`Pages` is the engine every dialog is drawn through: a token is a draw and a
button of it, `entries` the table of tokens that are good, `Spends` a press,
`Tokens` registration up to the cap, `Redraw`, `Settle` and `Open` what the chat
is left showing when the platform may refuse each call, `Outlived` the half
hour.  One purge surface stands for the four, `Ranges` for the stretches.

`Inbound` has the chat's updates in the order the platform has them (`log`), how
many of them this process is through with (`handled`), and how many the platform
will not give again (`confirmed`).  `StoreMessage` and `StoreEdit` are
`IngestRepo::apply`; `PurgeLine`, `DigestLine` and `PolicyLine` the commands that
set something going; `PressPurge`, `PressPolicy`, `PressDigest` and
`PressDeliver` their pages; `Report` and `FailReport` a digest that comes back
to the page it was started from, whatever that page shows by then; `Fails` a
handler that ends at a failed query; `Crash` the end of the process, after which
everything unconfirmed is handled again.  Left out: a creation that carries an
`edited_at`, arrivals of people without access and the cooldown of the reply
they get, attachments, joins, the commands that only answer (greeting, help,
status, language, persona), and other Chats.

## Runs

| run | shows |
|---|---|
| `agent_faults` | `TypeOK`, `RequestsGoFirst`, `NoPassOvertakesAWrite`, `AttemptsAreBounded`, `TurnConsumesOnlyWhatItRead`: two Chats with reasons of different strength, a purge, steering, three failures of every kind but `panic` |
| `agent_durable` | `EveryChangeIsAccounted`, `NoChangeIsReadTwice`, `PurgedStaysGone`, and `KeepsThePromise` (the row implements `Accumulation`): two failures, without steering, `tail` and `panic` |
| `agent_progress` | `NoLostWake`, `PolicyClosesTheChapter`, and `RequestsAreCarriedOut` under fairness: steering, a policy change, a purge that spares the chapter, two failures, panics and crashes among them, no failing read |
| `members_rows` | `TypeOK`, `EveryChangeHasOnePlace`, `MovesNeverDeadlock`, `OriginsAreMounted`, `OnlyLateEntriesAreStray`: two operators, two Chats in a Conversation each, room for a third; a message, a purge and a setting; one failure |
| `turn_sends` | what the model is shown, what the Chat is sent, what the store records and how the run ends agree (`EverySendIsAccountedFor`, `NoticesNeverOutliveTheRun`, `AnswersFollowTheirCalls`, `UnsentTextIsAskedAbout`, `QuietPassesStaySilent`, `TheRunKnowsWhatItSaid`), and a run ends unless it is left without an answer (`RunEndsIfAnswered`) |
| `clocks` | `ADeferredTickWaits`: the loop does not spin; `PendingIsSettled`: no batch waits for ever |
| `registry` | `OneAgentPerConversation` |
| `channel_life` | `OccurrencesFireOnce`, `LossesHaveACause`, and under fairness `DueTasksReachTheirAgent` and `SendsAreServed` |
| `inbound` | `APurgeIsAskedForOnce`, `ShownButtonsWork`, `ARefusedReportCanBeAskedForAgain`, `OneEntryPerChange` |
| `finding_*` | one disagreement each, see below |

### Bounds

- `agent_*`: two Chats, because steering, origin selection and consumption
  compare a Chat with another one and a third would only repeat it.  Three or
  four changes are enough for one of each relevant kind, one in the batch and
  one arriving behind it.  Two or three failures let one meet the recovery from
  an earlier one; three are needed to exhaust the budget.
- `members_rows`: two moves are enough for opposite ones, for a Chat that comes
  back, and for a detach that fails before another one succeeds; the third
  Conversation is the row a detach creates.  Which operator is which does not
  matter (`OperatorSymmetry`).
- `turn_sends`: a budget of three Steps, three calls of tools, two of them
  sends, one lost answer.  Three is what the stall guard counts to, and the
  budget's warning, a stall notice and the contract's guide can then fall into
  one run.  `SomeTools` leaves out a tool that acts, which the loop treats as
  it treats a read without an image.
- `clocks`: the shortest constants that keep the order of the real ones
  (debounce and backoff shorter than the window, the window shorter than the
  timeout) with an attention that cools in two steps; two arrivals, one panic,
  and the real two retries.
- `registry`: two callers of two Conversations and three generations, one of
  which may panic: an agent, its replacement, and one that comes after the
  drain.
- `channel_life`: arrivals and tasks meet only in the supervisor, so one initial
  state has three arrivals and the others one task each (`OnlyArrivals`,
  `OnlyTasks`).  One failure allows two generations, which is what a stale
  watcher needs.
- `inbound`: four updates, one of them a line, one waiting behind the one being
  handled; two failures, a page's refusal and its fallback's; a table of five
  tokens, which the second page already fills.

Why some failures are left out:

- Steering with a failing write loses a change, and a `tail` failure brings a
  purged chapter back: these are findings, and the other runs show that nothing
  else breaks the same properties.  A `panic` spends no attempt (it sends no
  signal), so `AttemptsAreBounded` speaks of the other failures.
- `NoLostWake` does not hold with failing reads: the permit is taken before the
  refresh, and a refresh that fails over an empty batch leaves the agent to its
  next deadline.  The change is not lost, it is late.

Deadlock is checked by no run, because each of these systems may really stop:
a Conversation whose agent has left and whose producers are done, a run that is
over, a registry that is drained, a channel that is stopped, a chat in which
nobody writes.  What must not stop is stated as a property instead.

### Fairness

- `agent_progress` (`FairSpec`): a producer that committed rings, the re-feed
  runs, a sleep ends (`sleep_until`), a step of the loop that can be made is
  made (the tokio runtime polls every task), and a permit that stays is taken:
  the sleep's `select!` picks among its ready branches at random, so status
  queries and digests cannot be preferred for ever, which is the strong fairness
  of `Hear`.
- `turn_sends` (`RunFairSpec`): only what the loop does of itself is fair
  (`Internal`).  Nothing is assumed of what it waits for (`Awaiting`): the client
  of the model has no time limit (`agentcore/provider.rs`), nor has the request
  that carries a rich message (`telegram/outbound/service.rs`), and a shell
  command may be given none (`timeout_secs = 0`).  So not every run ends, and
  `RunEndsIfAnswered` says that one that does not hangs in one such wait.
- `clocks`: time passes (strongly, because an agent that is due may act first),
  and the loop takes its steps.
- Where a pass of the agent is one step (`agent_progress`, `clocks`), that it
  ends is an assumption, and `turn_sends` says when a run gives it.
- `channel_life` (`ChannelFairness`): the supervisor, the event task, the
  dispatcher, every watcher and every re-feed run on, and a connection is
  joined in the end.

Failures are never fair and their number is bounded; nobody has to write, to
press a button, to ask for a status or to stop the process.

### Findings

- `finding_steered_write`: `finish` dispatches after a steered Turn without
  looking at `pending_write`.  A Turn then runs over a context that lacks the
  previous one; its snapshot is stored; the delayed write puts the older one
  over it.  The changes told in between are in neither the context nor the
  accumulation.
- `finding_purge_tail`: a failure after the commit of a purge is reported as if
  the transaction had rolled back, and the agent stores the purged chapter again.
- `finding_redelivery`: a message and its edit are handled and the process stops
  before the platform knows.  Given again, the creation puts the old wording
  into the row and the edit is dropped as already seen, so the row says it was
  edited and shows the text from before.

### Stated, and refuted without a run of their own

These say what a reader of the code or of its docs may expect.  They are defined
in their modules, no run lists them, and TLC refutes each on the instance named
here, with the property put in place of the ones listed there.

| property | instance | what happens instead |
|---|---|---|
| `ConversationAgent!EveryPurgeIsCarriedOut` | `agent_progress`, `Faults = {}` | a purge queued while the agent leaves waits for the next ring, and nothing says that there will be one |
| `Membership!EntriesFollowTheirChat` | `members_rows` | settings stay in the row a Chat leaves; while another Chat is left there (`Start <- Shared`) each refresh refuses the row, because an entry names a stranger |
| `Membership!NothingToldIsPending` | `members_rows` | what a running Turn reads moves away with its Chat: the Turn tells it in the source, and the target reads it again |
| `Membership!TurnsHaveContent` | `members_rows` | the wipe reads the accumulation before it deletes; a message stored in between is deleted and its entry stays |
| `Pacing!ExpiryNeverDispatches` | `clocks` | heat is drawn before the expiry is looked at, so a backlog may go past the timeout |
| `Channel!AStopLosesNothingTaken` | `channel_life` | "a dispatcher still running at 5 s is aborted" (`docs/topics/platform.md`): TeamSpeak's may be aborted at once.  The watcher ends with the token too (`task_watcher.rs:59`); if the `select!` takes its branch (`teamspeak/builder.rs:212`), the generation waits for the event task alone, and the guard aborts the dispatcher with arrivals still queued.  No failure is needed |
| `Outbound!ADroppedLinkIsToTheLastWords` | `turn_sends` | the comment at `platform/outbound.rs:104` speaks of a reference to the newest thing the person said; one to the agent's own later message is dropped as well, and a person may write between the check and the wire call |
| `Channel!AStopEnds` | `channel_life` | a connection that never joins is retried, stop or not, until its host abandons the supervisor |
| `Inbound!AKeptReportIsOnThePage` | `inbound` | another page is drawn over the one that keeps the report, or the platform refuses that page too |

## Proofs

Every invariant and every action property that a run checks is also a theorem,
and so is the refinement of `Accumulation`: the run shows it on a small
instance, the theorem for all values of the constants that the module's named
assumptions admit (`ChangesAssumption`, `ChannelAssumption` and so on; they ask
that sets of changes, tasks and the like are finite, that counts are natural
numbers and that a task may fall due at least once, and TLC evaluates
them on each run).  What a theorem needs besides is its own `ASSUME`.  Five
theorems about one Conversation have such a hypothesis, and each is needed:

| hypothesis | needed by | without it |
|---|---|---|
| `"panic" \notin Faults` | `ThreeAttempts` | a pass that dies sends no signal and spends no attempt |
| `SafeWrites`: with steering, no write fails and no answer is lost | `NoChangeIsLost`, `RowKeepsThePromise` | `finding_steered_write` |
| `PurgesEnd`: no purge fails or dies after its commit | `DeletedStaysDeleted`, `RowKeepsThePromise` | `finding_purge_tail` |
| `"read" \notin Faults` | `NoRingIsLost` | the permit is taken before the refresh that fails |

A sixth, `DeferredTicksSleep`, is about the configuration; see Pacing below.

The inductive invariants say what the properties leave out, mostly what was true
some steps ago and still matters.

### One Conversation

`ConversationAgentProofs`, for every set of Chats and changes, every assignment
of kinds and every set of failures:

- `TypeCorrect`: `Spec => []TypeOK`, inductive as it stands.  The lemmas follow
  the helpers first (`FailAttempt`, `Written`, `RefreshBatch`, `PassOver`) and
  then the actions.
- `ThreeAttempts`: `Spec => []AttemptsAreBounded`, assuming that no pass panics.
  The bound itself is not inductive: whether a Turn may start depends on the
  attempts that are left.  `BudgetInv` adds them up: attempts left and Turns
  started exceed two by at most one, and only while a Turn runs, or after it
  failed with nothing owed.
- `RequestsFirst`: `Spec => []RequestsGoFirst`, inductive as it stands, since
  each action that enters one of those states repeats the test.
- `WritesGoFirst`: `Spec => []NoPassOvertakesAWrite` from `WaitInv`, which says
  where the loop can stand while a write is due: at the top of the tick or in
  the chain of steered Turns.
- `TurnConsumesWhatItRead`: `Spec => TurnConsumesOnlyWhatItRead` from `ReadInv`
  (the batch and the origin do not change while a Turn runs) and the lemma that
  what is consumed was rendered.

`DurabilityProofs` is about what becomes of a change.  A step of the agent
touches the durable variables in few ways (it leaves them alone, loses the
agent's memory, loads the row, writes a snapshot or fails to, ends a pass,
commits a purge), so `StepShape` reduces `Next` to these shapes once and the
invariants are proved over the shapes.

- The ledger (`LedgerInv`) holds at every place that keeps a context, the row,
  the agent's memory and a snapshot still to be written: whatever it tells was
  sent and has left the accumulation, or leaves it with that snapshot; what a
  pass is about to spend is what it was started for; and every chapter is one
  already minted, so that the next one is new.
  `NothingIsReadTwice` and `PolicyIsNeverDropped` follow from it and `ReadInv`.
- `NoChangeIsLost`: `AccountInv` adds that at most one write waits, only at the
  top of the tick, and that it covers all that the stored row tells, so that
  nothing is dropped by the write itself.  A steered Turn that overtakes a
  failed write is what breaks this; hence `SafeWrites`.
- `DeletedStaysDeleted`: `PurgeInv` says the same of what was deleted, at every
  place a snapshot could be written back from.  The agent may hold a deleted
  change only between the purge's commit and its end; hence `PurgesEnd`.
- `RowKeepsThePromise`: `Spec => KeepsThePromise`, the refinement.  `RowInv`
  relates the agent's memory to the row: the same told changes, or more by those
  of a chapter that a write without an answer has closed; and a write that waits
  is either in the row already or still to add what it consumed.  Every shape of
  step then maps to an action of `Accumulation` or to a stutter.
- `ThePromiseIsEnough`: the contract itself implies that nothing is lost and
  that nothing told is pending.
- `NoRingIsLost`: `WakeInv` says that the permit stands for all rings since the
  row was last read.

### Several Conversations

`MembershipProofs`, for every set of Conversations, Chats, changes and operators,
and every number of moves and failures:

- `MembershipTypes`: `Spec => []TypeOK`, with `MoveShape`: a transaction that
  has not begun holds nothing, one that has knows two different rows and has
  locked none but these.
- `PassesKeepTheirChat`: `Spec => []OriginsAreMounted`.  What is needed besides
  is that an agent between passes has no pass recorded, so a refresh that drops
  a Chat never drops the one a pass speaks in.
- `MovesLoseNothing`: `Spec => []EveryChangeHasOnePlace`.  The invariant is not
  inductive: a commit writes what it read some steps ago.  `LockInv` says that
  locks are exclusive and that a transaction which has read holds both and reads
  true still; every action that writes a row waits for its lock, so none makes
  a copy stale (`UnlockedRow`).  `OnlyTheSent` says that what agents remember
  was committed before.
- `MovesLeaveOnlySettings`: `Spec => []OnlyLateEntriesAreStray` from the same
  invariant and two facts about the chat row's lock: no two transactions move
  one Chat, and the Chat stays where its transaction found it.
- `MovesGoOn`: `Spec => []MovesNeverDeadlock` from `LocksInOrder`: a move that
  waits holds only rows below the one it waits for.  The highest row somebody
  waits for is held by somebody who does not wait; that there is a highest one
  comes from the well-foundedness of finite sets.

### Runs and sends

`RunProofs`, for every role, budget, set of tools, answer and failure.  A step
of a run is one of the loop's own, one of the send at hand, or somebody writing
in the Chat; the first kind leaves what went out alone and the others leave the
loop alone, so the two halves have invariants of their own.

- `RunTypes`: `RunSpec => []RunTypeOK`.
- `SendsAreAccountedFor`: `Accounts` says where the copies without a row come
  from: a lost answer, a row that failed, or the receipt still in hand; each is
  counted, and a person's writing never adds one.
- `QuietPassesSendNothing`: no call of a role that rejects the speaking tools
  begins a send.
- `RunsKnowWhatTheySaid`: while a send is out, the run goes by the rows of the
  sends before it (`KnowsInv`).
- `UnsentTextWasAskedAbout`: a retry in hand is one whose guide went in with the
  last Step (`UnsentInv`), and nothing is taken out of the list before the end.
- `NoticesEndWithTheRun`: `into_messages` gives back what is no notice, in its
  order, for lists of any length.  `NoticesKnown` says that `transient` holds
  the places of the notices, each once and increasing; `KeptIs` that `kept` is
  what `IntoMessages` makes of it.
- `EveryCallIsAnswered`: in any list that a model is shown or the caller is
  given, the calls of an answer have their results right behind it, in order
  (`CallsInv`); taking the notices out keeps that.

What `IntoMessages` computes is shown by an induction over the length.  The
library's induction theorems take an operator, which no backend here can
instantiate, so the induction is made over sets: what holds of 0 and goes from n
to n + 1 holds of all of `0..N`, because the least n it does not hold of would
give a smaller finite set (`WFMin` on the strict subsets of `1..N`).  The same
argument is `CountsUp` in `PacingProofs`, for `Fed`.

### Processes, channels and clocks

`RegistryProofs`, for any Conversations, callers and number of generations:
`RegistryTypes` and `OneAgent` (`RegistrySpec => []OneAgentPerConversation`).  The
property says two things: no two live tasks share a Conversation, and the map
holds each live one.  The second implies the first, since an entry names one
generation, and together with the types it is inductive: the step that needs it
is `Create`, which overwrites an entry only when nothing alive is named by it.

`ChannelProofs`, for any number of generations, tasks, arrivals and failures:

- `EachSlotFiresOnce`: a task fires no more often than it fell due.
  `OneWatcher` says that only the current generation's watcher runs, and only
  between `GoLive` and `Leave`; `OwedIsHeld` that a row which is due, and a task
  which a watcher's query found, fell due once more than it was fired.
- `ArrivalsAreLostForACause`: whoever leaves a generation has waited until the
  dispatcher was over, but for TeamSpeak's watcher branch (`StopInv`), and a
  dispatcher that is over has nothing in hand and nothing queued (`ArrivalInv`).
  That leaves the watcher branch, which nothing but a stop or a failure enters
  (`RestartInv`), the connection that breaks off while it joins, and the
  dispatcher's own end (`LossInv`).
- `ChannelTypes`: the number of generations is bounded because a generation is
  followed by another only where something failed in it (`RestartInv`).

`PacingProofs`, for any lengths of the waits, heats, budgets and orders of
arrivals:

- `PacingTypes`: needs that the reasons to wake in the batch and in the store
  together are no more than have arrived (`Counted`).
- `OnlyTheExpirySpins` and `DeferredTicksSleep`.  `DeferInv` says what a tick
  that decided nothing decided by: a quiet period, a window over nothing to
  answer, or neither and not past the expiry.  `OnlyTheExpirySpins` follows for
  any constants: such a tick is due again at once only at the instant of the
  expiry (`decide` compares with `>`), or past it with a window open over
  nothing to answer, where it reads the store again and again until the window
  closes.  With `WindowSecs <= IdleTimeout` the batch must then hold changes
  whose attempts are spent (`DeferredTicksSleep`), because a window over an
  empty batch was left by a Turn and is no younger than the last run
  (`WindowIsYoung`).  The defaults are 30 s and 600 s
  (`config/schema.rs`), but the configuration accepts a longer window too;
  TLC refutes `ADeferredTickWaits` on `clocks` with `WindowSecs = 6` and
  `IdleTimeout = 4`.

### The inbound path

`InboundProofs`, for any people, messages and lines, every order of their
updates, and any number of refusals and crashes.  `PagesMove` first says how a
step may move the pages (leave them, rewrite one message without buttons, draw
one page more, let some grow too old, lose them with the process), and the
first three theorems are proved over these moves.

- `ShownButtonsGoOnWorking` from `PageInv`: an entry of the table belongs to a
  page that was drawn, and tokens are never drawn twice, since the number of the
  draw is in them.
- `PurgesAreAskedForOnce` from `PurgesInv`: each queued purge has a complete
  line or a press that confirmed a page behind it, and the token of that press
  is gone from the table and behind no other purge.  A crash takes the whole
  table, so what is given again finds nothing.
- `RefusedReportsAreKept` from `ReportInv`: a job always has a state, and
  only a delivery spends a button that delivers.
- `ChangesAreQueuedOnce` from `EntryInv`: for each message, one creation in the
  accumulation exactly if there is a row, and edits whose times increase and end
  at the row's (`CreatedOnce`, `EditsInOrder`).

### Only model-checked

`RequestsAreCarriedOut`, `PendingIsSettled`, `RunEndsIfAnswered`, `DueTasksReachTheirAgent`
and `SendsAreServed` rest on fairness and `ENABLED`, which the prover cannot
treat.  The findings and the refuted properties below them are counterexamples,
and TLC's.
## Known, and covered by no property

- A purge is carried out by the Conversation its entry is in, which an attach
  may have changed since it was asked for; messages of a Chat that has moved are
  then deleted by no purge.
- A Conversation that lost its last Chat fails every refresh: its agent neither
  reads nor leaves before its expiry.
- A construction that fails loses the ring that spawned it, and a re-feed that
  fails is not tried again; `DueTasksReachTheirAgent` is excused by the latter.
- A task that was cancelled or purged after the watcher's query fires once more.
- Two edits within one second carry the same time, and the second is dropped.
- A content policy is written and its reopening queued in two steps
  (`HalfSetPolicy`).
- The entries a move puts into a target row are rung by nobody until the next
  ring, deadline or start.
- A rebuild of the embeddings reads every row's text first and writes the vectors
  by id afterwards (`cli/rebuild.rs`), and a topic's revision embeds the halves it
  read before its write (`domain/service/topic.rs`): what a running agent writes
  in between keeps a vector of the older text.

## What is not modelled, and why

Most of the repository by lines is outside what a state machine can say
anything about, and the share of it that these modules stand for stays small for
that reason: text (prompts, copy, rendering, localisation, the formats of
platforms and model providers), conversions without state (`agentcore`, parsing
of commands, the schema of the configuration, the migrations and plain queries),
pure I/O (files, the sandbox, HTTP, multimodal analysis), and an operator's client
(the command line and the terminal interface).  Chunking and retrieval fusion
are pure algorithms over text and ranks that their own tests enumerate.  The
event log is telemetry that no other part reads to decide anything.
PROJECT.json lists every part with its reason.

## What would come next

1. The doorbells of two Conversations together with a move between them
   (`Membership` with the run loop of `ConversationAgent`), for the entries
   nobody rings for.
2. Access control and its cooldown, and joins, in `Inbound`.
3. Derived records and their vectors: imports and a reindex of the knowledge base,
   and a rebuild of the embeddings, against the writes of a running agent.
4. Proofs: that a change lost to a steered write, or brought back by a purge's
   failed end, is the only one (`NoChangeIsLost` and `DeletedStaysDeleted` with
   the hypothesis turned into what is lost); and what the modules above prove
   one by one, about their composition.
