----------------------------- MODULE Membership -----------------------------
(***************************************************************************)
(* Several Conversations and the Chats an operator moves between them.     *)
(* A move is one transaction over two conversation rows and a chat row; it *)
(* races the producers, which look a Chat's Conversation up before they    *)
(* write to it, the purge transactions, and the agents, which keep a copy  *)
(* of the membership in memory.                                            *)
(*                                                                         *)
(* An agent is drawn with the steps that touch membership only: when it    *)
(* refreshes, and what else it does with a batch, is ConversationAgent.    *)
(* READ COMMITTED is modelled by what it lets a transaction see: a plain   *)
(* read takes what is committed, an UPDATE waits for the row's lock.       *)
(***************************************************************************)
EXTENDS Naturals, FiniteSets

CONSTANTS
  Conversations,   \* the ids of the rows, the ones a detach may create included
  Chats,
  Changes,         \* every change that may be appended
  Operators,       \* the processes that move Chats
  ChatOf,          \* the Chat a change names
  KindOf,          \* "message", "setting" or "purge"
  Start,           \* the Conversation each Chat begins in
  MaxMoves,        \* how many moves may begin
  MaxFaults        \* how many failures may happen

Nowhere == 0

ASSUME ConversationsAssumption ==
  Conversations \subseteq Nat \ {Nowhere} /\ IsFiniteSet(Conversations)
ASSUME StartAssumption == Start \in [Chats -> Conversations]
ASSUME ChangeAssumption ==
  /\ ChatOf \in [Changes -> Chats]
  /\ KindOf \in [Changes -> {"message", "setting", "purge"}]
ASSUME BoundAssumption == MaxMoves \in Nat /\ MaxFaults \in Nat

VARIABLES
  \* the database
  open,       \* the conversation rows that exist
  home,       \* chat.conversation_id
  row,        \* conversation.pending
  messages,   \* the changes whose message row exists
  \* producers
  resolved,   \* the Conversation a producer looked up for its change
  sent,       \* the changes that are committed
  unrung,     \* the committed changes whose producer has not rung yet
  \* operators
  at,         \* where the transaction of an operator stands
  move,       \* which Chat it moves, from where to where
  held,       \* the conversation rows it has locked
  copy,       \* the accumulations it has read
  moves,      \* how many moves have begun
  \* agents
  pc,         \* where the agent of a Conversation stands
  chats,      \* ChatSet::chats, the mounted surfaces
  roster,     \* ChatSet::membership
  batch,      \* Inbox::batch
  pass,       \* what the running pass was started with
  view,       \* what the transaction of a purge has read
  \* history
  told,       \* what each Conversation's contexts have told
  spent,      \* requests carried out, and changes a purge took
  late,       \* changes appended to a row their Chat had left by then
  faults      \* failures so far

database == <<open, home, row, messages>>
producers == <<resolved, sent, unrung>>
transaction == <<at, move, held, copy>>
operators == <<transaction, moves>>
agents == <<pc, chats, roster, batch, pass, view>>
history == <<told, spent, late>>
vars == <<database, producers, operators, agents, history, faults>>

Points == {"absent", "new", "mounted", "idle", "synced", "ready", "turn",
           "purge", "wiping"}

\* The changes a pass was handed, and the Chat it speaks in.
Passes == [read : SUBSET Changes, origin : SUBSET Chats]
NoPass == [read |-> {}, origin |-> {}]

\* The members and the accumulation a purge sees.
Views == [members : SUBSET Chats, pending : SUBSET Changes]
NoView == [members |-> {}, pending |-> {}]

Moves == [chat : SUBSET Chats, from : Conversations \cup {Nowhere},
          to : Conversations \cup {Nowhere}]
NoMove == [chat |-> {}, from |-> Nowhere, to |-> Nowhere]
Copies == [source : SUBSET Changes, target : SUBSET Changes]
NoCopy == [source |-> {}, target |-> {}]

DatabaseType ==
  /\ open \subseteq Conversations
  /\ home \in [Chats -> open]
  /\ row \in [Conversations -> SUBSET Changes]
  /\ messages \subseteq Changes
ProducerType ==
  /\ resolved \in [Changes -> Conversations \cup {Nowhere}]
  /\ sent \subseteq Changes /\ unrung \subseteq Changes
OperatorType ==
  /\ at \in [Operators -> {"none", "locking", "copied"}]
  /\ move \in [Operators -> Moves]
  /\ held \in [Operators -> SUBSET Conversations]
  /\ copy \in [Operators -> Copies]
  /\ moves \in 0..MaxMoves
AgentType ==
  /\ pc \in [Conversations -> Points]
  /\ chats \in [Conversations -> SUBSET Chats]
  /\ roster \in [Conversations -> SUBSET Chats]
  /\ batch \in [Conversations -> SUBSET Changes]
  /\ pass \in [Conversations -> Passes]
  /\ view \in [Conversations -> Views]
HistoryType ==
  /\ told \in [Conversations -> SUBSET Changes]
  /\ spent \subseteq Changes /\ late \subseteq Changes
  /\ faults \in 0..MaxFaults
TypeOK == DatabaseType /\ ProducerType /\ OperatorType /\ AgentType /\ HistoryType

Init ==
  /\ open = {Start[chat] : chat \in Chats}
  /\ home = Start
  /\ row = [v \in Conversations |-> {}]
  /\ messages = {}
  /\ resolved = [c \in Changes |-> Nowhere]
  /\ sent = {} /\ unrung = {}
  /\ at = [m \in Operators |-> "none"] /\ moves = 0
  /\ move = [m \in Operators |-> NoMove]
  /\ held = [m \in Operators |-> {}]
  /\ copy = [m \in Operators |-> NoCopy]
  /\ pc = [v \in Conversations |-> "absent"]
  /\ chats = [v \in Conversations |-> {}]
  /\ roster = [v \in Conversations |-> {}]
  /\ batch = [v \in Conversations |-> {}]
  /\ pass = [v \in Conversations |-> NoPass]
  /\ view = [v \in Conversations |-> NoView]
  /\ told = [v \in Conversations |-> {}]
  /\ spent = {} /\ late = {} /\ faults = 0

Fault == faults < MaxFaults /\ faults' = faults + 1
NoFault == UNCHANGED faults

Members(v) == {chat \in Chats : home[chat] = v}
OfKind(S, kinds) == {c \in S : KindOf[c] \in kinds}

\* FOR UPDATE, held until the transaction ends.
Locked(v) == \E m \in Operators : v \in held[m]
ChatLocked(chat) == \E m \in Operators : chat \in move[m].chat

-----------------------------------------------------------------------------
(***************************************************************************)
(* Producers.  The Conversation is looked up without a lock, in an earlier *)
(* transaction (ingest, commands) or an earlier statement (scheduled       *)
(* tasks); the append then names the row that was found, and so does the   *)
(* ring.  A setting is appended and never rung.                            *)
(***************************************************************************)
Resolve(c) ==
  /\ resolved[c] = Nowhere
  /\ resolved' = [resolved EXCEPT ![c] = home[ChatOf[c]]]
  /\ UNCHANGED <<database, sent, unrung, operators, agents, history, faults>>

Append(c) ==
  /\ c \notin sent
  /\ resolved[c] # Nowhere /\ ~Locked(resolved[c])
  /\ row' = [row EXCEPT ![resolved[c]] = @ \cup {c}]
  /\ messages' = messages \cup OfKind({c}, {"message"})
  /\ sent' = sent \cup {c}
  /\ unrung' = unrung \cup OfKind({c}, {"message", "purge"})
  /\ late' = IF home[ChatOf[c]] = resolved[c] THEN late ELSE late \cup {c}
  /\ UNCHANGED <<open, home, resolved, operators, agents, told, spent, faults>>

Ring(c) ==
  /\ c \in unrung
  /\ unrung' = unrung \ {c}
  /\ pc' = [pc EXCEPT ![resolved[c]] = IF @ = "absent" THEN "new" ELSE @]
  /\ UNCHANGED <<database, resolved, sent, operators, chats, roster, batch,
                 pass, view, history, faults>>

-----------------------------------------------------------------------------
(***************************************************************************)
(* A move locks the chat row, then both conversation rows in the order of  *)
(* their ids, reads both accumulations, and writes both back.              *)
(***************************************************************************)
\* What the sequence may hand out: a rolled back detach leaves a gap.
Fresh == {v \in Conversations :
            /\ \A w \in open : w < v
            /\ \A m \in Operators : move[m].to < v}

\* Attach to a row that exists, or detach to one this transaction inserts.  A
\* move to where the Chat is already, or to no row at all, changes nothing.
BeginMove(m, chat, target) ==
  /\ at[m] = "none" /\ moves < MaxMoves
  /\ ~ChatLocked(chat)
  /\ target # home[chat]
  /\ target \in open \/ target \in Fresh
  /\ at' = [at EXCEPT ![m] = "locking"]
  /\ move' = [move EXCEPT ![m] =
                [chat |-> {chat}, from |-> home[chat], to |-> target]]
  /\ moves' = moves + 1
  /\ UNCHANGED <<held, copy, database, producers, agents, history, faults>>

Wanted(m) == {move[m].from, move[m].to} \ held[m]
NextToLockMutant(m, v) ==                \* MovesNeverDeadlock: source first
  IF move[m].from \in Wanted(m) THEN v = move[m].from ELSE v \in Wanted(m)
\* ORDER BY id FOR UPDATE.
NextToLock(m, v) == v \in Wanted(m) /\ \A w \in Wanted(m) : v <= w

LockRow(m, v) ==
  /\ at[m] = "locking"
  /\ NextToLock(m, v)
  /\ ~Locked(v)
  /\ held' = [held EXCEPT ![m] = @ \cup {v}]
  /\ UNCHANGED <<at, move, copy, moves, database, producers, agents, history,
                 faults>>

\* Both accumulations are read while both rows are locked.
Copied(m) ==
  /\ at' = [at EXCEPT ![m] = "copied"]
  /\ copy' = [copy EXCEPT ![m] =
                [source |-> row[move[m].from], target |-> row[move[m].to]]]
  /\ UNCHANGED <<move, held, moves, database, producers, agents, history, faults>>
ReadRowsMutant(m) == at[m] = "locking" /\ Copied(m)   \* EveryChangeHasOnePlace
ReadRows(m) == at[m] = "locking" /\ Wanted(m) = {} /\ Copied(m)

MovingMutant(m) ==                       \* OnlyLateEntriesAreStray
  {c \in copy[m].source : ChatOf[c] \in move[m].chat /\ KindOf[c] = "message"}
\* What goes along: a setting stays with the Conversation it was made in.
Moving(m) ==
  {c \in copy[m].source : ChatOf[c] \in move[m].chat /\ KindOf[c] # "setting"}

Over(m) ==
  /\ at' = [at EXCEPT ![m] = "none"]
  /\ move' = [move EXCEPT ![m] = NoMove]
  /\ held' = [held EXCEPT ![m] = {}]
  /\ copy' = [copy EXCEPT ![m] = NoCopy]

OpenedMutant(m) == open                  \* TypeOK
\* The row a detach inserted becomes visible with the move.
Opened(m) == open \cup {move[m].to}

CommitMove(m) ==
  /\ at[m] = "copied"
  /\ row' = [row EXCEPT ![move[m].from] = copy[m].source \ Moving(m),
                        ![move[m].to] = copy[m].target \cup Moving(m)]
  /\ home' = [chat \in Chats |-> IF chat \in move[m].chat THEN move[m].to
                                                          ELSE home[chat]]
  /\ open' = Opened(m)
  /\ Over(m)
  /\ UNCHANGED <<messages, moves, producers, agents, history, faults>>

\* An error, or the operator's process dying, rolls everything back.
AbortMove(m) ==
  /\ at[m] # "none"
  /\ Over(m)
  /\ Fault
  /\ UNCHANGED <<moves, database, producers, agents, history>>

-----------------------------------------------------------------------------
(***************************************************************************)
(* Agents: the member Chats in memory                                      *)
(***************************************************************************)
\* ChatSet::mount, the first thing a new agent does.  Without a member, or with
\* a channel that does not run, there is no agent.
Mount(v) ==
  /\ pc[v] = "new"
  /\ \/ /\ Members(v) # {} /\ NoFault
        /\ pc' = [pc EXCEPT ![v] = "mounted"]
        /\ chats' = [chats EXCEPT ![v] = Members(v)]
        /\ roster' = [roster EXCEPT ![v] = Members(v)]
     \/ /\ IF Members(v) = {} THEN NoFault ELSE Fault
        /\ pc' = [pc EXCEPT ![v] = "absent"]
        /\ UNCHANGED <<chats, roster>>
  /\ UNCHANGED <<database, producers, operators, batch, pass, view, history>>

\* The rest of the construction reads the row in a statement of its own.
Restore(v) ==
  /\ pc[v] = "mounted"
  /\ pc' = [pc EXCEPT ![v] = "idle"]
  /\ batch' = [batch EXCEPT ![v] = row[v]]
  /\ UNCHANGED <<database, producers, operators, chats, roster, pass,
                 view, history, faults>>

SyncMutant(v) ==                         \* OriginsAreMounted: drop before mounting
  /\ pc[v] = "idle" /\ Members(v) # {}
  /\ \/ /\ NoFault
        /\ pc' = [pc EXCEPT ![v] = "synced"]
        /\ chats' = [chats EXCEPT ![v] = Members(v)]
        /\ roster' = [roster EXCEPT ![v] = Members(v)]
     \/ /\ Fault
        /\ chats' = [chats EXCEPT ![v] = @ \cap Members(v)]
        /\ UNCHANGED <<pc, roster>>
  /\ UNCHANGED <<database, producers, operators, batch, pass, view, history>>
\* ChatSet::sync, the first half of a refresh.  The loop mounts one new Chat
\* after the other and gives up at the first that cannot be mounted.
Sync(v) ==
  /\ pc[v] = "idle" /\ Members(v) # {}
  /\ \/ /\ NoFault
        /\ pc' = [pc EXCEPT ![v] = "synced"]
        /\ chats' = [chats EXCEPT ![v] = Members(v)]
        /\ roster' = [roster EXCEPT ![v] = Members(v)]
     \/ /\ Fault
        /\ \E some \in SUBSET (Members(v) \ chats[v]) :
             /\ some # Members(v) \ chats[v]
             /\ chats' = [chats EXCEPT ![v] = @ \cup some]
        /\ UNCHANGED <<pc, roster>>
  /\ UNCHANGED <<database, producers, operators, batch, pass, view, history>>

\* The other half reads the row, and refuses it when an entry names a stranger.
Refresh(v) ==
  /\ pc[v] = "synced"
  /\ IF \A c \in row[v] : ChatOf[c] \in roster[v]
       THEN /\ batch' = [batch EXCEPT ![v] = row[v]]
            /\ pc' = [pc EXCEPT ![v] = "ready"]
       ELSE /\ pc' = [pc EXCEPT ![v] = "idle"]
            /\ UNCHANGED batch
  /\ UNCHANGED <<database, producers, operators, chats, roster, pass,
                 view, history, faults>>

\* The scheduler answers Defer, or Done: the agent goes back to sleep or leaves,
\* whatever the batch holds that gave no reason for a Turn.
Rest(v) ==
  /\ pc[v] = "ready"
  /\ OfKind(batch[v], {"purge"}) = {}
  /\ \/ /\ pc' = [pc EXCEPT ![v] = "idle"]
        /\ UNCHANGED <<chats, roster, batch>>
     \/ /\ pc' = [pc EXCEPT ![v] = "absent"]
        /\ chats' = [chats EXCEPT ![v] = {}]
        /\ roster' = [roster EXCEPT ![v] = {}]
        /\ batch' = [batch EXCEPT ![v] = {}]
  /\ UNCHANGED <<database, producers, operators, pass, view, history, faults>>

-----------------------------------------------------------------------------
(***************************************************************************)
(* A Turn                                                                  *)
(***************************************************************************)
\* dispatch: the Turn of one member Chat, over that Chat's messages and every
\* setting of the Conversation.
StartTurn(v, chat) ==
  /\ pc[v] = "ready" /\ OfKind(batch[v], {"purge"}) = {}
  /\ chat \in roster[v]
  /\ \E c \in OfKind(batch[v], {"message"}) : ChatOf[c] = chat
  /\ pass' = [pass EXCEPT ![v] =
       [read |-> {c \in batch[v] : ChatOf[c] = chat \/ KindOf[c] = "setting"},
        origin |-> {chat}]]
  /\ pc' = [pc EXCEPT ![v] = "turn"]
  /\ UNCHANGED <<database, producers, operators, chats, roster, batch, view,
                 history, faults>>

\* on_complete: what the Turn read leaves the row of this Conversation,
\* wherever the change is by now.
EndTurn(v) ==
  /\ pc[v] = "turn"
  /\ \/ /\ ~Locked(v) /\ NoFault
        /\ row' = [row EXCEPT ![v] = @ \ pass[v].read]
        /\ told' = [told EXCEPT ![v] = @ \cup pass[v].read]
        /\ batch' = [batch EXCEPT ![v] = @ \ pass[v].read]
     \/ Fault /\ UNCHANGED <<row, told, batch>>
  /\ pass' = [pass EXCEPT ![v] = NoPass]
  /\ pc' = [pc EXCEPT ![v] = "idle"]
  /\ UNCHANGED <<open, home, messages, producers, operators, chats, roster, view,
                 spent, late>>

-----------------------------------------------------------------------------
(***************************************************************************)
(* A purge of the agent surface over everything.  Its transaction reads    *)
(* the members and the accumulation first and deletes afterwards.          *)
(***************************************************************************)
StartPurge(v, c) ==
  /\ pc[v] = "ready"
  /\ c \in OfKind(batch[v], {"purge"})
  /\ pass' = [pass EXCEPT ![v] =
       [read |-> {c}, origin |-> {ChatOf[c]} \cap roster[v]]]
  /\ pc' = [pc EXCEPT ![v] = "purge"]
  /\ UNCHANGED <<database, producers, operators, chats, roster, batch, view,
                 history, faults>>

WipeReads(v) ==
  /\ pc[v] = "purge"
  /\ view' = [view EXCEPT ![v] = [members |-> Members(v), pending |-> row[v]]]
  /\ pc' = [pc EXCEPT ![v] = "wiping"]
  /\ UNCHANGED <<database, producers, operators, chats, roster, batch, pass,
                 history, faults>>

\* The messages of the Chats in scope that were written in this Conversation.
Deleted(v) ==
  {c \in messages : resolved[c] = v /\ ChatOf[c] \in view[v].members}

PurgeEnds(v, consumed, gone) ==
  /\ ~Locked(v)
  /\ row' = [row EXCEPT ![v] = @ \ consumed]
  /\ batch' = [batch EXCEPT ![v] = @ \ consumed]
  /\ spent' = spent \cup consumed \cup gone
  /\ pass' = [pass EXCEPT ![v] = NoPass]
  /\ view' = [view EXCEPT ![v] = NoView]
  /\ pc' = [pc EXCEPT ![v] = "idle"]
  /\ UNCHANGED <<open, home, producers, operators, chats, roster, late>>

WipeCommits(v) ==
  /\ pc[v] = "wiping"
  /\ PurgeEnds(v, pass[v].read \cup (view[v].pending \cap Deleted(v)), told[v])
  /\ messages' = messages \ Deleted(v)
  /\ told' = [told EXCEPT ![v] = {}]
  /\ NoFault

\* A purge that failed spends its own entry.
PurgeFails(v) ==
  /\ pc[v] \in {"purge", "wiping"}
  /\ PurgeEnds(v, pass[v].read, {})
  /\ Fault
  /\ UNCHANGED <<messages, told>>

-----------------------------------------------------------------------------
Produce == \E c \in Changes : Resolve(c) \/ Append(c) \/ Ring(c)
Operate == \E m \in Operators :
  \/ \E chat \in Chats, v \in Conversations : BeginMove(m, chat, v)
  \/ \E v \in Conversations : LockRow(m, v)
  \/ ReadRows(m) \/ CommitMove(m) \/ AbortMove(m)
Live == \E v \in Conversations :
  \/ Mount(v) \/ Restore(v) \/ Sync(v) \/ Refresh(v) \/ Rest(v)
  \/ \E chat \in Chats : StartTurn(v, chat)
  \/ EndTurn(v)
  \/ \E c \in Changes : StartPurge(v, c)
  \/ WipeReads(v) \/ WipeCommits(v) \/ PurgeFails(v)

Next == Produce \/ Operate \/ Live

Spec == Init /\ [][Next]_vars

-----------------------------------------------------------------------------
Pending == UNION {row[v] : v \in Conversations}
Told    == UNION {told[v] : v \in Conversations}

(***************************************************************************)
(* A move writes back two accumulations it read earlier, while producers   *)
(* append and agents consume: no change is lost, and none is in two rows.  *)
(***************************************************************************)
EveryChangeHasOnePlace ==
  /\ sent = Pending \cup Told \cup spent
  /\ \A v, w \in Conversations : v # w => row[v] \cap row[w] = {}

(***************************************************************************)
(* Operators who move Chats in opposite directions do not wait for each    *)
(* other: while a move is under way, one of them can go on (the locks are  *)
(* taken in the order of the ids, move_chat_in_tx).                        *)
(***************************************************************************)
Underway == {m \in Operators : at[m] # "none"}
Blocked(m) ==
  at[m] = "locking" /\ \E v \in Conversations : NextToLock(m, v) /\ Locked(v)
MovesNeverDeadlock ==
  Underway # {} => \E m \in Underway : ~Blocked(m)

(***************************************************************************)
(* The Chat a pass speaks in stays a member, and every member has its      *)
(* surface, across refreshes that fail half way: the code asserts the      *)
(* first (remember) and expects the second (start_purge, surface).         *)
(***************************************************************************)
OriginsAreMounted ==
  \A v \in Conversations : pc[v] \notin {"absent", "new"} =>
    /\ roster[v] # {}
    /\ pass[v].origin \subseteq roster[v]
    /\ roster[v] \subseteq chats[v]

(***************************************************************************)
(* A change that waits in a Conversation its Chat is no member of is a     *)
(* setting, which belongs to the Conversation, or was appended by a        *)
(* producer whom a move had overtaken.                                     *)
(***************************************************************************)
OnlyLateEntriesAreStray ==
  \A v \in Conversations : \A c \in row[v] :
    home[ChatOf[c]] # v => KindOf[c] = "setting" \/ c \in late

-----------------------------------------------------------------------------
(***************************************************************************)
(* What the documentation or a comment says and the code does not keep.    *)
(*                                                                         *)
(* "The Chat and its unconsumed pending entries move": a row holds no      *)
(* change of a Chat that went elsewhere, unless it came late.              *)
(***************************************************************************)
EntriesFollowTheirChat ==
  \A v \in Conversations : \A c \in row[v] :
    home[ChatOf[c]] # v => c \in late

(***************************************************************************)
(* "A context and the changes it read can never disagree": what some       *)
(* context tells waits nowhere to be told again.                           *)
(***************************************************************************)
NothingToldIsPending == Told \cap Pending = {}

(***************************************************************************)
(* "A Turn can never consume a change whose content is missing": the       *)
(* messages a Turn was started over exist.                                 *)
(***************************************************************************)
TurnsHaveContent ==
  \A v \in Conversations : pc[v] = "turn" =>
    OfKind(pass[v].read, {"message"}) \subseteq messages
=============================================================================
