-------------------------- MODULE DurabilityProofs --------------------------
(***************************************************************************)
(* Proofs about what a Conversation keeps: that no change is lost, told    *)
(* twice or brought back, whatever fails and whenever the agent restarts,  *)
(* that no ring is lost, and that the row keeps the contract of            *)
(* Accumulation.  All of them speak of the same few variables, so what a   *)
(* step may do to these is stated once, as a shape of the step.            *)
(***************************************************************************)
EXTENDS ConversationAgentProofs

-----------------------------------------------------------------------------
(***************************************************************************)
(* The shapes a step may have                                              *)
(***************************************************************************)
\* Where the loop still acts on the batch it read from the row.
Reading == {"settled", "decide", "resume", "dispatch", "turn", "reopen",
            "wrapup", "purge"}

\* Everything that says where a change is.
ledger == <<pending, stored, sent, mem, unsaved, minted, retired, wiped>>

\* A step that leaves the ledger alone: it stays where it is, or the loop moves.
Stay ==
  /\ pc' = pc \/ (pc = "absent" /\ pc' = "new")
  /\ UNCHANGED <<batch, spend>>

Move ==
  /\ pc \notin {"absent", "new"} /\ pc' \notin {"absent", "new", "purged"}
  /\ pc = "tick" => unsaved = {}
  /\ pc = "purged" => Faults \cap {"tail", "panic"} # {}
  /\ pc' \in Reading => batch' \in {pending, {}} \/ (pc \in Reading /\ batch' = batch)
  /\ \/ spend' \in {spend, {}} /\ pc' \notin {"wrapup", "purge", "purgeFailed"}
     \/ spend' = spend /\ pc' = "purgeFailed" /\ (pc = "purge" \/ "tail" \in Faults)
     \/ pc = "reopen" /\ pc' = "wrapup" /\ spend' \in SUBSET OfKind(batch, {"policy"})
     \/ /\ pc \in {"settled", "decide"} /\ pc' = "purge"
        /\ \E c \in OfKind(batch, PurgeKinds) : spend' = {c}

Calm ==
  /\ UNCHANGED ledger /\ (Stay \/ Move)
  /\ pc' = "turn" => (pc = "turn" /\ read' = read) \/ read' # {}

\* The agent's memory is dropped.
Lost ==
  /\ UNCHANGED <<pending, stored, sent, minted, retired, wiped>>
  /\ mem' = Blank /\ unsaved' = {} /\ pc' = "absent" /\ spend' = {}

\* The agent is constructed from the row.
Loaded ==
  /\ UNCHANGED <<pending, stored, sent, unsaved, minted, retired, wiped, spend>>
  /\ pc = "new" /\ pc' = "tick" /\ mem' = stored

LEMMA CalmWait ==
  ASSUME Hear \/ Deadline \/ AnswerStatus \/ StartDigest \/ FinishDigest \/ Panic
  PROVE  Calm
BY DEF Hear, Deadline, AnswerStatus, StartDigest, FinishDigest, Panic, PassOver,
       Fault, Calm, Stay, Move, ledger, row, ghosts, inbox, pass, Reading

LEMMA CalmRefresh ==
  ASSUME Settle \/ RefreshAwake \/ RefreshSteered
  PROVE  Calm
<1>1. /\ UNCHANGED ledger /\ spend' = spend
      /\ pc = "tick" => unsaved = {}
      /\ pc \in {"tick", "woken", "steered"}
      /\ \/ pc' \in {"settled", "decide", "resume"} /\ batch' \in {pending, {}}
         \/ pc' = "tick" /\ batch' = batch
  BY DEF Settle, RefreshAwake, RefreshSteered, RefreshBatch, ledger, row, ghosts,
         inbox, pass
<1> QED BY <1>1 DEF Calm, Stay, Move, Reading

LEMMA CalmDecision ==
  ASSUME StartPurge \/ Reopen \/ Retry \/ Rest \/ Decide \/ Dispatch
           \/ ResumeSteered
  PROVE  Calm
<1>1. /\ UNCHANGED ledger /\ batch' = batch
      /\ pc \in Reading \ {"wrapup", "purge"}
      /\ pc' \in (Reading \ {"wrapup"}) \cup {"tick", "sleep", "exiting"}
  BY DEF StartPurge, Reopen, Retry, Rest, Decide, Dispatch, ResumeSteered,
         ledger, row, ghosts, inbox, Reading
<1>2. \/ spend' = spend /\ pc' # "purge"
      \/ /\ pc \in {"settled", "decide"} /\ pc' = "purge"
         /\ \E c \in OfKind(batch, PurgeKinds) : spend' = {c}
  BY DEF StartPurge, Reopen, Retry, Rest, Decide, Dispatch, ResumeSteered, pass
<1>3. pc' = "turn" => read' # {}
  <2> SUFFICES ASSUME pc' = "turn" PROVE read' # {}
    OBVIOUS
  <2>1. PICK chat \in Chats : IsOrigin(batch, chat) /\ read' = RenderedForTurn(batch, chat)
    BY DEF StartPurge, Reopen, Retry, Rest, Decide, Dispatch, ResumeSteered
  <2> QED BY <2>1 DEF IsOrigin, RenderedForTurn
<1> QED BY <1>1, <1>2, <1>3 DEF Calm, Stay, Move, Reading

LEMMA CalmPass ==
  ASSUME TurnFailed \/ StartWrapUp \/ AbortPurge \/ PurgeTailFails
  PROVE  Calm
<1>1. CASE TurnFailed
  BY <1>1 DEF TurnFailed, PassOver, Calm, Stay, Move, ledger, row, ghosts, inbox,
              Reading
<1>2. CASE StartWrapUp
  <2>1. \/ spend' = spend /\ pc' = "tick"
        \/ pc' = "wrapup" /\ spend' \in SUBSET OfKind(batch, {"policy"})
    BY <1>2 DEF StartWrapUp, PolicyIds
  <2> QED
    BY <1>2, <2>1 DEF StartWrapUp, Calm, Stay, Move, ledger, row, ghosts, inbox, Reading
<1>3. CASE AbortPurge \/ PurgeTailFails
  BY <1>3 DEF AbortPurge, PurgeTailFails, Fault, Calm, Stay, Move, ledger, row,
              ghosts, inbox, pass, Reading
<1> QED BY <1>1, <1>2, <1>3

LEMMA StepShape ==
  ASSUME [Next]_vars
  PROVE  \/ \E c \in Changes : Append(c)
         \/ Calm \/ Lost \/ Loaded
         \/ WriteBack \/ CompleteTurn("tick") \/ CompleteTurn("steered")
         \/ CompleteWrapUp \/ CommitPurge \/ PurgeDone \/ PurgeFailed
<1>1. ASSUME NEW c \in Changes, Ring(c) PROVE Calm
  BY <1>1 DEF Ring, WakeAgent, Calm, Stay, Move, ledger, row, ghosts, inbox, pass
<1>2. CASE StartupRefeed \/ UNCHANGED vars
  BY <1>2 DEF StartupRefeed, WakeAgent, vars, Calm, Stay, Move, ledger, row, ghosts,
              inbox, pass
<1>3. CASE Crash \/ Exit
  BY <1>3 DEF Crash, Exit, NoMemory, Apply, PassOver, Lost, row, ghosts
<1>4. CASE Build
  BY <1>4 DEF Build, NoMemory, Apply, PassOver, Lost, Loaded, row, ghosts, pass
<1>5. CASE IdleStep
  BY <1>5, <1>3, <1>4, CalmRefresh, CalmDecision, Zenon DEF IdleStep
<1>6. CASE TurnStep
  BY <1>6, CalmRefresh, CalmDecision, CalmPass, Zenon DEF TurnStep
<1>7. CASE PassStep
  BY <1>7, CalmWait, CalmPass, Zenon DEF PassStep
<1>8. CASE Next
  BY <1>8, <1>1, <1>2, <1>3, <1>5, <1>6, <1>7, CalmWait, Zenon DEF Next
<1> QED BY <1>2, <1>8

-----------------------------------------------------------------------------
(***************************************************************************)
(* The ledger: what is told has been sent and has left the accumulation,   *)
(* at every place that holds a context (the row, the agent, a write that   *)
(* waits), and what a pass is about to spend is what it was started for.   *)
(***************************************************************************)
AllSent ==
  /\ pending \subseteq sent /\ stored.told \subseteq sent
  /\ mem.told \subseteq sent /\ wiped \subseteq sent /\ spend \subseteq sent
  /\ \A w \in unsaved : w.snap.told \subseteq sent

Untold ==
  /\ pending \cap stored.told = {} /\ pending \cap mem.told = {}
  /\ \A w \in unsaved : pending \cap w.snap.told \subseteq w.consumed

Fresh == pc \in Reading => batch \subseteq pending

Spends ==
  /\ pc = "wrapup" => spend \subseteq OfKind(pending, {"policy"})
  /\ pc = "purge" \/ (pc = "purgeFailed" /\ "tail" \notin Faults)
       => \E c \in OfKind(pending, PurgeKinds) : spend = {c}
  /\ \A w \in unsaved : OfKind(w.consumed, RequestKinds) = {}

Chapters ==
  /\ stored.chapter <= minted /\ mem.chapter <= minted
  /\ \A w \in unsaved : w.snap.chapter <= minted

LedgerInv == AllSent /\ Untold /\ Fresh /\ Spends /\ Chapters

LEMMA LedgerInit == Init => LedgerInv
<1> SUFFICES ASSUME Init PROVE LedgerInv
  OBVIOUS
<1>1. /\ pending = {} /\ stored = Blank /\ mem = Blank /\ unsaved = {}
      /\ spend = {} /\ wiped = {} /\ minted = 0 /\ pc = "absent"
  BY DEF Init
<1> QED BY <1>1 DEF LedgerInv, AllSent, Untold, Fresh, Spends, Chapters, Blank,
                    Reading

\* A Turn reads what it consumes, no more and no less.
LEMMA RenderedIsConsumed ==
  ASSUME NEW S \in SUBSET Changes, NEW chat
  PROVE  RenderedForTurn(S, chat) = ConsumedForTurn(S, chat)
<1>1. RenderedForTurn(S, chat) \subseteq ConsumedForTurn(S, chat)
  BY DEF RenderedForTurn, ConsumedForTurn, Waking, OfKind, WakeKinds,
         RequestKinds, PurgeKinds
<1> QED BY <1>1, ConsumedIsRendered

LEMMA TurnFacts ==
  ASSUME TypeOK, ReadInv, LedgerInv, pc = "turn"
  PROVE  /\ ConsumedForTurn(batch, origin) = read
         /\ read \subseteq pending
         /\ OfKind(read, RequestKinds) = {}
         /\ Answered.chapter = mem.chapter
         /\ Answered.told = mem.told \cup read
<1>1. ConsumedForTurn(batch, origin) = read
  BY RenderedIsConsumed DEF ReadInv, TypeOK, InboxType
<1>2. batch \subseteq pending
  BY DEF LedgerInv, Fresh, Reading
<1>3. read \subseteq pending /\ OfKind(read, RequestKinds) = {}
  BY <1>1, <1>2 DEF ConsumedForTurn, OfKind
<1>4. Answered.chapter = mem.chapter /\ Answered.told = mem.told \cup read
  BY DEF Answered, TypeOK, HeldType, Snapshots
<1> QED BY <1>1, <1>3, <1>4

LEMMA LedgerAppend ==
  ASSUME LedgerInv, NEW c \in Changes, Append(c)
  PROVE  LedgerInv'
<1>1. /\ c \notin sent /\ sent' = sent \cup {c} /\ pending' = pending \cup {c}
      /\ UNCHANGED <<stored, mem, unsaved, spend, wiped, minted, batch, pc>>
  BY DEF Append, pass, ghosts, inbox
<1> QED BY <1>1 DEF LedgerInv, AllSent, Untold, Fresh, Spends, Chapters, OfKind

LEMMA LedgerCalm ==
  ASSUME LedgerInv, Calm
  PROVE  LedgerInv'
<1>1. UNCHANGED <<pending, stored, sent, mem, unsaved, minted, retired, wiped>>
  BY DEF Calm, ledger
<1>2. CASE Stay
  BY <1>1, <1>2 DEF Stay, LedgerInv, AllSent, Untold, Fresh, Spends, Chapters,
                    OfKind, Reading
<1>3. CASE Move
  <2>1. Fresh'
    BY <1>1, <1>3 DEF Move, LedgerInv, Fresh
  <2>2. spend' \subseteq sent /\ Spends'
    BY <1>1, <1>3 DEF Move, LedgerInv, AllSent, Fresh, Spends, OfKind, Reading
  <2> QED BY <1>1, <2>1, <2>2 DEF LedgerInv, AllSent, Untold, Chapters
<1> QED BY <1>2, <1>3 DEF Calm

LEMMA LedgerLost ==
  ASSUME TypeOK, LedgerInv, Lost \/ Loaded
  PROVE  LedgerInv'
<1>1. CASE Lost
  BY <1>1 DEF Lost, Blank, TypeOK, HistoryType, LedgerInv, AllSent, Untold,
              Fresh, Spends, Chapters, Reading
<1>2. CASE Loaded
  BY <1>2 DEF Loaded, LedgerInv, AllSent, Untold, Fresh, Spends, Chapters, Reading
<1> QED BY <1>1, <1>2

\* A write, whether or not its answer arrives.
LEMMA WriteOutcome ==
  ASSUME NEW snap, NEW consumed,
         Persisted(snap, consumed) \/ PersistFailed(snap, consumed)
  PROVE  \/ Written(snap, consumed)
         \/ UNCHANGED <<pending, stored, retired>>
BY DEF Persisted, PersistFailed, row

LEMMA LedgerWritten ==
  ASSUME LedgerInv, NEW snap, NEW consumed,
         snap.told \subseteq sent, pending \cap snap.told \subseteq consumed,
         snap.chapter <= minted', 
         Persisted(snap, consumed) \/ PersistFailed(snap, consumed)
  PROVE  /\ pending' \subseteq pending
         /\ stored'.told \subseteq sent
         /\ pending' \cap stored'.told = {}
         /\ stored'.chapter <= minted' \/ stored' = stored
<1>1. CASE Written(snap, consumed)
  BY <1>1 DEF Written
<1>2. CASE UNCHANGED <<pending, stored, retired>>
  BY <1>2 DEF LedgerInv, AllSent, Untold
<1> QED BY <1>1, <1>2, WriteOutcome

LEMMA LedgerWriteBack ==
  ASSUME TypeOK, LedgerInv, WriteBack
  PROVE  LedgerInv'
<1>1. PICK w \in unsaved :
        /\ Persisted(w.snap, w.consumed) \/ PersistFailed(w.snap, w.consumed)
        /\ \/ mem' = w.snap /\ unsaved' = {} /\ pending' = pending \ w.consumed
           \/ mem' = mem /\ unsaved' = unsaved
  BY DEF WriteBack, Apply, Unapplied, Persisted, Written
<1>2. /\ UNCHANGED <<sent, spend, minted, wiped, pc>> /\ pc = "tick"
  BY DEF WriteBack, pass
<1>3. /\ w.snap.told \subseteq sent /\ pending \cap w.snap.told \subseteq w.consumed
      /\ w.snap.chapter <= minted
  BY DEF LedgerInv, AllSent, Untold, Chapters
<1>4. /\ pending' \subseteq pending /\ stored'.told \subseteq sent
      /\ pending' \cap stored'.told = {}
      /\ stored'.chapter <= minted' \/ stored' = stored
  BY <1>1, <1>2, <1>3, LedgerWritten
<1>5. AllSent' /\ Chapters'
  BY <1>1, <1>2, <1>3, <1>4 DEF LedgerInv, AllSent, Chapters
<1>6. Untold'
  BY <1>1, <1>2, <1>3, <1>4 DEF LedgerInv, Untold
<1>7. Fresh' /\ Spends'
  BY <1>1, <1>2 DEF LedgerInv, Fresh, Spends, Reading
<1> QED BY <1>5, <1>6, <1>7 DEF LedgerInv

LEMMA LedgerCompleteTurn ==
  ASSUME TypeOK, ReadInv, LedgerInv, NEW next \in {"tick", "steered"},
         CompleteTurn(next)
  PROVE  LedgerInv'
<1>1. /\ pc = "turn" /\ pc' = next /\ spend' = {}
      /\ UNCHANGED <<sent, minted, wiped>>
  BY DEF CompleteTurn, PassOver
<1>2. /\ ConsumedForTurn(batch, origin) = read
      /\ read \subseteq pending /\ OfKind(read, RequestKinds) = {}
      /\ Answered.chapter = mem.chapter
      /\ Answered.told = mem.told \cup read
  BY <1>1, TurnFacts
<1>3. /\ Answered.told \subseteq sent /\ pending \cap Answered.told \subseteq read
      /\ Answered.chapter <= minted'
  BY <1>1, <1>2 DEF LedgerInv, AllSent, Untold, Chapters
<1>4. \/ /\ Persisted(Answered, read) /\ mem' = Answered
         /\ UNCHANGED unsaved
      \/ /\ PersistFailed(Answered, read) /\ mem' = mem
         /\ unsaved' = {[snap |-> Answered, consumed |-> read]}
      \/ UNCHANGED <<pending, stored, mem, unsaved>>
  BY <1>2 DEF CompleteTurn, Apply, Unapplied, row
<1>5. Fresh' /\ Spends'
  BY <1>1, <1>2, <1>4 DEF LedgerInv, Fresh, Spends, Reading
<1>6. CASE UNCHANGED <<pending, stored, mem, unsaved>>
  BY <1>1, <1>5, <1>6 DEF LedgerInv, AllSent, Untold, Chapters
<1>7. CASE Persisted(Answered, read) \/ PersistFailed(Answered, read)
  <2>1. /\ pending' \subseteq pending /\ stored'.told \subseteq sent
        /\ pending' \cap stored'.told = {}
        /\ stored'.chapter <= minted' \/ stored' = stored
    BY <1>3, <1>7, LedgerWritten
  <2>2. Persisted(Answered, read) => pending' = pending \ read
    BY DEF Persisted, Written
  <2>3. AllSent' /\ Chapters'
    BY <1>1, <1>3, <1>4, <2>1 DEF LedgerInv, AllSent, Chapters
  <2>4. Untold'
    BY <1>2, <1>4, <2>1, <2>2 DEF LedgerInv, Untold
  <2> QED BY <1>5, <2>3, <2>4 DEF LedgerInv
<1> QED BY <1>4, <1>6, <1>7

LEMMA NextChapterIsNew ==
  ASSUME TypeOK, LedgerInv
  PROVE  /\ NextChapter.told = {} /\ NextChapter.chapter = minted + 1
         /\ minted \in Nat
         /\ stored.chapter \in Nat /\ mem.chapter \in Nat
         /\ stored.chapter <= minted /\ mem.chapter <= minted
         /\ NextChapter.chapter # stored.chapter
BY DEF TypeOK, HistoryType, RowType, HeldType, Snapshots, NextChapter, LedgerInv, Chapters

LEMMA LedgerCompleteWrapUp ==
  ASSUME TypeOK, LedgerInv, CompleteWrapUp
  PROVE  LedgerInv'
<1>1. /\ pc' = "tick" /\ spend' = {} /\ minted' = minted + 1
      /\ UNCHANGED <<sent, unsaved, wiped>>
      /\ mem' \in {mem, NextChapter}
      /\ Persisted(NextChapter, spend) \/ PersistFailed(NextChapter, spend)
  BY DEF CompleteWrapUp, PassOver, Apply, Unapplied
<1>2. /\ NextChapter.told = {} /\ NextChapter.chapter = minted + 1
      /\ minted \in Nat
      /\ stored.chapter \in Nat /\ mem.chapter \in Nat
      /\ stored.chapter <= minted /\ mem.chapter <= minted
  BY NextChapterIsNew
<1>3. /\ NextChapter.told \subseteq sent /\ NextChapter.chapter <= minted'
      /\ pending \cap NextChapter.told \subseteq spend
  BY <1>1, <1>2
<1>4. /\ pending' \subseteq pending /\ stored'.told \subseteq sent
      /\ pending' \cap stored'.told = {}
      /\ stored'.chapter <= minted' \/ stored' = stored
  BY <1>1, <1>3, LedgerWritten
<1>5. AllSent' /\ Untold'
  BY <1>1, <1>2, <1>4 DEF LedgerInv, AllSent, Untold
<1>6. Fresh' /\ Spends'
  BY <1>1, <1>4 DEF LedgerInv, Fresh, Spends, Reading
<1>7. \A w \in unsaved : w.snap.chapter \in Nat
  BY DEF TypeOK, HeldType, Snapshots
<1>8. Chapters'
  BY <1>1, <1>2, <1>4, <1>7 DEF LedgerInv, Chapters
<1> QED BY <1>5, <1>6, <1>8 DEF LedgerInv

\* What the wipe's transaction does, for a purge with the agent surface and for
\* a sweep.
LEMMA CommitPurgeShape ==
  ASSUME TypeOK, CommitPurge
  PROVE  /\ pc = "purge" /\ pc' = "purged"
         /\ UNCHANGED <<sent, mem, unsaved>>
         /\ stored'.told \subseteq stored.told
         /\ \/ /\ OfKind(spend, {"purge"}) = {}
               /\ spend' = spend /\ pending' = pending \ spend
               /\ stored' = stored
               /\ retired' = retired \cup OfKind(spend, RequestKinds)
               /\ UNCHANGED <<minted, wiped>>
            \/ /\ OfKind(spend, {"purge"}) # {}
               /\ stored' = NextChapter /\ minted' = minted + 1
               /\ \E gone \in SUBSET OfKind(pending, WakeKinds) :
                    /\ spend' = spend \cup gone
                    /\ pending' = pending \ (spend \cup gone)
                    /\ wiped' = wiped \cup stored.told \cup gone
               /\ retired' = retired \cup OfKind(spend', RequestKinds)
                               \cup (IF NextChapter.chapter # stored.chapter THEN stored.told
                                                                            ELSE {})
<1>1. pc = "purge" /\ pc' = "purged" /\ UNCHANGED <<sent, mem, unsaved>>
  BY DEF CommitPurge
<1>2. CASE OfKind(spend, {"purge"}) = {}
  <2>1. spend' = spend /\ Written(stored, spend) /\ UNCHANGED <<minted, wiped>>
    BY <1>2 DEF CommitPurge, Persisted
  <2> QED BY <1>1, <1>2, <2>1 DEF Written
<1>3. CASE OfKind(spend, {"purge"}) # {}
  <2>1. PICK gone \in SUBSET OfKind(pending, WakeKinds) :
          /\ spend' = spend \cup gone
          /\ Written(NextChapter, spend') /\ minted' = minted + 1
          /\ wiped' = wiped \cup stored.told \cup gone
    BY <1>3 DEF CommitPurge, Persisted
  <2> QED BY <1>1, <1>3, <2>1 DEF Written, NextChapter
<1> QED BY <1>2, <1>3

LEMMA LedgerCommitPurge ==
  ASSUME TypeOK, LedgerInv, CommitPurge
  PROVE  LedgerInv'
<1>1. /\ pc' = "purged" /\ UNCHANGED <<sent, mem, unsaved>>
      /\ stored'.told \subseteq stored.told
      /\ pending' \subseteq pending
      /\ spend' \subseteq sent /\ wiped' \subseteq sent
  <2>1. CASE spend' = spend /\ pending' = pending \ spend /\ wiped' = wiped
    BY <2>1, CommitPurgeShape DEF LedgerInv, AllSent
  <2>2. CASE \E gone \in SUBSET OfKind(pending, WakeKinds) :
               /\ spend' = spend \cup gone
               /\ pending' = pending \ (spend \cup gone)
               /\ wiped' = wiped \cup stored.told \cup gone
    BY <2>2, CommitPurgeShape DEF LedgerInv, AllSent, OfKind
  <2> QED BY <2>1, <2>2, CommitPurgeShape
<1>2. \/ stored' = stored /\ minted' = minted
      \/ stored' = NextChapter /\ minted' = minted + 1
  BY CommitPurgeShape
<1>3. AllSent' /\ Untold' /\ Fresh' /\ Spends'
  BY <1>1 DEF LedgerInv, AllSent, Untold, Fresh, Spends, Reading
<1>4. minted \in Nat /\ \A w \in unsaved : w.snap.chapter \in Nat
  BY DEF TypeOK, HistoryType, HeldType, Snapshots
<1>5. Chapters'
  BY <1>1, <1>2, <1>4, NextChapterIsNew DEF LedgerInv, Chapters
<1> QED BY <1>3, <1>5 DEF LedgerInv

LEMMA LedgerPurgeDone ==
  ASSUME TypeOK, LedgerInv, PurgeDone
  PROVE  LedgerInv'
<1>1. /\ pc' = "tick" /\ spend' = {}
      /\ UNCHANGED <<pending, stored, sent, unsaved, wiped>>
      /\ \/ mem' = mem /\ minted' = minted
         \/ mem' = NextChapter /\ minted' = minted + 1
  BY DEF PurgeDone, AfterPurge, PassOver, row
<1>2. minted \in Nat /\ \A w \in unsaved : w.snap.chapter \in Nat
  BY DEF TypeOK, HistoryType, HeldType, Snapshots
<1>3. AllSent' /\ Untold' /\ Fresh' /\ Spends'
  BY <1>1, NextChapterIsNew DEF LedgerInv, AllSent, Untold, Fresh, Spends, Reading
<1>4. Chapters'
  BY <1>1, <1>2, NextChapterIsNew DEF LedgerInv, Chapters
<1> QED BY <1>3, <1>4 DEF LedgerInv

LEMMA LedgerPurgeFailed ==
  ASSUME TypeOK, LedgerInv, PurgeFailed
  PROVE  LedgerInv'
<1> DEFINE entry == OfKind(spend, PurgeKinds)
<1>1. /\ pc' = "tick" /\ spend' = {}
      /\ UNCHANGED <<sent, mem, unsaved, minted, wiped>>
      /\ Persisted(mem, entry) \/ PersistFailed(mem, entry)
  BY DEF PurgeFailed, PassOver
<1>2. /\ mem.told \subseteq sent /\ pending \cap mem.told \subseteq entry
      /\ mem.chapter <= minted'
  BY <1>1 DEF LedgerInv, AllSent, Untold, Chapters
<1>3. /\ pending' \subseteq pending /\ stored'.told \subseteq sent
      /\ pending' \cap stored'.told = {}
      /\ stored'.chapter <= minted' \/ stored' = stored
  BY <1>1, <1>2, LedgerWritten
<1>4. AllSent' /\ Untold'
  BY <1>1, <1>3 DEF LedgerInv, AllSent, Untold
<1>5. Fresh' /\ Spends' /\ Chapters'
  BY <1>1, <1>3 DEF LedgerInv, Fresh, Spends, Chapters, Reading
<1> QED BY <1>4, <1>5 DEF LedgerInv

LEMMA LedgerStep ==
  ASSUME TypeOK, ReadInv, LedgerInv, [Next]_vars
  PROVE  LedgerInv'
BY StepShape, LedgerAppend, LedgerCalm, LedgerLost, LedgerWriteBack,
   LedgerCompleteTurn, LedgerCompleteWrapUp, LedgerCommitPurge, LedgerPurgeDone,
   LedgerPurgeFailed

LEMMA LedgerKept == Spec => [](TypeOK /\ ReadInv /\ LedgerInv)
<1>1. Init => TypeOK /\ ReadInv /\ LedgerInv
  BY InitType, ReadInit, LedgerInit
<1>2. TypeOK /\ ReadInv /\ LedgerInv /\ [Next]_vars => (TypeOK /\ ReadInv /\ LedgerInv)'
  BY TypeStep, ReadStep, LedgerStep
<1> QED BY <1>1, <1>2, PTL DEF Spec

(***************************************************************************)
(* No Turn is handed a change that the stored chapter already tells,       *)
(* whatever write was lost, answered late or retried, and whenever the     *)
(* agent was restarted (on_complete, persist, refresh_batch).  The batch   *)
(* stays inside the accumulation from the refresh to the end of the Turn,  *)
(* and what any context tells has left the accumulation.                   *)
(***************************************************************************)
THEOREM NothingIsReadTwice == Spec => []NoChangeIsReadTwice
<1>1. TypeOK /\ ReadInv /\ LedgerInv => NoChangeIsReadTwice
  <2> SUFFICES ASSUME TypeOK, ReadInv, LedgerInv, pc = "turn"
               PROVE  read \cap stored.told = {}
    BY DEF NoChangeIsReadTwice
  <2>1. read \subseteq pending
    BY TurnFacts
  <2> QED BY <2>1 DEF LedgerInv, Untold
<1> QED BY <1>1, LedgerKept, PTL

LEMMA PolicyStep ==
  ASSUME TypeOK, ReadInv, LedgerInv, [Next]_vars,
         OfKind(pending \ pending', {"policy"}) # {}
  PROVE  stored'.chapter # stored.chapter
<1>1. PICK c \in pending : c \notin pending' /\ KindOf[c] = "policy"
  BY DEF OfKind
<1>2. ASSUME NEW d \in Changes, Append(d) PROVE FALSE
  BY <1>1, <1>2 DEF Append
<1>3. ~Calm /\ ~Lost /\ ~Loaded /\ ~PurgeDone
  BY <1>1 DEF Calm, ledger, Lost, Loaded, PurgeDone, row
<1>4. ~WriteBack
  <2> SUFFICES ASSUME WriteBack PROVE FALSE
    OBVIOUS
  <2>1. PICK w \in unsaved : pending' = pending \ w.consumed \/ pending' = pending
    BY DEF WriteBack, Persisted, PersistFailed, Written, row
  <2> QED BY <1>1, <2>1 DEF LedgerInv, Spends, OfKind, RequestKinds
<1>5. ASSUME NEW next \in {"tick", "steered"} PROVE ~CompleteTurn(next)
  <2> SUFFICES ASSUME CompleteTurn(next) PROVE FALSE
    OBVIOUS
  <2>1. pending' = pending \ ConsumedForTurn(batch, origin) \/ pending' = pending
    BY DEF CompleteTurn, Persisted, PersistFailed, Written, row
  <2> QED BY <1>1, <2>1 DEF ConsumedForTurn, RequestKinds
<1>6. ~PurgeFailed
  <2> SUFFICES ASSUME PurgeFailed PROVE FALSE
    OBVIOUS
  <2>1. pending' = pending \ OfKind(spend, PurgeKinds) \/ pending' = pending
    BY DEF PurgeFailed, Persisted, PersistFailed, Written, row
  <2> QED BY <1>1, <2>1 DEF OfKind, PurgeKinds
<1>7. CASE CompleteWrapUp
  <2>1. stored' = NextChapter \/ pending' = pending
    BY <1>7 DEF CompleteWrapUp, Persisted, PersistFailed, Written, row
  <2> QED BY <1>1, <2>1, NextChapterIsNew
<1>8. CASE CommitPurge
  <2>1. ~ (pending' = pending \ spend)
    BY <1>1, <1>8 DEF LedgerInv, Spends, CommitPurge, OfKind, PurgeKinds
  <2>2. stored' = NextChapter
    BY <1>8, <2>1, CommitPurgeShape
  <2> QED BY <2>2, NextChapterIsNew
<1> QED BY <1>2, <1>3, <1>4, <1>5, <1>6, <1>7, <1>8, StepShape

(***************************************************************************)
(* A stricter content policy leaves the row only together with the chapter *)
(* it was queued to close: no Turn, sweep, failed purge or retried write   *)
(* ever takes its entry along (consumed_for_turn, policy_ids,              *)
(* on_purge_done).                                                         *)
(***************************************************************************)
THEOREM PolicyIsNeverDropped == Spec => PolicyClosesTheChapter
<1>1. TypeOK /\ ReadInv /\ LedgerInv /\ [Next]_vars
        => (OfKind(pending \ pending', {"policy"}) # {}
              => stored'.chapter # stored.chapter)
  BY PolicyStep
<1> QED BY <1>1, LedgerKept, PTL DEF Spec, PolicyClosesTheChapter

-----------------------------------------------------------------------------
(***************************************************************************)
(* Every change is accounted for.  With steering on, a failed write may be *)
(* overtaken by the Turn that steering chains to it, and the change it     *)
(* consumed is then told by nobody (the run finding_steered_write): the    *)
(* theorem holds where that chain and that failure do not meet.            *)
(***************************************************************************)
SafeWrites == Steering => Faults \cap {"write", "reply"} = {}

\* One write waits at most, and the next tick is bound to take it up.
Waits == /\ unsaved # {} => pc = "tick"
         /\ \A v, w \in unsaved : v = w

\* What will be written into the stored chapter tells all that it tells.
Covers ==
  /\ pc \notin {"absent", "new"} /\ unsaved = {} /\ mem.chapter = stored.chapter
       => stored.told \subseteq mem.told
  /\ \A w \in unsaved :
       /\ w.consumed \subseteq w.snap.told
       /\ w.snap.chapter = stored.chapter => stored.told \subseteq w.snap.told

AccountInv == Waits /\ Covers /\ EveryChangeIsAccounted

LEMMA AccountInit == Init => AccountInv
BY DEF Init, AccountInv, Waits, Covers, EveryChangeIsAccounted, Blank

LEMMA AccountUnwritten ==
  ASSUME TypeOK, LedgerInv, AccountInv,
         (\E c \in Changes : Append(c)) \/ Calm \/ Lost \/ Loaded
  PROVE  AccountInv'
<1>1. ASSUME NEW c \in Changes, Append(c) PROVE AccountInv'
  BY <1>1 DEF Append, ghosts, AccountInv, Waits, Covers, EveryChangeIsAccounted
<1>2. CASE Calm
  <2>1. UNCHANGED <<pending, stored, sent, mem, unsaved, retired, wiped>>
    BY <1>2 DEF Calm, ledger
  <2>2. \/ pc' = pc \/ (pc = "absent" /\ pc' = "new")
        \/ pc \notin {"absent", "new"} /\ (pc = "tick" => unsaved = {})
    BY <1>2 DEF Calm, Stay, Move
  <2> QED BY <2>1, <2>2 DEF AccountInv, Waits, Covers, EveryChangeIsAccounted
<1>3. CASE Lost
  BY <1>3 DEF Lost, AccountInv, Waits, Covers, EveryChangeIsAccounted
<1>4. CASE Loaded
  BY <1>4 DEF Loaded, AccountInv, Waits, Covers, EveryChangeIsAccounted
<1> QED BY <1>1, <1>2, <1>3, <1>4

LEMMA AccountWritten ==
  ASSUME LedgerInv, EveryChangeIsAccounted, NEW snap, NEW consumed,
         Persisted(snap, consumed) \/ PersistFailed(snap, consumed),
         UNCHANGED <<sent, wiped>>,
         snap.told \subseteq sent,
         OfKind(consumed, RequestKinds) \subseteq sent,
         consumed \ OfKind(consumed, RequestKinds) \subseteq snap.told,
         snap.chapter = stored.chapter => stored.told \subseteq snap.told
  PROVE  EveryChangeIsAccounted'
<1>1. CASE UNCHANGED <<pending, stored, retired>>
  BY <1>1 DEF EveryChangeIsAccounted
<1>2. CASE Written(snap, consumed)
  <2>1. /\ stored'.told = snap.told /\ pending' = pending \ consumed
        /\ \/ retired' = retired \cup OfKind(consumed, RequestKinds) \cup stored.told
           \/ /\ retired' = retired \cup OfKind(consumed, RequestKinds)
              /\ stored.told \subseteq snap.told
    BY <1>2 DEF Written
  <2>2. pending \subseteq sent /\ stored.told \subseteq sent
    BY DEF LedgerInv, AllSent
  <2> QED BY <2>1, <2>2 DEF EveryChangeIsAccounted
<1> QED BY <1>1, <1>2, WriteOutcome

LEMMA AccountWriteBack ==
  ASSUME TypeOK, LedgerInv, AccountInv, WriteBack
  PROVE  AccountInv'
<1>1. PICK w \in unsaved :
        /\ Persisted(w.snap, w.consumed) \/ PersistFailed(w.snap, w.consumed)
        /\ \/ mem' = w.snap /\ unsaved' = {} /\ stored' = w.snap
           \/ mem' = mem /\ unsaved' = unsaved
  BY DEF WriteBack, Apply, Unapplied, Persisted, Written
<1>2. /\ UNCHANGED <<sent, wiped, pc>> /\ pc = "tick"
  BY DEF WriteBack
<1>3. /\ w.snap.told \subseteq sent /\ w.consumed \subseteq w.snap.told
      /\ OfKind(w.consumed, RequestKinds) = {}
      /\ w.snap.chapter = stored.chapter => stored.told \subseteq w.snap.told
  BY DEF LedgerInv, AllSent, Spends, AccountInv, Covers
<1>4. EveryChangeIsAccounted'
  BY <1>1, <1>2, <1>3, AccountWritten DEF AccountInv
<1>5. stored' \in {stored, w.snap}
  BY <1>1, WriteOutcome DEF Written
<1>6. Waits' /\ Covers'
  BY <1>1, <1>2, <1>5 DEF AccountInv, Waits, Covers
<1> QED BY <1>4, <1>6 DEF AccountInv

LEMMA AccountCompleteTurn ==
  ASSUME SafeWrites, TypeOK, ReadInv, LedgerInv, AccountInv,
         NEW next \in {"tick", "steered"}, CompleteTurn(next)
  PROVE  AccountInv'
<1>1. /\ pc = "turn" /\ pc' = next /\ unsaved = {}
      /\ UNCHANGED <<sent, wiped>>
  BY DEF CompleteTurn, AccountInv, Waits
<1>2. /\ ConsumedForTurn(batch, origin) = read
      /\ read \subseteq pending /\ OfKind(read, RequestKinds) = {}
      /\ Answered.chapter = mem.chapter
      /\ Answered.told = mem.told \cup read
  BY <1>1, TurnFacts
<1>3. /\ Answered.told \subseteq sent
      /\ Answered.chapter = stored.chapter => stored.told \subseteq mem.told
  BY <1>1, <1>2 DEF LedgerInv, AllSent, AccountInv, Covers
<1>4. CASE UNCHANGED <<pending, stored, mem, unsaved, retired>>
  BY <1>1, <1>4 DEF AccountInv, Waits, Covers, EveryChangeIsAccounted
<1>5. CASE Persisted(Answered, read) /\ mem' = Answered /\ UNCHANGED unsaved
  <2>1. stored' = Answered
    BY <1>5 DEF Persisted, Written
  <2>2. EveryChangeIsAccounted'
    BY <1>1, <1>2, <1>3, <1>5, AccountWritten DEF AccountInv
  <2> QED BY <1>1, <1>5, <2>1, <2>2 DEF AccountInv, Waits, Covers
<1>6. CASE /\ PersistFailed(Answered, read) /\ mem' = mem
           /\ unsaved' = {[snap |-> Answered, consumed |-> read]}
  <2>1. next = "tick"
    BY <1>6 DEF SafeWrites, CompleteTurn, PersistFailed, Fault
  <2>2. EveryChangeIsAccounted'
    BY <1>1, <1>2, <1>3, <1>6, AccountWritten DEF AccountInv
  <2>3. stored' \in {stored, Answered}
    BY <1>6, WriteOutcome DEF Written
  <2>4. \A w \in unsaved' : w.snap = Answered /\ w.consumed = read
    BY <1>6
  <2>5. Waits'
    BY <1>1, <1>6, <2>1 DEF Waits
  <2>6. Covers'
    <3>1. unsaved' # {} /\ read \subseteq Answered.told
      BY <1>2, <1>6
    <3>2. Answered.chapter = stored'.chapter => stored'.told \subseteq Answered.told
      BY <1>2, <1>3, <2>3
    <3> QED BY <2>4, <3>1, <3>2 DEF Covers
  <2> QED BY <2>2, <2>5, <2>6 DEF AccountInv
<1>7. \/ UNCHANGED <<pending, stored, mem, unsaved, retired>>
      \/ Persisted(Answered, read) /\ mem' = Answered /\ UNCHANGED unsaved
      \/ /\ PersistFailed(Answered, read) /\ mem' = mem
         /\ unsaved' = {[snap |-> Answered, consumed |-> read]}
  BY <1>2 DEF CompleteTurn, Apply, Unapplied, row
<1> QED BY <1>4, <1>5, <1>6, <1>7

LEMMA AccountCompleteWrapUp ==
  ASSUME TypeOK, LedgerInv, AccountInv, CompleteWrapUp
  PROVE  AccountInv'
<1>1. /\ pc = "wrapup" /\ pc' = "tick" /\ unsaved = {}
      /\ UNCHANGED <<sent, wiped, unsaved>>
      /\ \/ Persisted(NextChapter, spend) /\ mem' = NextChapter
         \/ PersistFailed(NextChapter, spend) /\ mem' = mem
  BY DEF CompleteWrapUp, Apply, Unapplied, AccountInv, Waits
<1>2. /\ OfKind(spend, RequestKinds) = spend /\ spend \subseteq sent
  BY <1>1 DEF LedgerInv, AllSent, Spends, OfKind, RequestKinds
<1>3. EveryChangeIsAccounted'
  BY <1>1, <1>2, NextChapterIsNew, AccountWritten DEF AccountInv
<1>4. \/ stored' = NextChapter /\ mem' \in {mem, NextChapter}
      \/ stored' = stored /\ mem' = mem
  BY <1>1, WriteOutcome DEF Persisted, Written
<1>5. Covers'
  BY <1>1, <1>4, NextChapterIsNew DEF AccountInv, Covers
<1> QED BY <1>1, <1>3, <1>5 DEF AccountInv, Waits

LEMMA AccountCommitPurge ==
  ASSUME TypeOK, LedgerInv, AccountInv, CommitPurge
  PROVE  AccountInv'
<1>1. /\ pc = "purge" /\ pc' = "purged" /\ unsaved = {}
      /\ UNCHANGED <<sent, mem, unsaved>>
  BY CommitPurgeShape DEF AccountInv, Waits
<1>2. /\ OfKind(spend, RequestKinds) = spend
      /\ spend \subseteq sent /\ pending \subseteq sent /\ stored.told \subseteq sent
  BY <1>1 DEF LedgerInv, AllSent, Spends, OfKind, RequestKinds
<1>3. CASE stored' = stored
  <2>1. /\ UNCHANGED wiped /\ pending' = pending \ spend
        /\ retired' = retired \cup spend
    BY <1>2, <1>3, CommitPurgeShape, NextChapterIsNew
  <2> QED
    BY <1>1, <1>2, <1>3, <2>1 DEF AccountInv, Waits, Covers, EveryChangeIsAccounted
<1>4. CASE stored' = NextChapter
  <2>1. PICK gone \in SUBSET OfKind(pending, WakeKinds) :
          /\ spend' = spend \cup gone
          /\ pending' = pending \ (spend \cup gone)
          /\ wiped' = wiped \cup stored.told \cup gone
          /\ retired' = retired \cup OfKind(spend', RequestKinds) \cup stored.told
    BY <1>4, CommitPurgeShape, NextChapterIsNew
  <2>2. OfKind(spend', RequestKinds) = spend
    BY <1>2, <2>1 DEF OfKind, WakeKinds, RequestKinds, PurgeKinds
  <2>3. EveryChangeIsAccounted'
    BY <1>1, <1>2, <1>4, <2>1, <2>2, NextChapterIsNew
       DEF AccountInv, EveryChangeIsAccounted, OfKind
  <2> QED BY <1>1, <1>4, <2>3, NextChapterIsNew DEF AccountInv, Waits, Covers
<1> QED BY <1>3, <1>4, CommitPurgeShape

LEMMA AccountEndPurge ==
  ASSUME TypeOK, LedgerInv, AccountInv, PurgeDone \/ PurgeFailed
  PROVE  AccountInv'
<1>1. CASE PurgeDone
  <2>1. /\ UNCHANGED <<pending, stored, sent, unsaved, retired, wiped>>
        /\ pc = "purged" /\ mem' \in {mem, NextChapter}
    BY <1>1 DEF PurgeDone, AfterPurge, row
  <2> QED BY <2>1, NextChapterIsNew DEF AccountInv, Waits, Covers,
                                        EveryChangeIsAccounted
<1>2. CASE PurgeFailed
  <2> DEFINE entry == OfKind(spend, PurgeKinds)
  <2>1. /\ pc = "purgeFailed" /\ pc' = "tick" /\ unsaved = {}
        /\ UNCHANGED <<sent, wiped, mem, unsaved>>
        /\ Persisted(mem, entry) \/ PersistFailed(mem, entry)
    BY <1>2 DEF PurgeFailed, AccountInv, Waits
  <2>2. /\ mem.told \subseteq sent /\ OfKind(entry, RequestKinds) = entry
        /\ entry \subseteq sent
        /\ mem.chapter = stored.chapter => stored.told \subseteq mem.told
    BY <2>1 DEF LedgerInv, AllSent, AccountInv, Covers, OfKind, RequestKinds
  <2>3. EveryChangeIsAccounted'
    BY <2>1, <2>2, AccountWritten DEF AccountInv
  <2>4. stored' \in {stored, mem}
    BY <2>1, WriteOutcome DEF Written
  <2> QED BY <2>1, <2>3, <2>4 DEF AccountInv, Waits, Covers
<1> QED BY <1>1, <1>2

LEMMA AccountStep ==
  ASSUME SafeWrites, TypeOK, ReadInv, LedgerInv, AccountInv, [Next]_vars
  PROVE  AccountInv'
BY StepShape, AccountUnwritten, AccountWriteBack, AccountCompleteTurn,
   AccountCompleteWrapUp, AccountCommitPurge, AccountEndPurge

(***************************************************************************)
(* Whatever was committed to the accumulation is still pending, told by    *)
(* the stored chapter, or left with a closed chapter, a carried out        *)
(* request or a purge, through every interleaving of rings, restarts, lost *)
(* answers and retried writes -- unless a Turn that steering chained       *)
(* overtakes a write that failed (on_complete, persist, idle_tick).        *)
(***************************************************************************)
THEOREM NoChangeIsLost ==
  ASSUME SafeWrites
  PROVE  Spec => []EveryChangeIsAccounted
<1>1. Init => AccountInv
  BY AccountInit
<1>2. TypeOK /\ ReadInv /\ LedgerInv /\ AccountInv /\ [Next]_vars => AccountInv'
  BY AccountStep
<1>3. AccountInv => EveryChangeIsAccounted
  BY DEF AccountInv
<1> QED BY <1>1, <1>2, <1>3, LedgerKept, PTL DEF Spec

-----------------------------------------------------------------------------
(***************************************************************************)
(* What a purge deleted.  A purge that fails after its commit, or whose    *)
(* task dies there, leaves the agent with the chapter the row no longer    *)
(* has, and the agent writes it back (the run finding_purge_tail): the     *)
(* theorem is about the purges that reach their end.                       *)
(***************************************************************************)
PurgesEnd == Faults \cap {"tail", "panic"} = {}

\* The row is wiped and the agent has not started its new chapter yet.
Wiping == pc = "purged" /\ OfKind(spend, {"purge"}) # {}

PurgeInv ==
  /\ wiped \cap pending = {} /\ wiped \cap stored.told = {}
  /\ ~Wiping => wiped \cap mem.told = {}
  /\ \A w \in unsaved : wiped \cap w.snap.told = {}

LEMMA PurgeInit == Init => PurgeInv
BY DEF Init, PurgeInv

LEMMA WipingKept ==
  ASSUME PurgesEnd, Calm
  PROVE  Wiping => Wiping'
BY DEF PurgesEnd, Calm, Stay, Move, Wiping

LEMMA PurgeStep ==
  ASSUME PurgesEnd, TypeOK, ReadInv, LedgerInv, WaitInv, PurgeInv, [Next]_vars
  PROVE  PurgeInv'
<1>1. ASSUME NEW c \in Changes, Append(c) PROVE PurgeInv'
  <2>1. /\ c \notin sent /\ pending' = pending \cup {c}
        /\ UNCHANGED <<stored, mem, unsaved, spend, wiped, pc>>
    BY <1>1 DEF Append, pass, ghosts
  <2> QED BY <2>1 DEF PurgeInv, Wiping, LedgerInv, AllSent
<1>2. CASE Calm
  BY <1>2, WipingKept DEF Calm, ledger, PurgeInv
<1>3. CASE Lost \/ Loaded
  BY <1>3 DEF Lost, Loaded, PurgeInv, Blank, Wiping
<1>4. CASE WriteBack
  <2>1. PICK w \in unsaved :
          /\ pending' \subseteq pending /\ stored' \in {stored, w.snap}
          /\ \/ mem' = w.snap /\ unsaved' = {}
             \/ mem' = mem /\ unsaved' = unsaved
    BY <1>4 DEF WriteBack, Apply, Unapplied, Persisted, PersistFailed, Written, row
  <2>2. UNCHANGED wiped /\ ~Wiping
    BY <1>4 DEF WriteBack, Wiping
  <2> QED BY <2>1, <2>2 DEF PurgeInv
<1>5. ASSUME NEW next \in {"tick", "steered"}, CompleteTurn(next) PROVE PurgeInv'
  <2>1. pc = "turn" /\ UNCHANGED wiped
    BY <1>5 DEF CompleteTurn
  <2>2. /\ pending' \subseteq pending /\ stored' \in {stored, Answered}
        /\ \/ mem' = Answered /\ unsaved' = unsaved
           \/ mem' = mem /\ unsaved' = unsaved
           \/ mem' = mem /\ \A w \in unsaved' : w.snap = Answered
    BY <1>5 DEF CompleteTurn, Apply, Unapplied, Persisted, PersistFailed, Written, row
  <2>3. wiped \cap Answered.told = {}
    BY <2>1, TurnFacts DEF PurgeInv, Wiping
  <2> QED BY <2>1, <2>2, <2>3 DEF PurgeInv, Wiping
<1>6. CASE CompleteWrapUp
  <2>1. /\ pc = "wrapup" /\ UNCHANGED <<wiped, unsaved>>
        /\ pending' \subseteq pending /\ stored' \in {stored, NextChapter}
        /\ mem' \in {mem, NextChapter}
    BY <1>6 DEF CompleteWrapUp, Apply, Unapplied, Persisted, PersistFailed, Written, row
  <2> QED BY <2>1, NextChapterIsNew DEF PurgeInv, Wiping
<1>7. CASE CommitPurge
  <2>1. /\ pc = "purge" /\ pc' = "purged" /\ unsaved = {} /\ ~Wiping
        /\ UNCHANGED <<mem, unsaved>>
    BY <1>7, CommitPurgeShape DEF WaitInv, Wiping
  <2>2. CASE OfKind(spend, {"purge"}) = {}
    BY <1>7, <2>1, <2>2, CommitPurgeShape, NextChapterIsNew DEF PurgeInv, Wiping
  <2>3. CASE OfKind(spend, {"purge"}) # {}
    <3>1. PICK gone \in SUBSET OfKind(pending, WakeKinds) :
            /\ spend' = spend \cup gone
            /\ pending' = pending \ (spend \cup gone)
            /\ wiped' = wiped \cup stored.told \cup gone
            /\ stored' = NextChapter
      BY <1>7, <2>3, CommitPurgeShape
    <3>2. Wiping'
      BY <2>1, <2>3, <3>1 DEF Wiping, OfKind
    <3> QED BY <2>1, <3>1, <3>2, NextChapterIsNew DEF PurgeInv, LedgerInv, Untold
  <2> QED BY <2>2, <2>3
<1>8. CASE PurgeDone
  <2>1. /\ UNCHANGED <<pending, stored, unsaved, wiped>>
        /\ Wiping => mem' = NextChapter
        /\ mem' \in {mem, NextChapter}
    BY <1>8 DEF PurgeDone, AfterPurge, Wiping, row
  <2> QED BY <2>1, NextChapterIsNew DEF PurgeInv
<1>9. CASE PurgeFailed
  <2>1. /\ pc = "purgeFailed" /\ UNCHANGED <<mem, unsaved, wiped>>
        /\ pending' \subseteq pending /\ stored' \in {stored, mem}
    BY <1>9 DEF PurgeFailed, Persisted, PersistFailed, Written, row
  <2> QED BY <2>1 DEF PurgeInv, Wiping
<1> QED BY <1>1, <1>2, <1>3, <1>4, <1>5, <1>6, <1>7, <1>8, <1>9, StepShape

(***************************************************************************)
(* What a purge deleted never comes back into the stored chapter, as long  *)
(* as the purge reaches its end: no agent, waiting write or restart brings *)
(* it back (wipe, on_purge_done, start_new_chapter).                       *)
(***************************************************************************)
THEOREM DeletedStaysDeleted ==
  ASSUME PurgesEnd
  PROVE  Spec => []PurgedStaysGone
<1>1. Init => WaitInv /\ PurgeInv
  BY WaitInit, PurgeInit
<1>2. TypeOK /\ ReadInv /\ LedgerInv /\ WaitInv /\ PurgeInv /\ [Next]_vars
        => (WaitInv /\ PurgeInv)'
  BY WaitStep, PurgeStep
<1>3. PurgeInv => PurgedStaysGone
  BY DEF PurgeInv, PurgedStaysGone
<1> QED BY <1>1, <1>2, <1>3, LedgerKept, PTL DEF Spec

-----------------------------------------------------------------------------
(***************************************************************************)
(* The row keeps the contract of Accumulation.  The agent may hold more    *)
(* than the row tells only where it still holds a chapter that a write     *)
(* without an answer closed; a write that waits is either in the row       *)
(* already or still adds what it consumed to what the agent holds.         *)
(***************************************************************************)
MemRel ==
  /\ stored.told \subseteq mem.told
  /\ mem.chapter # stored.chapter => stored.told = {}
  /\ "reply" \notin Faults => mem.told = stored.told

InRow(w) == stored = w.snap /\ pending \cap w.consumed = {}

ToWrite(w) ==
  /\ w.consumed \subseteq pending /\ w.consumed # {}
  /\ w.snap.chapter = mem.chapter
  /\ w.snap.told = mem.told \cup w.consumed
  /\ MemRel

RowInv ==
  /\ OfKind(stored.told, RequestKinds) = {} /\ OfKind(mem.told, RequestKinds) = {}
  /\ pc \notin {"absent", "new", "purged"} /\ unsaved = {} => MemRel
  /\ pc = "purged" => IF Wiping THEN stored.told = {} ELSE MemRel
  /\ \A w \in unsaved : InRow(w) \/ ToWrite(w)
  /\ pc = "turn" => read # {}

\* Every variable of the contract is left alone.
Stutter == UNCHANGED <<sent, pending, stored.told, retired \cup wiped>>

\* A write that ends a Turn or a pass is an answer, a spending or a closing.
AnswerStep == \E S \in SUBSET Changes : Promise!Answer(S)
SpendStep  == \E S \in SUBSET Changes : Promise!Spend(S)
CloseStep  == \E S \in SUBSET Changes : Promise!Close(S)

ContractStep ==
  \/ \E c \in Changes : Promise!Append(c)
  \/ AnswerStep \/ SpendStep \/ CloseStep \/ Stutter

LEMMA RowInit == Init => RowInv /\ Promise!Init
<1> SUFFICES ASSUME Init PROVE RowInv /\ Promise!Init
  OBVIOUS
<1>1. /\ pending = {} /\ sent = {} /\ retired = {} /\ wiped = {} /\ unsaved = {}
      /\ stored = Blank /\ mem = Blank /\ pc = "absent"
  BY DEF Init
<1> QED BY <1>1 DEF RowInv, Promise!Init, Blank, OfKind

LEMMA RowAppend ==
  ASSUME LedgerInv, AccountInv, RowInv, NEW c \in Changes, Append(c)
  PROVE  RowInv' /\ Promise!Append(c)
<1>1. /\ c \notin sent /\ sent' = sent \cup {c} /\ pending' = pending \cup {c}
      /\ UNCHANGED <<stored, mem, unsaved, spend, read, retired, wiped, pc>>
  BY DEF Append, pass, ghosts
<1>2. \A w \in unsaved : c \notin w.consumed
  BY <1>1 DEF LedgerInv, AllSent, AccountInv, Covers
<1>3. MemRel' = MemRel /\ Wiping' = Wiping
  BY <1>1 DEF MemRel, Wiping, OfKind
<1>4. \A w \in unsaved' : (InRow(w) \/ ToWrite(w))'
  BY <1>1, <1>2, <1>3 DEF RowInv, InRow, ToWrite
<1>5. RowInv'
  BY <1>1, <1>3, <1>4 DEF RowInv, OfKind
<1>6. Promise!Append(c)
  BY <1>1 DEF Promise!Append
<1> QED BY <1>5, <1>6

\* What the agent tells beyond the row was retired with the chapter it tells of.
LEMMA HeldIsRetired ==
  ASSUME TypeOK, LedgerInv, AccountInv, RowInv
  PROVE  mem.told \ stored.told
           \in SUBSET ((retired \cup wiped) \ OfKind(Changes, RequestKinds))
<1>1. mem.told \subseteq Changes
  BY DEF TypeOK, HeldType, Snapshots
<1>2. OfKind(mem.told, RequestKinds) = {}
  BY DEF RowInv
<1>3. mem.told \subseteq sent /\ mem.told \cap pending = {}
  BY DEF LedgerInv, AllSent, Untold
<1> QED BY <1>1, <1>2, <1>3 DEF AccountInv, EveryChangeIsAccounted, OfKind

\* The chapter the row is given tells what the contract lets it tell again.
LEMMA HeldIsResumed ==
  ASSUME TypeOK, LedgerInv, AccountInv, RowInv, MemRel, NEW S
  PROVE  mem.told \cup S \in Promise!Resumed(stored.told \cup S)
<1> DEFINE extra == mem.told \ stored.told
<1>1. extra \in SUBSET ((retired \cup wiped) \ OfKind(Changes, RequestKinds))
  BY HeldIsRetired
<1>2. mem.told \cup S = (stored.told \cup S) \cup extra
  BY DEF MemRel
<1>3. CASE "reply" \in Faults
  BY <1>1, <1>2, <1>3 DEF Promise!Resumed
<1>4. CASE "reply" \notin Faults
  BY <1>4 DEF Promise!Resumed, MemRel
<1> QED BY <1>3, <1>4

LEMMA AnswerWritten ==
  ASSUME TypeOK, LedgerInv, AccountInv, RowInv, MemRel,
         NEW snap, NEW S \in SUBSET Changes,
         S \subseteq pending, S # {}, OfKind(S, RequestKinds) = {},
         snap.chapter = mem.chapter, snap.told = mem.told \cup S,
         Written(snap, S), UNCHANGED <<sent, wiped>>
  PROVE  AnswerStep
<1>1. /\ pending' = pending \ S /\ stored'.told = mem.told \cup S
      /\ (retired \cup wiped)' = retired \cup wiped
  BY DEF Written, MemRel
<1>2. S \subseteq pending \ OfKind(Changes, RequestKinds)
  BY DEF OfKind
<1>3. stored'.told \in Promise!Resumed(stored.told \cup S)
  BY <1>1, HeldIsResumed
<1>4. Promise!Answer(S)
  BY <1>1, <1>2, <1>3 DEF Promise!Answer
<1> QED BY <1>4 DEF AnswerStep

LEMMA RowCalm ==
  ASSUME PurgesEnd, TypeOK, LedgerInv, AccountInv, RowInv, Calm
  PROVE  RowInv' /\ Stutter
<1>1. UNCHANGED <<pending, stored, sent, mem, unsaved, retired, wiped>>
  BY DEF Calm, ledger
<1>2. MemRel' = MemRel /\ \A w \in unsaved' : (InRow(w) \/ ToWrite(w))'
  BY <1>1 DEF RowInv, InRow, ToWrite, MemRel
<1>3. pc' = "turn" => read' # {}
  BY DEF Calm, RowInv
<1>4. ASSUME Stay PROVE RowInv'
  BY <1>1, <1>2, <1>3, <1>4 DEF Stay, RowInv, Wiping, OfKind
<1>5. ASSUME Move PROVE RowInv'
  <2>1. pc \notin {"absent", "new", "purged"} /\ pc' # "purged"
    BY <1>5 DEF Move, PurgesEnd
  <2>2. pc' \notin {"absent", "new", "purged"} /\ unsaved' = {} => MemRel'
    BY <1>1, <1>2, <2>1 DEF RowInv
  <2> QED BY <1>1, <1>2, <1>3, <2>1, <2>2 DEF RowInv, OfKind
<1> QED BY <1>1, <1>4, <1>5 DEF Calm, Stutter

LEMMA RowLost ==
  ASSUME AccountInv, RowInv, Lost \/ Loaded
  PROVE  RowInv' /\ Stutter
<1>1. CASE Lost
  BY <1>1 DEF Lost, Blank, RowInv, Stutter, OfKind
<1>2. CASE Loaded
  BY <1>2 DEF Loaded, RowInv, Stutter, MemRel, AccountInv, Waits
<1> QED BY <1>1, <1>2

LEMMA RowWriteBack ==
  ASSUME TypeOK, LedgerInv, AccountInv, RowInv, WriteBack
  PROVE  RowInv' /\ (AnswerStep \/ Stutter)
<1>1. PICK w \in unsaved :
        \/ Written(w.snap, w.consumed) /\ mem' = w.snap /\ unsaved' = {}
        \/ Written(w.snap, w.consumed) /\ mem' = mem /\ unsaved' = unsaved
        \/ UNCHANGED <<pending, stored, retired, mem, unsaved>>
  BY DEF WriteBack, Apply, Unapplied, Persisted, PersistFailed, row
<1>2. UNCHANGED <<sent, wiped, pc>> /\ pc = "tick" /\ \A v \in unsaved : v = w
  BY DEF WriteBack, AccountInv, Waits
<1>3. /\ w.consumed \in SUBSET Changes /\ OfKind(w.consumed, RequestKinds) = {}
      /\ InRow(w) \/ ToWrite(w)
  BY DEF TypeOK, HeldType, LedgerInv, Spends, RowInv
<1>4. OfKind(w.snap.told, RequestKinds) = {}
  BY <1>3 DEF RowInv, InRow, ToWrite, OfKind
<1>5. CASE UNCHANGED <<pending, stored, retired, mem, unsaved>>
  BY <1>2, <1>5 DEF RowInv, InRow, ToWrite, MemRel, Stutter
<1>6. CASE Written(w.snap, w.consumed)
  <2>1. stored' = w.snap /\ pending' = pending \ w.consumed
    BY <1>6 DEF Written
  <2>2. ASSUME mem' = w.snap, unsaved' = {} PROVE RowInv'
    BY <1>2, <1>4, <2>1, <2>2 DEF RowInv, MemRel, OfKind
  <2>3. ASSUME mem' = mem, unsaved' = unsaved PROVE RowInv'
    <3>1. \A v \in unsaved' : InRow(v)'
      BY <1>2, <2>1, <2>3 DEF InRow
    <3> QED BY <1>2, <1>4, <2>1, <2>3, <3>1 DEF RowInv, OfKind
  <2>4. ASSUME InRow(w) PROVE Stutter
    <3>1. stored' = stored /\ pending' = pending /\ retired' = retired
      BY <1>3, <1>6, <2>4 DEF InRow, Written
    <3> QED BY <1>2, <3>1 DEF Stutter
  <2>5. ASSUME ToWrite(w) PROVE AnswerStep
    <3>1. /\ MemRel /\ w.consumed \subseteq pending /\ w.consumed # {}
          /\ w.snap.chapter = mem.chapter
          /\ w.snap.told = mem.told \cup w.consumed
      BY <2>5 DEF ToWrite
    <3>2. UNCHANGED <<sent, wiped>>
      BY <1>2
    <3> QED BY <1>3, <1>6, <3>1, <3>2, AnswerWritten
  <2> QED BY <1>1, <1>3, <2>1, <2>2, <2>3, <2>4, <2>5
<1> QED BY <1>1, <1>5, <1>6

LEMMA RowCompleteTurn ==
  ASSUME SafeWrites, TypeOK, ReadInv, LedgerInv, AccountInv, RowInv,
         NEW next \in {"tick", "steered"}, CompleteTurn(next)
  PROVE  RowInv' /\ (AnswerStep \/ Stutter)
<1>1. /\ pc = "turn" /\ pc' = next /\ unsaved = {} /\ MemRel /\ read # {}
      /\ UNCHANGED <<sent, wiped>>
  BY DEF CompleteTurn, AccountInv, Waits, RowInv
<1>2. /\ ConsumedForTurn(batch, origin) = read
      /\ read \subseteq pending /\ OfKind(read, RequestKinds) = {}
      /\ Answered.chapter = mem.chapter
      /\ Answered.told = mem.told \cup read
  BY <1>1, TurnFacts
<1>3. read \in SUBSET Changes /\ OfKind(Answered.told, RequestKinds) = {}
  BY <1>2 DEF TypeOK, PassType, RowInv, OfKind
<1>4. Written(Answered, read) => AnswerStep
  BY <1>1, <1>2, <1>3, AnswerWritten
<1>5. CASE UNCHANGED <<pending, stored, mem, unsaved, retired>>
  BY <1>1, <1>5 DEF RowInv, MemRel, Stutter
<1>6. CASE Written(Answered, read) /\ mem' = Answered /\ UNCHANGED unsaved
  <2>1. stored' = Answered
    BY <1>6 DEF Written
  <2> QED BY <1>1, <1>3, <1>4, <1>6, <2>1 DEF RowInv, MemRel
<1>7. CASE /\ PersistFailed(Answered, read) /\ mem' = mem
           /\ unsaved' = {[snap |-> Answered, consumed |-> read]}
  <2>1. \A w \in unsaved' : w.snap = Answered /\ w.consumed = read
    BY <1>7
  <2>2. CASE Written(Answered, read)
    <3>1. stored' = Answered /\ pending' = pending \ read
      BY <2>2 DEF Written
    <3>2. \A w \in unsaved' : InRow(w)'
      BY <2>1, <3>1 DEF InRow
    <3> QED BY <1>1, <1>3, <1>4, <1>7, <2>2, <3>1, <3>2 DEF RowInv
  <2>3. CASE UNCHANGED <<pending, stored, retired>>
    <3>1. \A w \in unsaved' : ToWrite(w)'
      BY <1>1, <1>2, <1>7, <2>1, <2>3 DEF ToWrite, MemRel
    <3> QED BY <1>1, <1>7, <2>3, <3>1 DEF RowInv, Stutter
  <2> QED BY <1>7, <2>2, <2>3, WriteOutcome
<1>8. \/ UNCHANGED <<pending, stored, mem, unsaved, retired>>
      \/ Written(Answered, read) /\ mem' = Answered /\ UNCHANGED unsaved
      \/ /\ PersistFailed(Answered, read) /\ mem' = mem
         /\ unsaved' = {[snap |-> Answered, consumed |-> read]}
  BY <1>2 DEF CompleteTurn, Apply, Unapplied, Persisted, row
<1> QED BY <1>5, <1>6, <1>7, <1>8

LEMMA RowCompleteWrapUp ==
  ASSUME TypeOK, LedgerInv, AccountInv, RowInv, CompleteWrapUp
  PROVE  RowInv' /\ (CloseStep \/ Stutter)
<1>1. /\ pc = "wrapup" /\ pc' = "tick" /\ unsaved = {} /\ MemRel
      /\ UNCHANGED <<sent, wiped, unsaved>>
      /\ \/ Written(NextChapter, spend) /\ mem' = NextChapter
         \/ Written(NextChapter, spend) /\ mem' = mem /\ "reply" \in Faults
         \/ UNCHANGED <<pending, stored, retired, mem>>
  BY DEF CompleteWrapUp, Apply, Unapplied, Persisted, PersistFailed, Fault, row,
         AccountInv, Waits, RowInv
<1>2. /\ spend \in SUBSET Changes /\ spend \subseteq pending
      /\ OfKind(spend, RequestKinds) = spend
  BY <1>1 DEF TypeOK, PassType, LedgerInv, Spends, OfKind, RequestKinds
<1>3. CASE Written(NextChapter, spend)
  <2>1. /\ stored' = NextChapter /\ pending' = pending \ spend
        /\ retired' = retired \cup spend \cup stored.told
    BY <1>2, <1>3, NextChapterIsNew DEF Written
  <2>2. Promise!Close(spend)
    BY <1>1, <1>2, <2>1, NextChapterIsNew DEF Promise!Close
  <2>3. mem' \in {mem, NextChapter} /\ ("reply" \notin Faults => mem' = NextChapter)
    BY <1>1, <1>3, <2>1, NextChapterIsNew
  <2>4. RowInv'
    BY <1>1, <2>1, <2>3, NextChapterIsNew DEF RowInv, MemRel, OfKind
  <2> QED BY <1>2, <2>2, <2>4 DEF CloseStep
<1>4. CASE UNCHANGED <<pending, stored, retired, mem>>
  BY <1>1, <1>4 DEF RowInv, MemRel, Stutter, OfKind
<1> QED BY <1>1, <1>3, <1>4

LEMMA RowCommitPurge ==
  ASSUME TypeOK, LedgerInv, AccountInv, RowInv, CommitPurge
  PROVE  RowInv' /\ (CloseStep \/ SpendStep)
<1>1. /\ pc = "purge" /\ pc' = "purged" /\ unsaved = {} /\ MemRel
      /\ UNCHANGED <<sent, mem, unsaved>>
  BY CommitPurgeShape DEF AccountInv, Waits, RowInv
<1>2. /\ spend \in SUBSET Changes /\ spend \subseteq pending /\ spend # {}
      /\ spend \subseteq OfKind(Changes, RequestKinds)
      /\ OfKind(spend, RequestKinds) = spend
  BY <1>1 DEF TypeOK, PassType, LedgerInv, Spends, OfKind, RequestKinds
<1>3. CASE OfKind(spend, {"purge"}) = {}
  <2>1. /\ spend' = spend /\ pending' = pending \ spend /\ stored' = stored
        /\ retired' = retired \cup spend /\ UNCHANGED wiped
    BY <1>2, <1>3, CommitPurgeShape, NextChapterIsNew
  <2>2. stored.told \in Promise!Resumed(stored.told)
    <3>1. stored.told = stored.told \cup {}
      OBVIOUS
    <3> QED BY <3>1 DEF Promise!Resumed
  <2>3. Promise!Spend(spend)
    BY <1>1, <1>2, <2>1, <2>2 DEF Promise!Spend
  <2>4. MemRel' /\ ~Wiping'
    BY <1>1, <1>3, <2>1 DEF MemRel, Wiping
  <2>5. RowInv'
    BY <1>1, <2>1, <2>4 DEF RowInv, OfKind
  <2> QED BY <1>2, <2>3, <2>5 DEF SpendStep
<1>4. CASE OfKind(spend, {"purge"}) # {}
  <2>1. PICK gone \in SUBSET OfKind(pending, WakeKinds) :
          /\ spend' = spend \cup gone
          /\ pending' = pending \ (spend \cup gone)
          /\ wiped' = wiped \cup stored.told \cup gone
          /\ stored' = NextChapter
          /\ retired' = retired \cup OfKind(spend', RequestKinds) \cup stored.told
    BY <1>4, CommitPurgeShape, NextChapterIsNew
  <2>2. /\ OfKind(spend', RequestKinds) = spend
        /\ spend' \subseteq pending /\ Wiping'
    BY <1>1, <1>2, <1>4, <2>1
       DEF OfKind, WakeKinds, RequestKinds, PurgeKinds, Wiping
  <2>3. spend' \in SUBSET Changes
    BY <2>2 DEF TypeOK, RowType
  <2>4. (retired \cup wiped)' = (retired \cup wiped) \cup stored.told \cup spend'
    BY <2>1, <2>2
  <2>5. Promise!Close(spend')
    BY <1>1, <2>1, <2>2, <2>4, NextChapterIsNew DEF Promise!Close
  <2>6. RowInv'
    BY <1>1, <2>1, <2>2, NextChapterIsNew DEF RowInv, OfKind
  <2> QED BY <2>3, <2>5, <2>6 DEF CloseStep
<1> QED BY <1>3, <1>4

LEMMA RowPurgeDone ==
  ASSUME TypeOK, LedgerInv, AccountInv, RowInv, PurgeDone
  PROVE  RowInv' /\ Stutter
<1>1. /\ pc = "purged" /\ pc' = "tick"
      /\ UNCHANGED <<pending, stored, sent, unsaved, retired, wiped>>
      /\ IF Wiping THEN mem' = NextChapter ELSE mem' = mem
  BY DEF PurgeDone, AfterPurge, Wiping, row
<1>2. MemRel'
  <2>1. CASE Wiping
    BY <1>1, <2>1, NextChapterIsNew DEF RowInv, MemRel
  <2>2. CASE ~Wiping
    BY <1>1, <2>2 DEF RowInv, MemRel
  <2> QED BY <2>1, <2>2
<1>3. unsaved = {}
  BY <1>1 DEF AccountInv, Waits
<1>4. OfKind(stored'.told, RequestKinds) = {} /\ OfKind(mem'.told, RequestKinds) = {}
  BY <1>1, NextChapterIsNew DEF RowInv, OfKind
<1> QED BY <1>1, <1>2, <1>3, <1>4 DEF RowInv, Stutter, OfKind

LEMMA RowPurgeFailed ==
  ASSUME PurgesEnd, TypeOK, LedgerInv, AccountInv, RowInv, PurgeFailed
  PROVE  RowInv' /\ (SpendStep \/ Stutter)
<1>1. /\ pc = "purgeFailed" /\ pc' = "tick" /\ unsaved = {} /\ MemRel
      /\ UNCHANGED <<sent, wiped, mem, unsaved>>
  BY DEF PurgeFailed, AccountInv, Waits, RowInv
<1>2. PICK c \in OfKind(pending, PurgeKinds) : spend = {c}
  BY <1>1 DEF LedgerInv, Spends, PurgesEnd
<1>3. /\ OfKind(spend, PurgeKinds) = spend /\ OfKind(spend, RequestKinds) = spend
      /\ spend \in SUBSET Changes /\ spend \subseteq pending /\ spend # {}
      /\ spend \subseteq OfKind(Changes, RequestKinds)
  BY <1>2 DEF TypeOK, RowType, OfKind, RequestKinds
<1>4. Written(mem, spend) \/ UNCHANGED <<pending, stored, retired>>
  BY <1>3, WriteOutcome DEF PurgeFailed
<1>5. CASE Written(mem, spend)
  <2>1. /\ stored' = mem /\ pending' = pending \ spend
        /\ (retired \cup wiped)' = (retired \cup wiped) \cup spend
    BY <1>1, <1>3, <1>5 DEF Written, MemRel
  <2>2. mem.told \in Promise!Resumed(stored.told)
    <3>1. mem.told \cup {} \in Promise!Resumed(stored.told \cup {})
      BY <1>1, HeldIsResumed
    <3>2. mem.told \cup {} = mem.told /\ stored.told \cup {} = stored.told
      OBVIOUS
    <3> QED BY <3>1, <3>2
  <2>3. Promise!Spend(spend)
    BY <1>1, <1>3, <2>1, <2>2 DEF Promise!Spend
  <2>4. RowInv'
    BY <1>1, <2>1 DEF RowInv, MemRel, OfKind
  <2> QED BY <1>3, <2>3, <2>4 DEF SpendStep
<1>6. CASE UNCHANGED <<pending, stored, retired>>
  BY <1>1, <1>6 DEF RowInv, MemRel, Stutter, OfKind
<1> QED BY <1>4, <1>5, <1>6

LEMMA RowStep ==
  ASSUME SafeWrites, PurgesEnd, TypeOK, ReadInv, LedgerInv, AccountInv, RowInv,
         [Next]_vars
  PROVE  RowInv' /\ ContractStep
BY StepShape, RowAppend, RowCalm, RowLost, RowWriteBack, RowCompleteTurn,
   RowCompleteWrapUp, RowCommitPurge, RowPurgeDone, RowPurgeFailed
   DEF ContractStep

(***************************************************************************)
(* The conversation row implements Accumulation: a change leaves the       *)
(* accumulation exactly once, in the step that puts it into the stored     *)
(* chapter or in the step that carries out the request it stands for, and  *)
(* nothing else ever moves.  Where steering chains a Turn to a failed      *)
(* write, or a purge dies after its commit, the code breaks this contract  *)
(* (finding_steered_write, finding_purge_tail).                            *)
(***************************************************************************)
THEOREM RowKeepsThePromise ==
  ASSUME SafeWrites, PurgesEnd
  PROVE  Spec => KeepsThePromise
<1>1. Init => AccountInv /\ RowInv /\ Promise!Init
  BY AccountInit, RowInit
<1>2. TypeOK /\ ReadInv /\ LedgerInv /\ AccountInv /\ RowInv /\ [Next]_vars
        => (AccountInv /\ RowInv)' /\ [Promise!Next]_(Promise!vars)
  <2> SUFFICES ASSUME TypeOK, ReadInv, LedgerInv, AccountInv, RowInv, [Next]_vars
               PROVE  (AccountInv /\ RowInv)' /\ [Promise!Next]_(Promise!vars)
    OBVIOUS
  <2>1. AccountInv' /\ RowInv' /\ ContractStep
    BY AccountStep, RowStep
  <2>2. Stutter => UNCHANGED Promise!vars
    BY DEF Stutter, Promise!vars
  <2>3. ContractStep => [Promise!Next]_(Promise!vars)
    BY <2>2, Zenon DEF ContractStep, AnswerStep, SpendStep, CloseStep, Promise!Next
  <2> QED BY <2>1, <2>3
<1> QED BY <1>1, <1>2, LedgerKept, PTL DEF Spec, KeepsThePromise, Promise!Spec

-----------------------------------------------------------------------------
(***************************************************************************)
(* What the contract itself is worth: a row that keeps it loses nothing    *)
(* and tells nothing that is still to be read.                             *)
(***************************************************************************)
ContractInv ==
  /\ Promise!NothingIsLost /\ Promise!NothingIsToldAndPending
  /\ pending \cap (retired \cup wiped) = {}

LEMMA ContractStepInv ==
  ASSUME ContractInv, [Promise!Next]_(Promise!vars)
  PROVE  ContractInv'
<1> USE DEF ContractInv, Promise!NothingIsLost, Promise!NothingIsToldAndPending
<1>1. ASSUME NEW c \in Changes, Promise!Append(c) PROVE ContractInv'
  BY <1>1 DEF Promise!Append
<1>2. ASSUME NEW S \in SUBSET Changes, Promise!Answer(S) PROVE ContractInv'
  <2>1. PICK R \in SUBSET (retired \cup wiped) : stored'.told = (stored.told \cup S) \cup R
    BY <1>2 DEF Promise!Answer, Promise!Resumed
  <2> QED BY <1>2, <2>1 DEF Promise!Answer
<1>3. ASSUME NEW S \in SUBSET Changes, Promise!Spend(S) PROVE ContractInv'
  <2>1. PICK R \in SUBSET (retired \cup wiped) : stored'.told = stored.told \cup R
    BY <1>3 DEF Promise!Spend, Promise!Resumed
  <2> QED BY <1>3, <2>1 DEF Promise!Spend
<1>4. ASSUME NEW S \in SUBSET Changes, Promise!Close(S) PROVE ContractInv'
  BY <1>4 DEF Promise!Close
<1>5. CASE UNCHANGED Promise!vars
  BY <1>5 DEF Promise!vars
<1> QED BY <1>1, <1>2, <1>3, <1>4, <1>5 DEF Promise!Next

(***************************************************************************)
(* Whoever keeps the contract of Accumulation loses no change and never    *)
(* tells one that is still pending ("a context and the changes it read can *)
(* never disagree", chat-agent.md), also when the chapter stored again is  *)
(* one that an unanswered write had closed.                                *)
(***************************************************************************)
THEOREM ThePromiseIsEnough ==
  Promise!Spec => [](Promise!NothingIsLost /\ Promise!NothingIsToldAndPending)
<1>1. Promise!Init => ContractInv
  BY DEF Promise!Init, ContractInv, Promise!NothingIsLost,
         Promise!NothingIsToldAndPending
<1>2. ContractInv => Promise!NothingIsLost /\ Promise!NothingIsToldAndPending
  BY DEF ContractInv
<1> QED BY <1>1, <1>2, ContractStepInv, PTL DEF Promise!Spec

-----------------------------------------------------------------------------
(***************************************************************************)
(* The doorbell.  The permit stands for every ring since the agent last    *)
(* read the row: while the agent is awake and the permit is gone, whatever *)
(* was rung for has been fed to it.                                        *)
(***************************************************************************)
Quiet == \A c \in pending \ (fed \cup unrung) : KindOf[c] = "host"

WakeInv ==
  /\ pc = "new" => bell
  /\ pc \in {"absent", "woken"} \/ bell \/ Quiet

LEMMA WakeInit == Init => WakeInv
BY DEF Init, WakeInv

LEMMA WakeRung == ASSUME bell' PROVE WakeInv'
BY DEF WakeInv

LEMMA WakeKept ==
  ASSUME WakeInv, UNCHANGED <<bell, unrung>>, pc' = "new" => pc = "new",
         pc \in {"absent", "woken"} => pc' \in {"absent", "woken"},
         \/ fed' = fed /\ pending' \subseteq pending
         \/ fed' = pending /\ pending' = pending
  PROVE  WakeInv'
<1>1. Quiet => Quiet'
  BY DEF Quiet
<1>2. pc' \in {"absent", "woken"} \/ pc \notin {"absent", "woken"}
  OBVIOUS
<1> QED BY <1>1, <1>2, Zenon DEF WakeInv

LEMMA WakeStep ==
  ASSUME "read" \notin Faults, WakeInv, [Next]_vars
  PROVE  WakeInv'
<1>1. ASSUME NEW c \in Changes, Append(c) PROVE WakeInv'
  <2>1. /\ pending' = pending \cup {c} /\ UNCHANGED <<bell, pc, fed>>
        /\ unrung' = IF KindOf[c] = "host" THEN unrung ELSE unrung \cup {c}
    BY <1>1 DEF Append, chime, inbox
  <2>2. Quiet => Quiet'
    BY <2>1 DEF Quiet
  <2> QED BY <2>1, <2>2, Zenon DEF WakeInv
<1>2. ASSUME NEW c \in Changes, Ring(c) PROVE WakeInv'
  BY <1>2, WakeRung, Zenon DEF Ring, WakeAgent
<1>3. CASE StartupRefeed
  <2>1. CASE pending # {}
    BY <1>3, <2>1, WakeRung, Zenon DEF StartupRefeed, WakeAgent
  <2>2. CASE pending = {}
    BY <1>3, <2>2, WakeKept DEF StartupRefeed, row, inbox
  <2> QED BY <2>1, <2>2
<1>4. CASE Crash \/ Exit
  BY <1>4 DEF Crash, Exit, NoMemory, WakeInv
<1>5. CASE Build
  <2>1. pc = "new" /\ bell' = bell
    BY <1>5 DEF Build, Fault, chime
  <2> QED BY <2>1, WakeRung, Zenon DEF WakeInv
<1>6. CASE Hear \/ Deadline
  BY <1>6 DEF Hear, Deadline, WakeInv
<1>7. CASE AnswerStatus \/ StartDigest \/ FinishDigest \/ Panic
  BY <1>7, WakeKept DEF AnswerStatus, StartDigest, FinishDigest, Panic, row,
     ring, chime, inbox
<1>8. CASE WriteBack
  <2>1. /\ pc = "tick" /\ UNCHANGED <<pc, bell, unrung, fed>>
        /\ pending' \subseteq pending
    BY <1>8 DEF WriteBack, Persisted, PersistFailed, Written, Unapplied, row,
                ring, chime, inbox
  <2> QED BY <2>1, WakeKept
<1>9. CASE RefreshAwake
  <2>1. fed' = pending /\ pending' = pending /\ pc' = "decide"
    BY <1>9 DEF RefreshAwake, RefreshBatch, Fault, row
  <2> QED BY <2>1 DEF WakeInv, Quiet
<1>10. CASE Settle \/ RefreshSteered
  <2>1. /\ pc \in {"tick", "steered"} /\ pc' \in {"settled", "resume"}
        /\ UNCHANGED <<pending, bell, unrung>> /\ fed' \in {fed, pending}
    BY <1>10 DEF Settle, RefreshSteered, RefreshBatch, Fault, row, ring, chime,
                 inbox
  <2> QED BY <2>1, WakeKept
<1>11. CASE StartPurge \/ Reopen \/ Retry \/ Rest \/ Decide \/ Dispatch
              \/ ResumeSteered
  BY <1>11, WakeKept DEF StartPurge, Reopen, Retry, Rest, Decide, Dispatch,
     ResumeSteered, row, ring, chime, inbox
<1>12. ASSUME NEW next \in {"tick", "steered"}, CompleteTurn(next) PROVE WakeInv'
  <2>1. /\ pc = "turn" /\ pc' = next /\ UNCHANGED <<bell, unrung, fed>>
        /\ pending' \subseteq pending
    BY <1>12 DEF CompleteTurn, Persisted, PersistFailed, Written, Unapplied, row,
                 ring, inbox
  <2> QED BY <2>1, WakeKept
<1>13. CASE TurnFailed \/ StartWrapUp \/ AbortPurge \/ PurgeTailFails \/ PurgeDone
  BY <1>13, WakeKept DEF TurnFailed, StartWrapUp, AbortPurge, PurgeTailFails,
     PurgeDone, row, ring, chime, inbox
<1>14. CASE CompleteWrapUp
  <2>1. /\ pc = "wrapup" /\ pc' = "tick" /\ UNCHANGED <<bell, unrung, fed>>
        /\ pending' \subseteq pending
    BY <1>14 DEF CompleteWrapUp, Persisted, PersistFailed, Written, Unapplied,
                 row, ring, inbox
  <2> QED BY <2>1, WakeKept
<1>15. CASE CommitPurge
  <2>1. /\ pc = "purge" /\ pc' = "purged" /\ UNCHANGED <<bell, unrung, fed>>
        /\ pending' \subseteq pending
    BY <1>15 DEF CommitPurge, Persisted, Written, ring, chime, inbox
  <2> QED BY <2>1, WakeKept
<1>16. CASE PurgeFailed
  <2>1. /\ pc = "purgeFailed" /\ pc' = "tick" /\ UNCHANGED <<bell, unrung, fed>>
        /\ pending' \subseteq pending
    BY <1>16 DEF PurgeFailed, Persisted, PersistFailed, Written, row, ring, inbox
  <2> QED BY <2>1, WakeKept
<1>17. CASE UNCHANGED vars
  BY <1>17, WakeKept DEF vars, row, ring, chime, inbox
<1>18. CASE IdleStep
  BY <1>18, <1>4, <1>5, <1>8, <1>9, <1>10, <1>11, Zenon DEF IdleStep
<1>19. CASE TurnStep
  BY <1>19, <1>10, <1>11, <1>12, <1>13, Zenon DEF TurnStep
<1>20. CASE PassStep
  BY <1>20, <1>7, <1>13, <1>14, <1>15, <1>16, Zenon DEF PassStep
<1>21. CASE Next
  BY <1>21, <1>1, <1>2, <1>3, <1>4, <1>6, <1>7, <1>18, <1>19, <1>20, Zenon DEF Next
<1> QED BY <1>17, <1>21

(***************************************************************************)
(* A sleeping agent owes nothing to a producer: whatever was rung for and  *)
(* not fed leaves the permit standing, however many rings one permit       *)
(* stands for and whatever pass they arrived in (Doorbell, get_or_create,  *)
(* refresh_batch).  A refresh that fails after the permit was taken is the *)
(* one way to lose it, so queries are taken to succeed here.               *)
(***************************************************************************)
THEOREM NoRingIsLost ==
  ASSUME "read" \notin Faults
  PROVE  Spec => []NoLostWake
<1>1. Init => WakeInv
  BY WakeInit
<1>2. WakeInv /\ [Next]_vars => WakeInv'
  BY WakeStep
<1>3. WakeInv => NoLostWake
  BY Zenon DEF WakeInv, Quiet, NoLostWake
<1> QED BY <1>1, <1>2, <1>3, PTL DEF Spec
=============================================================================
