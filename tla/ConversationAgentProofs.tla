----------------------- MODULE ConversationAgentProofs -----------------------
(***************************************************************************)
(* Proofs about ConversationAgent for every set of Chats, changes and      *)
(* faults.  The flags are kept apart from the rest of the type invariant,  *)
(* because their updates are Boolean formulas.                             *)
(***************************************************************************)
EXTENDS ConversationAgent, TLAPS

LEMMA AnyChatType == AnyChat \in Chats
BY ChatAssumption DEF AnyChat

LEMMA BlankType == Blank \in Snapshots
BY DEF Blank, Snapshots

LEMMA OfKindType == ASSUME NEW S, NEW kinds PROVE OfKind(S, kinds) \in SUBSET S
BY DEF OfKind

-----------------------------------------------------------------------------
(***************************************************************************)
(* What the helpers of the actions do to each part of the type invariant   *)
(***************************************************************************)
LEMMA ReopenBudgetType == ReopenBudget => BudgetType'
<1> SUFFICES ASSUME ReopenBudget PROVE BudgetType'
  OBVIOUS
<1>1. left' = 2 /\ tries' = 0
  BY DEF ReopenBudget, MAX_TURN_RETRIES
<1> QED BY <1>1 DEF BudgetType, MAX_TURN_RETRIES

LEMMA FailAttemptType == BudgetType /\ FailAttempt => BudgetType'
<1> SUFFICES ASSUME BudgetType, FailAttempt PROVE BudgetType'
  OBVIOUS
<1>1. left' = (IF left > 0 THEN left - 1 ELSE 0) /\ tries' = tries
  BY DEF FailAttempt
<1> QED BY <1>1 DEF BudgetType, MAX_TURN_RETRIES

LEMMA PassOverType == PassOver => PassType'
BY AnyChatType DEF PassOver, PassType

LEMMA FaultType == ASSUME LoopType, NEW kind, Fault(kind) \/ NoFault
                   PROVE  faults' \in 0..MaxFaults
BY FaultAssumption DEF LoopType, Fault, NoFault

LEMMA WrittenType ==
  ASSUME RowType, HistoryType, NEW snap \in Snapshots,
         NEW consumed \in SUBSET Changes, Written(snap, consumed)
  PROVE  RowType' /\ retired' \subseteq Changes
BY OfKindType DEF RowType, HistoryType, Written, Snapshots

LEMMA PersistType ==
  ASSUME RowType, HistoryType, LoopType, NEW snap \in Snapshots,
         NEW consumed \in SUBSET Changes,
         Persisted(snap, consumed) \/ PersistFailed(snap, consumed)
  PROVE  RowType' /\ retired' \subseteq Changes /\ faults' \in 0..MaxFaults
<1>1. faults' \in 0..MaxFaults
  BY FaultType DEF Persisted, PersistFailed
<1>2. RowType' /\ retired' \subseteq Changes
  <2>1. CASE Written(snap, consumed)
    BY <2>1, WrittenType
  <2>2. CASE UNCHANGED <<row, retired>>
    BY <2>2 DEF row, RowType, HistoryType
  <2> QED BY <2>1, <2>2 DEF Persisted, PersistFailed
<1> QED BY <1>1, <1>2

LEMMA RefreshType ==
  ASSUME TypeOK, NEW next, RefreshBatch(next)
  PROVE  InboxType' /\ BudgetType' /\ faults' \in 0..MaxFaults
<1> USE DEF TypeOK
<1>1. faults' \in 0..MaxFaults
  BY FaultType DEF RefreshBatch
<1>2. InboxType'
  <2>1. \/ batch' = pending /\ fed' = pending
        \/ UNCHANGED <<batch, fed>>
    BY DEF RefreshBatch, inbox
  <2> QED BY <2>1 DEF RowType, InboxType
<1>3. BudgetType'
  <2>1. ReopenBudget \/ FailAttempt \/ UNCHANGED budget
    BY DEF RefreshBatch, StandDown
  <2>2. CASE UNCHANGED budget
    BY <2>2 DEF budget, BudgetType
  <2> QED BY <2>1, <2>2, ReopenBudgetType, FailAttemptType
<1> QED BY <1>1, <1>2, <1>3

LEMMA NoMemoryType ==
  ASSUME NoMemory
  PROVE  /\ HeldType' /\ InboxType' /\ BudgetType' /\ PassType'
         /\ pc' = "absent"
<1>1. HeldType'
  BY BlankType DEF NoMemory, Apply, HeldType
<1>2. InboxType' /\ pc' = "absent"
  BY DEF NoMemory, InboxType
<1> QED BY <1>1, <1>2, ReopenBudgetType, PassOverType DEF NoMemory

-----------------------------------------------------------------------------
(***************************************************************************)
(* The flags                                                               *)
(***************************************************************************)
LEMMA FlagStep == ASSUME FlagType, [Next]_vars PROVE FlagType'
<1> USE DEF FlagType, row, ring, chime, inbox, budget, pass, ghosts
<1>1. ASSUME NEW c \in Changes, Append(c) \/ Ring(c) PROVE FlagType'
  BY <1>1, Zenon DEF Append, Ring, WakeAgent
<1>2. CASE StartupRefeed \/ Crash
  BY <1>2, Zenon DEF StartupRefeed, Crash, WakeAgent, NoMemory, Apply,
                     ReopenBudget, PassOver
<1>3. CASE Hear \/ Deadline \/ AnswerStatus \/ StartDigest
  BY <1>3, Zenon DEF Hear, Deadline, AnswerStatus, StartDigest
<1>4. CASE Build \/ Exit
  BY <1>4, Zenon DEF Build, Exit, NoMemory, Apply, ReopenBudget, PassOver
<1>5. CASE WriteBack
  BY <1>5, Zenon DEF WriteBack, Apply, Unapplied, ReopenBudget, StandDown,
                     FailAttempt
<1>6. CASE Settle \/ RefreshAwake \/ RefreshSteered
  BY <1>6, Zenon DEF Settle, RefreshAwake, RefreshSteered, RefreshBatch,
                     ReopenBudget, StandDown, FailAttempt
<1>7. CASE StartPurge \/ Reopen \/ Retry \/ Rest \/ Decide
  BY <1>7, Zenon DEF StartPurge, Reopen, Retry, Rest, Decide
<1>8. CASE Dispatch \/ TurnFailed \/ ResumeSteered
  BY <1>8, Zenon DEF Dispatch, TurnFailed, ResumeSteered, StandDown,
                     FailAttempt, PassOver
<1>9. ASSUME NEW next, CompleteTurn(next) PROVE FlagType'
  BY <1>9, Zenon DEF CompleteTurn, Apply, Unapplied, ReopenBudget, StandDown,
                     FailAttempt, PassOver
<1>10. CASE StartWrapUp \/ CompleteWrapUp
  BY <1>10, Zenon DEF StartWrapUp, CompleteWrapUp, Apply, Unapplied, StandDown,
                      FailAttempt, PassOver
<1>11. CASE CommitPurge \/ AbortPurge \/ PurgeTailFails \/ PurgeDone \/ PurgeFailed
  BY <1>11, Zenon DEF CommitPurge, AbortPurge, PurgeTailFails, PurgeDone,
                      PurgeFailed, StandDown, FailAttempt, PassOver
<1>12. CASE FinishDigest \/ Panic
  BY <1>12, Zenon DEF FinishDigest, Panic, PassOver
<1>13. CASE UNCHANGED vars
  BY <1>13, Zenon DEF vars
<1> QED
  BY <1>1, <1>2, <1>3, <1>4, <1>5, <1>6, <1>7, <1>8, <1>9, <1>10, <1>11, <1>12,
     <1>13, Zenon DEF Next, IdleStep, TurnStep, PassStep

-----------------------------------------------------------------------------
(***************************************************************************)
(* Everything else                                                         *)
(***************************************************************************)
DataType ==
  /\ RowType /\ SentType /\ LoopType /\ HeldType
  /\ InboxType /\ BudgetType /\ PassType /\ HistoryType

LEMMA ProducerStep ==
  ASSUME DataType,
         \/ \E c \in Changes : Append(c) \/ Ring(c)
         \/ StartupRefeed
  PROVE  DataType'
BY DEF DataType, Append, Ring, StartupRefeed, WakeAgent, row, chime, inbox,
       budget, pass, ghosts, RowType, SentType, LoopType, HeldType, InboxType,
       BudgetType, PassType, HistoryType

LEMMA LifeStep ==
  ASSUME DataType, Build \/ Exit \/ Crash
  PROVE  DataType'
<1>1. RowType' /\ SentType' /\ HistoryType'
  BY DEF DataType, Build, Exit, Crash, row, ring, ghosts, RowType, SentType,
         HistoryType
<1>2. faults' \in 0..MaxFaults
  BY FaultType DEF DataType, Build, Exit, Crash, LoopType
<1>3. CASE NoMemory
  BY <1>1, <1>2, <1>3, NoMemoryType DEF DataType, LoopType
<1>4. CASE Build /\ ~NoMemory
  BY <1>1, <1>2, <1>4 DEF DataType, Build, budget, pass, LoopType, RowType,
                          HeldType, InboxType, BudgetType, PassType
<1> QED BY <1>3, <1>4 DEF Exit, Crash

\* Steps that move the loop and touch little else.
LEMMA ControlStep ==
  ASSUME DataType,
         \/ Hear \/ Deadline \/ AnswerStatus \/ StartDigest \/ FinishDigest
         \/ Reopen \/ Retry \/ Rest \/ Decide \/ ResumeSteered
         \/ AbortPurge \/ PurgeTailFails
  PROVE  DataType'
<1>1. faults' \in 0..MaxFaults
  BY FaultType DEF DataType, Hear, Deadline, AnswerStatus, StartDigest,
       FinishDigest, Reopen, Retry, Rest, Decide, ResumeSteered, AbortPurge,
       PurgeTailFails, LoopType
<1>2. UNCHANGED <<row, sent, ring, mem, batch, fed, left, tries, unsaved, pass, ghosts>>
  BY DEF Hear, Deadline, AnswerStatus, StartDigest, FinishDigest, Reopen,
       Retry, Rest, Decide, ResumeSteered, AbortPurge, PurgeTailFails,
       inbox, budget
<1>3. pc' \in {"woken", "tick", "digest", "reopen", "dispatch", "sleep",
               "exiting", "purgeFailed"}
  BY DEF Hear, Deadline, AnswerStatus, StartDigest, FinishDigest, Reopen,
       Retry, Rest, Decide, ResumeSteered, AbortPurge, PurgeTailFails
<1> QED
  BY <1>1, <1>2, <1>3 DEF DataType, row, ring, pass, ghosts, RowType, SentType,
       LoopType, HeldType, InboxType, BudgetType, PassType, HistoryType

LEMMA WriteBackStep == ASSUME DataType, WriteBack PROVE DataType'
<1>1. PICK w \in unsaved :
        \/ /\ Persisted(w.snap, w.consumed)
           /\ Apply(w.snap)
           /\ batch' = batch \ w.consumed
           /\ unsaved' = {}
           /\ ReopenBudget
           /\ UNCHANGED <<fed, policyDue>>
        \/ /\ PersistFailed(w.snap, w.consumed)
           /\ StandDown
           /\ Unapplied /\ UNCHANGED unsaved
  BY DEF WriteBack
<1>2. w.snap \in Snapshots /\ w.consumed \in SUBSET Changes
  BY DEF DataType, HeldType
<1>3. RowType' /\ retired' \subseteq Changes /\ faults' \in 0..MaxFaults
  BY <1>1, <1>2, PersistType DEF DataType
<1>4. BudgetType'
  BY <1>1, ReopenBudgetType, FailAttemptType DEF DataType, StandDown
<1>5. HeldType' /\ InboxType'
  BY <1>1, <1>2 DEF DataType, HeldType, InboxType, Apply, Unapplied, inbox
<1>6. SentType' /\ PassType' /\ HistoryType' /\ LoopType'
  BY <1>3 DEF DataType, WriteBack, ring, pass, SentType, PassType, HistoryType,
              LoopType
<1> QED BY <1>3, <1>4, <1>5, <1>6 DEF DataType

LEMMA RefreshStep ==
  ASSUME TypeOK, Settle \/ RefreshAwake \/ RefreshSteered
  PROVE  DataType'
<1>1. InboxType' /\ BudgetType' /\ faults' \in 0..MaxFaults
  BY RefreshType DEF Settle, RefreshAwake, RefreshSteered, TypeOK, LoopType,
       InboxType, BudgetType, inbox, budget
<1>2. pc' \in {"settled", "decide", "resume", "tick"}
  BY DEF Settle, RefreshAwake, RefreshSteered, RefreshBatch
<1>3. UNCHANGED <<row, sent, ring, mem, unsaved, pass, ghosts>>
  BY DEF Settle, RefreshAwake, RefreshSteered
<1> QED
  BY <1>1, <1>2, <1>3 DEF TypeOK, DataType, row, ring, pass, ghosts, RowType,
       SentType, LoopType, HeldType, PassType, HistoryType

LEMMA DispatchStep == ASSUME DataType, Dispatch PROVE DataType'
<1>1. faults' \in 0..MaxFaults
  BY FaultType DEF DataType, Dispatch, LoopType
<1>2. PassType'
  BY DEF DataType, Dispatch, PassType, pass, RenderedForTurn, Waking, OfKind,
         InboxType
<1>3. BudgetType'
  <2>1. \/ FailAttempt
        \/ UNCHANGED budget
        \/ tries' = tries + 1 /\ UNCHANGED <<left, owed>>
    BY DEF Dispatch, StandDown
  <2>2. CASE UNCHANGED budget
    BY <2>2 DEF DataType, BudgetType, budget
  <2>3. CASE tries' = tries + 1 /\ UNCHANGED <<left, owed>>
    BY <2>3 DEF DataType, BudgetType
  <2> QED BY <2>1, <2>2, <2>3, FailAttemptType DEF DataType
<1>4. pc' \in {"tick", "turn"} /\ UNCHANGED <<row, sent, ring, mem, batch, fed, unsaved, ghosts>>
  BY DEF Dispatch, inbox
<1> QED
  BY <1>1, <1>2, <1>3, <1>4 DEF DataType, row, ring, ghosts, RowType, SentType,
       LoopType, HeldType, InboxType, HistoryType

LEMMA CompleteTurnStep ==
  ASSUME DataType, NEW next \in {"tick", "steered"}, CompleteTurn(next)
  PROVE  DataType'
<1> DEFINE consumed == ConsumedForTurn(batch, origin)
<1>1. Answered \in Snapshots /\ consumed \in SUBSET Changes
  BY DEF DataType, Answered, Snapshots, HeldType, PassType, InboxType,
         ConsumedForTurn
<1>2. RowType' /\ retired' \subseteq Changes /\ faults' \in 0..MaxFaults
  <2>1. CASE Fault("store") /\ UNCHANGED <<row, retired>>
    BY <2>1, FaultType DEF DataType, row, RowType, HistoryType
  <2>2. CASE Persisted(Answered, consumed) \/ PersistFailed(Answered, consumed)
    BY <1>1, <2>2, PersistType DEF DataType
  <2> QED BY <2>1, <2>2 DEF CompleteTurn
<1>3. BudgetType'
  BY ReopenBudgetType, FailAttemptType DEF DataType, CompleteTurn, StandDown
<1>4. HeldType'
  BY <1>1 DEF DataType, CompleteTurn, HeldType, Apply, Unapplied
<1>5. InboxType' /\ PassType'
  BY <1>1, PassOverType DEF DataType, CompleteTurn, InboxType, Unapplied, inbox
<1>6. SentType' /\ LoopType' /\ HistoryType'
  BY <1>2 DEF DataType, CompleteTurn, ring, SentType, LoopType, HistoryType
<1> QED BY <1>2, <1>3, <1>4, <1>5, <1>6 DEF DataType

\* A pass starts or ends without a word to the database.
LEMMA PassBoundaryStep ==
  ASSUME DataType, StartPurge \/ StartWrapUp \/ TurnFailed \/ Panic
  PROVE  DataType'
<1>1. faults' \in 0..MaxFaults
  BY FaultType DEF DataType, StartPurge, StartWrapUp, TurnFailed, Panic, LoopType
<1>2. PassType'
  BY PassOverType DEF DataType, StartPurge, StartWrapUp, TurnFailed, Panic,
       PassType, InboxType, PolicyIds, OfKind
<1>3. BudgetType'
  BY FailAttemptType DEF DataType, StartPurge, StartWrapUp, TurnFailed, Panic,
       budget, BudgetType
<1>4. /\ pc' \in {"purge", "wrapup", "tick"}
      /\ UNCHANGED <<row, sent, ring, mem, batch, fed, unsaved, ghosts>>
  BY DEF StartPurge, StartWrapUp, TurnFailed, Panic, inbox
<1> QED
  BY <1>1, <1>2, <1>3, <1>4 DEF DataType, row, ring, ghosts, RowType, SentType,
       LoopType, HeldType, InboxType, HistoryType

LEMMA CompleteWrapUpStep == ASSUME DataType, CompleteWrapUp PROVE DataType'
<1>1. NextChapter \in Snapshots /\ spend \in SUBSET Changes
  BY DEF DataType, NextChapter, Snapshots, HistoryType, PassType
<1>2. RowType' /\ retired' \subseteq Changes /\ faults' \in 0..MaxFaults
  BY <1>1, PersistType DEF DataType, CompleteWrapUp
<1>3. BudgetType'
  BY FailAttemptType DEF DataType, CompleteWrapUp, StandDown, budget, BudgetType
<1>4. HeldType' /\ InboxType' /\ PassType'
  BY <1>1, PassOverType DEF DataType, CompleteWrapUp, HeldType, InboxType,
       Apply, Unapplied, inbox
<1>5. SentType' /\ LoopType' /\ HistoryType'
  BY <1>2 DEF DataType, CompleteWrapUp, ring, SentType, LoopType, HistoryType
<1> QED BY <1>2, <1>3, <1>4, <1>5 DEF DataType

LEMMA CommitPurgeStep == ASSUME DataType, CommitPurge PROVE DataType'
<1>1. PICK gone \in SUBSET pending :
        /\ spend' = spend \cup gone
        /\ \/ Persisted(NextChapter, spend') /\ minted' = minted + 1
           \/ Persisted(stored, spend') /\ UNCHANGED minted
        /\ wiped' \in SUBSET (wiped \cup stored.told \cup gone)
  BY DEF CommitPurge, OfKind
<1>2. /\ NextChapter \in Snapshots /\ stored \in Snapshots
      /\ gone \subseteq Changes /\ stored.told \subseteq Changes
      /\ spend' \in SUBSET Changes
  BY <1>1 DEF DataType, NextChapter, Snapshots, HistoryType, PassType, RowType
<1>3. RowType' /\ retired' \subseteq Changes /\ faults' \in 0..MaxFaults
  BY <1>1, <1>2, PersistType DEF DataType
<1>4. HistoryType'
  BY <1>1, <1>2, <1>3 DEF DataType, HistoryType
<1>5. SentType' /\ LoopType' /\ HeldType' /\ InboxType' /\ BudgetType' /\ PassType'
  BY <1>2, <1>3 DEF DataType, CommitPurge, ring, inbox, budget, SentType,
       LoopType, HeldType, InboxType, BudgetType, PassType
<1> QED BY <1>3, <1>4, <1>5 DEF DataType

LEMMA EndPurgeStep == ASSUME DataType, PurgeDone \/ PurgeFailed PROVE DataType'
<1>1. CASE PurgeDone
  <2>1. mem' \in Snapshots /\ minted' \in Nat
    BY <1>1 DEF DataType, PurgeDone, AfterPurge, NextChapter, Snapshots,
                HeldType, HistoryType
  <2> QED
    BY <1>1, <2>1, PassOverType DEF DataType, PurgeDone, row, ring, budget,
         RowType, SentType, LoopType, HeldType, InboxType, BudgetType,
         HistoryType
<1>2. CASE PurgeFailed
  <2>1. mem \in Snapshots /\ OfKind(spend, PurgeKinds) \in SUBSET Changes
    BY OfKindType DEF DataType, HeldType, PassType
  <2>2. RowType' /\ retired' \subseteq Changes /\ faults' \in 0..MaxFaults
    BY <1>2, <2>1, PersistType DEF DataType, PurgeFailed
  <2>3. BudgetType'
    BY <1>2, FailAttemptType DEF DataType, PurgeFailed, StandDown, budget,
         BudgetType
  <2> QED
    BY <1>2, <2>2, <2>3, PassOverType DEF DataType, PurgeFailed, ring, inbox,
         SentType, LoopType, HeldType, InboxType, HistoryType
<1> QED BY <1>1, <1>2

-----------------------------------------------------------------------------
LEMMA InitType == Init => TypeOK
<1> SUFFICES ASSUME Init PROVE TypeOK
  OBVIOUS
<1>1. RowType /\ SentType /\ HeldType
  BY BlankType DEF Init, RowType, SentType, HeldType
<1>2. InboxType /\ HistoryType
  BY DEF Init, InboxType, HistoryType
<1>3. FlagType
  BY Zenon DEF Init, FlagType
<1>4. LoopType
  <2>1. pc = "absent" /\ faults = 0
    BY DEF Init
  <2> QED BY <2>1, FaultAssumption DEF LoopType
<1>5. BudgetType
  <2>1. left = 2 /\ tries = 0
    BY DEF Init, MAX_TURN_RETRIES
  <2> QED BY <2>1 DEF BudgetType, MAX_TURN_RETRIES
<1>6. PassType
  BY AnyChatType DEF Init, PassType
<1> QED BY <1>1, <1>2, <1>3, <1>4, <1>5, <1>6 DEF TypeOK

LEMMA TypeStep == ASSUME TypeOK, [Next]_vars PROVE TypeOK'
<1>1. FlagType'
  BY FlagStep DEF TypeOK
<1>2. DataType
  BY DEF TypeOK, DataType
<1>3. CASE UNCHANGED vars
  <2>1. DataType'
    BY <1>2, <1>3 DEF DataType, vars, row, ring, inbox, budget, pass, ghosts, RowType,
         SentType, LoopType, HeldType, InboxType, BudgetType, PassType,
         HistoryType
  <2> QED BY <1>1, <2>1 DEF TypeOK, DataType
<1>4. CASE Next
  <2>1. DataType'
    BY <1>2, <1>4, ProducerStep, LifeStep, ControlStep, WriteBackStep,
       RefreshStep, DispatchStep, CompleteTurnStep, PassBoundaryStep,
       CompleteWrapUpStep, CommitPurgeStep, EndPurgeStep
       DEF Next, IdleStep, TurnStep, PassStep
  <2> QED BY <1>1, <2>1 DEF TypeOK, DataType
<1> QED BY <1>3, <1>4

(***************************************************************************)
(* Every variable keeps its type, whatever fails and whoever rings.        *)
(***************************************************************************)
THEOREM TypeCorrect == Spec => []TypeOK
BY InitType, TypeStep, PTL DEF Spec

-----------------------------------------------------------------------------
(***************************************************************************)
(* The retry budget.  AttemptsAreBounded is not inductive: the invariant   *)
(* has to relate the Turns started to the attempts left, at every place    *)
(* of the loop, and to say that a spent budget owes nothing.               *)
(***************************************************************************)
Spent == left = 0 /\ ~owed

BudgetInv ==
  /\ pc = "turn" => tries + left <= 3
  /\ pc # "turn" => tries + left <= 2 \/ (Spent /\ tries <= 3)
  /\ pc = "dispatch" => tries + left <= 2
  /\ pc \in {"dispatch", "turn"} => left > 0 \/ Spent

LEMMA BudgetRange ==
  ASSUME BudgetType PROVE left \in Nat /\ left <= 2 /\ tries \in Nat
BY DEF BudgetType, MAX_TURN_RETRIES

LEMMA FailAttemptSpends ==
  ASSUME BudgetType, FailAttempt
  PROVE  /\ tries' = tries
         /\ left > 0 => left' = left - 1
         /\ Spent => left' = left /\ Spent'
<1>1. tries' = tries /\ left' = (IF left > 0 THEN left - 1 ELSE 0)
  BY DEF FailAttempt
<1>2. ASSUME Spent PROVE left' = left /\ Spent'
  <2>1. left = 0 /\ ~owed /\ ~(left > 0)
    BY <1>2, BudgetRange DEF Spent
  <2>2. left' = 0 /\ left' = left
    BY <1>1, <2>1
  <2>3. ~owed'
    BY <2>1, Zenon DEF FailAttempt
  <2> QED BY <2>2, <2>3 DEF Spent
<1> QED BY <1>1, <1>2

LEMMA BudgetReopened ==
  ASSUME ReopenBudget, pc' \notin {"dispatch", "turn"}
  PROVE  BudgetInv'
<1>1. left' = 2 /\ tries' = 0
  BY DEF ReopenBudget, MAX_TURN_RETRIES
<1> QED BY <1>1 DEF BudgetInv

LEMMA BudgetSpent ==
  ASSUME BudgetInv, BudgetType, FailAttempt, pc' \notin {"dispatch", "turn"},
         pc = "turn" => left > 0 \/ Spent
  PROVE  BudgetInv'
<1>1. left \in Nat /\ left <= 2 /\ tries \in Nat
  BY BudgetRange
<1>2. tries' = tries
  BY FailAttemptSpends
<1>3. CASE left > 0
  <2>1. left' = left - 1
    BY <1>3, FailAttemptSpends
  <2> QED BY <1>1, <1>2, <1>3, <2>1 DEF BudgetInv, Spent
<1>4. CASE Spent
  <2>1. left' = left /\ Spent'
    BY <1>4, FailAttemptSpends
  <2>2. tries <= 3
    BY <1>1, <1>4 DEF BudgetInv, Spent
  <2> QED BY <1>1, <1>2, <2>1, <2>2 DEF BudgetInv
<1>5. CASE left = 0 /\ ~Spent
  <2>1. tries + left <= 2
    BY <1>5, <1>1 DEF BudgetInv
  <2>2. left' = 0
    BY <1>5 DEF FailAttempt
  <2> QED BY <1>1, <1>2, <1>5, <2>1, <2>2 DEF BudgetInv
<1> QED BY <1>1, <1>3, <1>4, <1>5

LEMMA BudgetKept ==
  ASSUME BudgetInv, UNCHANGED budget,
         \/ pc' = pc
         \/ pc # "turn" /\ pc' \notin {"dispatch", "turn"}
  PROVE  BudgetInv'
BY DEF BudgetInv, budget, Spent

LEMMA BudgetRefreshed ==
  ASSUME BudgetInv, BudgetType, pc # "turn",
         NEW next \in {"settled", "decide", "resume"}, RefreshBatch(next)
  PROVE  BudgetInv'
<1>1. pc' \notin {"dispatch", "turn"}
  BY DEF RefreshBatch
<1>2. ReopenBudget \/ FailAttempt \/ UNCHANGED budget
  BY DEF RefreshBatch, StandDown
<1> QED BY <1>1, <1>2, BudgetReopened, BudgetSpent, BudgetKept

LEMMA BudgetInit == Init => BudgetInv
<1> SUFFICES ASSUME Init PROVE BudgetInv
  OBVIOUS
<1>1. left = 2 /\ tries = 0 /\ pc = "absent"
  BY DEF Init, MAX_TURN_RETRIES
<1> QED BY <1>1 DEF BudgetInv

LEMMA BudgetStep ==
  ASSUME "panic" \notin Faults, TypeOK, BudgetInv, [Next]_vars
  PROVE  BudgetInv'
<1>0. BudgetType
  BY DEF TypeOK
<1>1. ASSUME NEW c \in Changes, Append(c) \/ Ring(c) PROVE BudgetInv'
  BY <1>1, BudgetKept DEF Append, Ring, WakeAgent
<1>2. CASE StartupRefeed
  BY <1>2, BudgetKept DEF StartupRefeed, WakeAgent
<1>3. CASE Crash \/ Exit
  BY <1>3, BudgetReopened DEF Crash, Exit, NoMemory
<1>4. CASE Build
  <2>1. CASE NoMemory
    BY <2>1, BudgetReopened DEF NoMemory
  <2>2. CASE ~NoMemory
    BY <1>4, <2>2, BudgetKept DEF Build
  <2> QED BY <2>1, <2>2
<1>5. CASE Hear \/ Deadline \/ AnswerStatus \/ StartDigest \/ FinishDigest
  BY <1>5, BudgetKept DEF Hear, Deadline, AnswerStatus, StartDigest, FinishDigest
<1>6. CASE StartPurge \/ Reopen \/ Rest
  BY <1>6, BudgetKept DEF StartPurge, Reopen, Rest
<1>7. CASE WriteBack
  BY <1>0, <1>7, BudgetReopened, BudgetSpent DEF WriteBack, StandDown
<1>8. CASE Settle \/ RefreshAwake \/ RefreshSteered
  BY <1>0, <1>8, BudgetRefreshed, BudgetKept DEF Settle, RefreshAwake,
     RefreshSteered
<1>9. CASE Retry
  <2>1. /\ pc = "settled" /\ pc' = "dispatch" /\ owed /\ ~owed'
        /\ UNCHANGED <<left, tries>>
    BY <1>9, Zenon DEF Retry
  <2>2. tries + left <= 2
    BY <2>1 DEF BudgetInv, Spent
  <2> QED BY <1>0, <2>1, <2>2, BudgetRange DEF BudgetInv, Spent
<1>10. CASE Decide \/ ResumeSteered
  <2>1. /\ pc # "turn" /\ UNCHANGED budget
        /\ \/ pc' = "dispatch" /\ left > 0
           \/ pc' \notin {"dispatch", "turn"}
    BY <1>10 DEF Decide, ResumeSteered
  <2>2. CASE pc' = "dispatch" /\ left > 0
    BY <1>0, <2>1, <2>2, BudgetRange DEF BudgetInv, budget, Spent
  <2> QED BY <2>1, <2>2, BudgetKept
<1>11. CASE Dispatch
  <2>1. pc = "dispatch"
    BY <1>11 DEF Dispatch
  <2>2. CASE FailAttempt /\ pc' = "tick"
    BY <1>0, <2>1, <2>2, BudgetSpent
  <2>3. CASE UNCHANGED budget /\ pc' = "tick"
    BY <2>1, <2>3, BudgetKept
  <2>4. CASE pc' = "turn" /\ tries' = tries + 1 /\ UNCHANGED <<left, owed>>
    BY <1>0, <2>1, <2>4, BudgetRange DEF BudgetInv, Spent
  <2> QED BY <1>11, <2>2, <2>3, <2>4 DEF Dispatch, StandDown
<1>12. CASE CompleteTurn("tick") \/ CompleteTurn("steered")
  <2>1. /\ pc = "turn" /\ pc' \notin {"dispatch", "turn"}
        /\ ReopenBudget \/ FailAttempt
    BY <1>12 DEF CompleteTurn, StandDown
  <2> QED BY <1>0, <2>1, BudgetReopened, BudgetSpent DEF BudgetInv
<1>13. CASE TurnFailed
  <2>1. pc = "turn" /\ pc' \notin {"dispatch", "turn"} /\ FailAttempt
    BY <1>13 DEF TurnFailed
  <2> QED BY <1>0, <2>1, BudgetSpent DEF BudgetInv
<1>14. CASE StartWrapUp \/ CommitPurge \/ AbortPurge \/ PurgeTailFails \/ PurgeDone
  BY <1>14, BudgetKept DEF StartWrapUp, CommitPurge, AbortPurge, PurgeTailFails,
     PurgeDone
<1>15. CASE CompleteWrapUp \/ PurgeFailed
  <2>1. /\ pc \notin {"dispatch", "turn"} /\ pc' \notin {"dispatch", "turn"}
        /\ UNCHANGED budget \/ FailAttempt
    BY <1>15 DEF CompleteWrapUp, PurgeFailed, StandDown
  <2> QED BY <1>0, <2>1, BudgetKept, BudgetSpent
<1>16. CASE Panic
  BY <1>16 DEF Panic, Fault
<1>17. CASE UNCHANGED vars
  BY <1>17, BudgetKept DEF vars
<1>18. CASE IdleStep
  BY <1>18, <1>4, <1>7, <1>8, <1>6, <1>9, <1>10, <1>3, Zenon DEF IdleStep
<1>19. CASE TurnStep
  BY <1>19, <1>11, <1>12, <1>13, <1>8, <1>10, Zenon DEF TurnStep
<1>20. CASE PassStep
  BY <1>20, <1>14, <1>15, <1>5, <1>16, Zenon DEF PassStep
<1>21. CASE Next
  BY <1>21, <1>1, <1>2, <1>3, <1>5, <1>18, <1>19, <1>20, Zenon DEF Next
<1> QED BY <1>17, <1>21

(***************************************************************************)
(* As long as no pass dies without a signal, at most three Turns start     *)
(* between two events that make the budget whole, however failures,        *)
(* steering, refreshes and restarts interleave.                            *)
(***************************************************************************)
THEOREM ThreeAttempts ==
  ASSUME "panic" \notin Faults
  PROVE  Spec => []AttemptsAreBounded
<1>1. Init => TypeOK /\ BudgetInv
  BY InitType, BudgetInit
<1>2. TypeOK /\ BudgetInv /\ [Next]_vars => (TypeOK /\ BudgetInv)'
  BY TypeStep, BudgetStep
<1>3. TypeOK /\ BudgetInv => AttemptsAreBounded
  <2> SUFFICES ASSUME TypeOK, BudgetInv PROVE tries <= 3
    BY DEF AttemptsAreBounded, MAX_TURN_RETRIES
  <2>1. left \in Nat /\ tries \in Nat
    BY BudgetRange DEF TypeOK
  <2> QED BY <2>1 DEF BudgetInv
<1> QED BY <1>1, <1>2, <1>3, PTL DEF Spec
-----------------------------------------------------------------------------
(***************************************************************************)
(* Requests go first.  The property is inductive as it stands: every       *)
(* action that enters one of the states it speaks of repeats its test, and *)
(* none of them is left with another batch.                                *)
(***************************************************************************)
LEMMA RequestsInit == Init => RequestsGoFirst
<1> SUFFICES ASSUME Init PROVE RequestsGoFirst
  OBVIOUS
<1>1. pc = "absent"
  BY DEF Init
<1> QED BY <1>1 DEF RequestsGoFirst

LEMMA RequestsStep ==
  ASSUME RequestsGoFirst, [Next]_vars
  PROVE  RequestsGoFirst'
<1>1. ASSUME UNCHANGED <<batch, policyDue>>, pc' = pc \/ pc' = "new"
      PROVE  RequestsGoFirst'
  BY <1>1 DEF RequestsGoFirst, HasPurge, OfKind
<1>2. ASSUME pc' \notin {"dispatch", "turn", "reopen", "wrapup"}
      PROVE  RequestsGoFirst'
  BY <1>2 DEF RequestsGoFirst
<1>3. ASSUME NEW c \in Changes, Append(c) \/ Ring(c) PROVE RequestsGoFirst'
  BY <1>1, <1>3 DEF Append, Ring, WakeAgent, inbox
<1>4. CASE StartupRefeed
  BY <1>1, <1>4 DEF StartupRefeed, WakeAgent, inbox
<1>5. CASE Crash \/ Exit \/ Build
  BY <1>2, <1>5 DEF Crash, Exit, Build, NoMemory
<1>6. CASE Hear \/ Deadline \/ AnswerStatus \/ StartDigest \/ FinishDigest
  BY <1>2, <1>6 DEF Hear, Deadline, AnswerStatus, StartDigest, FinishDigest
<1>7. CASE WriteBack
  <2>1. pc' = pc /\ pc = "tick"
    BY <1>7 DEF WriteBack
  <2> QED BY <1>2, <2>1
<1>8. CASE Settle \/ RefreshAwake \/ RefreshSteered
  BY <1>2, <1>8 DEF Settle, RefreshAwake, RefreshSteered, RefreshBatch
<1>9. CASE Reopen \/ Retry \/ Rest \/ Decide
  <2>1. /\ ~HasPurge(batch) /\ UNCHANGED <<batch, policyDue>>
        /\ pc' \in {"dispatch", "turn"} => ~policyDue
    BY <1>9 DEF Reopen, Retry, Rest, Decide, inbox
  <2> QED BY <2>1 DEF RequestsGoFirst, HasPurge, OfKind
<1>10. CASE StartPurge \/ CommitPurge \/ AbortPurge \/ PurgeTailFails
             \/ PurgeDone \/ PurgeFailed \/ Panic
  BY <1>2, <1>10 DEF StartPurge, CommitPurge, AbortPurge, PurgeTailFails,
     PurgeDone, PurgeFailed, Panic
<1>11. CASE Dispatch \/ StartWrapUp
  <2>1. /\ pc \in {"dispatch", "reopen"} /\ UNCHANGED <<batch, policyDue>>
        /\ \/ pc' = "tick"
           \/ pc = "dispatch" /\ pc' = "turn"
           \/ pc = "reopen" /\ pc' = "wrapup"
    BY <1>11 DEF Dispatch, StartWrapUp, inbox
  <2> QED BY <2>1 DEF RequestsGoFirst, HasPurge, OfKind
<1>12. CASE CompleteTurn("tick") \/ CompleteTurn("steered") \/ TurnFailed
             \/ CompleteWrapUp
  BY <1>2, <1>12 DEF CompleteTurn, TurnFailed, CompleteWrapUp
<1>13. CASE ResumeSteered
  <2>1. /\ UNCHANGED <<batch, policyDue>>
        /\ \/ pc' = "tick"
           \/ pc' = "dispatch" /\ ~HasPurge(batch) /\ ~policyDue
    BY <1>13 DEF ResumeSteered, inbox
  <2> QED BY <2>1 DEF RequestsGoFirst, HasPurge, OfKind
<1>14. CASE UNCHANGED vars
  BY <1>1, <1>14 DEF vars, inbox
<1>15. CASE IdleStep
  BY <1>15, <1>5, <1>7, <1>8, <1>9, <1>10, Zenon DEF IdleStep
<1>16. CASE TurnStep
  BY <1>16, <1>8, <1>11, <1>12, <1>13, Zenon DEF TurnStep
<1>17. CASE PassStep
  BY <1>17, <1>6, <1>10, <1>11, <1>12, Zenon DEF PassStep
<1>18. CASE Next
  BY <1>18, <1>3, <1>4, <1>5, <1>6, <1>15, <1>16, <1>17, Zenon DEF Next
<1> QED BY <1>14, <1>18

(***************************************************************************)
(* No Turn and no wrap-up ever runs over a batch that holds a purge, and   *)
(* no Turn while a stricter policy waits, whatever is steered, refreshed,  *)
(* restarted or interrupted (idle_tick and finish agree on the order).     *)
(***************************************************************************)
THEOREM RequestsFirst == Spec => []RequestsGoFirst
BY RequestsInit, RequestsStep, PTL DEF Spec

-----------------------------------------------------------------------------
(***************************************************************************)
(* A completed Turn that waits to be written.  It can only wait where the  *)
(* next tick is bound to write it first, or in the Turns that steering     *)
(* chains without a tick in between.                                       *)
(***************************************************************************)
WaitInv == unsaved # {} => pc \in {"tick", "dispatch", "turn", "steered", "resume"}

LEMMA WaitInit == Init => WaitInv
BY DEF Init, WaitInv

LEMMA WaitStep ==
  ASSUME WaitInv, [Next]_vars
  PROVE  WaitInv'
<1>1. ASSUME UNCHANGED unsaved, pc' = pc \/ pc = "absent"
      PROVE  WaitInv'
  BY <1>1 DEF WaitInv
<1>2. ASSUME unsaved' = {} PROVE WaitInv'
  BY <1>2 DEF WaitInv
<1>3. ASSUME pc' \in {"tick", "dispatch", "turn", "steered", "resume"}
      PROVE  WaitInv'
  BY <1>3 DEF WaitInv
<1>4. ASSUME UNCHANGED unsaved,
             pc \notin {"tick", "dispatch", "turn", "steered", "resume"}
      PROVE  WaitInv'
  BY <1>4 DEF WaitInv
<1>5. ASSUME NEW c \in Changes, Append(c) \/ Ring(c) PROVE WaitInv'
  BY <1>1, <1>5 DEF Append, Ring, WakeAgent
<1>6. CASE StartupRefeed
  BY <1>1, <1>6 DEF StartupRefeed, WakeAgent
<1>7. CASE Crash \/ Exit
  BY <1>2, <1>7 DEF Crash, Exit, NoMemory
<1>8. CASE Build
  BY <1>2, <1>3, <1>8 DEF Build, NoMemory
<1>9. CASE Hear \/ Deadline \/ AnswerStatus \/ StartDigest \/ FinishDigest
  BY <1>4, <1>9 DEF Hear, Deadline, AnswerStatus, StartDigest, FinishDigest
<1>10. CASE WriteBack
  BY <1>3, <1>10 DEF WriteBack
<1>11. CASE Settle
  BY <1>2, <1>11 DEF Settle
<1>12. CASE RefreshAwake \/ StartPurge \/ Reopen \/ Retry \/ Rest \/ Decide
  BY <1>4, <1>12 DEF RefreshAwake, StartPurge, Reopen, Retry, Rest, Decide
<1>13. CASE RefreshSteered \/ ResumeSteered \/ Dispatch \/ TurnFailed
             \/ CompleteTurn("tick") \/ CompleteTurn("steered")
  BY <1>3, <1>13 DEF RefreshSteered, RefreshBatch, ResumeSteered, Dispatch,
     TurnFailed, CompleteTurn
<1>14. CASE StartWrapUp \/ CompleteWrapUp \/ CommitPurge \/ AbortPurge
             \/ PurgeTailFails \/ PurgeDone \/ PurgeFailed
  BY <1>4, <1>14 DEF StartWrapUp, CompleteWrapUp, CommitPurge, AbortPurge,
     PurgeTailFails, PurgeDone, PurgeFailed
<1>15. CASE Panic
  BY <1>3, <1>15 DEF Panic
<1>16. CASE UNCHANGED vars
  BY <1>1, <1>16 DEF vars
<1>17. CASE IdleStep
  BY <1>17, <1>7, <1>8, <1>10, <1>11, <1>12, Zenon DEF IdleStep
<1>18. CASE TurnStep
  BY <1>18, <1>13, Zenon DEF TurnStep
<1>19. CASE PassStep
  BY <1>19, <1>9, <1>14, <1>15, Zenon DEF PassStep
<1>20. CASE Next
  BY <1>20, <1>5, <1>6, <1>7, <1>9, <1>17, <1>18, <1>19, Zenon DEF Next
<1> QED BY <1>16, <1>20

(***************************************************************************)
(* No wrap-up, purge or digest runs while a completed Turn is still to be  *)
(* written (idle_tick writes it before it looks at anything else).         *)
(***************************************************************************)
THEOREM WritesGoFirst == Spec => []NoPassOvertakesAWrite
<1>1. WaitInv => NoPassOvertakesAWrite
  BY DEF WaitInv, NoPassOvertakesAWrite
<1> QED BY <1>1, WaitInit, WaitStep, PTL DEF Spec

-----------------------------------------------------------------------------
(***************************************************************************)
(* What a Turn consumes.  The batch and the origin are settled when the    *)
(* Turn starts, so what it will consume is known to be what it was handed; *)
(* nothing else takes a change out of the row while it runs.               *)
(***************************************************************************)
ReadInv == pc = "turn" => read = RenderedForTurn(batch, origin)

\* What a Turn consumes of a batch is rendered in its prompt: a change that is
\* no request and no host action is a reason to wake its own Chat.
LEMMA ConsumedIsRendered ==
  ASSUME NEW S \in SUBSET Changes, NEW chat
  PROVE  ConsumedForTurn(S, chat) \subseteq RenderedForTurn(S, chat)
<1> SUFFICES ASSUME NEW c \in ConsumedForTurn(S, chat)
             PROVE  c \in RenderedForTurn(S, chat)
  OBVIOUS
<1>1. /\ c \in S /\ KindOf[c] \notin RequestKinds
      /\ ChatOf[c] = chat \/ KindOf[c] = "host"
  BY DEF ConsumedForTurn
<1>2. KindOf[c] \in Kinds
  BY <1>1, KindAssumption
<1>3. KindOf[c] \in WakeKinds \/ KindOf[c] = "host"
  BY <1>1, <1>2 DEF Kinds
<1> QED BY <1>1, <1>3 DEF RenderedForTurn, Waking, OfKind

LEMMA ReadInit == Init => ReadInv
<1> SUFFICES ASSUME Init PROVE ReadInv
  OBVIOUS
<1>1. pc = "absent"
  BY DEF Init
<1> QED BY <1>1 DEF ReadInv

LEMMA ReadStep ==
  ASSUME ReadInv, [Next]_vars
  PROVE  ReadInv'
<1>1. ASSUME UNCHANGED <<batch, origin, read>>, pc' = pc \/ pc' # "turn"
      PROVE  ReadInv'
  BY <1>1 DEF ReadInv, RenderedForTurn, Waking, OfKind
<1>2. ASSUME pc' # "turn" PROVE ReadInv'
  BY <1>2 DEF ReadInv
<1>3. ASSUME NEW c \in Changes, Append(c) \/ Ring(c) PROVE ReadInv'
  BY <1>1, <1>3 DEF Append, Ring, WakeAgent, inbox, pass
<1>4. CASE StartupRefeed
  BY <1>1, <1>4 DEF StartupRefeed, WakeAgent, inbox, pass
<1>5. CASE Crash \/ Exit \/ Build
  BY <1>2, <1>5 DEF Crash, Exit, Build, NoMemory
<1>6. CASE Hear \/ Deadline \/ AnswerStatus \/ StartDigest \/ FinishDigest
  BY <1>2, <1>6 DEF Hear, Deadline, AnswerStatus, StartDigest, FinishDigest
<1>7. CASE WriteBack
  <2>1. pc' = pc /\ pc = "tick"
    BY <1>7 DEF WriteBack
  <2> QED BY <1>2, <2>1
<1>8. CASE Settle \/ RefreshAwake \/ RefreshSteered
  BY <1>2, <1>8 DEF Settle, RefreshAwake, RefreshSteered, RefreshBatch
<1>9. CASE StartPurge \/ Reopen \/ Retry \/ Rest \/ Decide \/ ResumeSteered
  BY <1>2, <1>9 DEF StartPurge, Reopen, Retry, Rest, Decide, ResumeSteered
<1>10. CASE Dispatch
  <2>1. CASE pc' = "tick"
    BY <1>2, <2>1
  <2>2. CASE pc' = "turn" /\ read' = RenderedForTurn(batch, origin')
    <3>1. UNCHANGED batch
      BY <1>10 DEF Dispatch, inbox
    <3> QED BY <2>2, <3>1 DEF ReadInv, RenderedForTurn, Waking, OfKind
  <2> QED BY <1>10, <2>1, <2>2 DEF Dispatch
<1>11. CASE CompleteTurn("tick") \/ CompleteTurn("steered") \/ TurnFailed
             \/ StartWrapUp \/ CompleteWrapUp \/ CommitPurge \/ AbortPurge
             \/ PurgeTailFails \/ PurgeDone \/ PurgeFailed \/ Panic
  BY <1>2, <1>11 DEF CompleteTurn, TurnFailed, StartWrapUp, CompleteWrapUp,
     CommitPurge, AbortPurge, PurgeTailFails, PurgeDone, PurgeFailed, Panic
<1>12. CASE UNCHANGED vars
  BY <1>1, <1>12 DEF vars, inbox, pass
<1>13. CASE IdleStep
  BY <1>13, <1>5, <1>7, <1>8, <1>9, Zenon DEF IdleStep
<1>14. CASE TurnStep
  BY <1>14, <1>8, <1>9, <1>10, <1>11, Zenon DEF TurnStep
<1>15. CASE PassStep
  BY <1>15, <1>6, <1>11, Zenon DEF PassStep
<1>16. CASE Next
  BY <1>16, <1>3, <1>4, <1>5, <1>6, <1>13, <1>14, <1>15, Zenon DEF Next
<1> QED BY <1>12, <1>16

LEMMA TurnTakesWhatItConsumes ==
  ASSUME pc = "turn", [Next]_vars
  PROVE  pending \subseteq pending' \/ pending' = pending \ ConsumedForTurn(batch, origin)
<1>1. ASSUME NEW c \in Changes, Append(c) \/ Ring(c) PROVE pending \subseteq pending'
  BY <1>1 DEF Append, Ring, row
<1>2. CASE StartupRefeed \/ Crash \/ TurnFailed \/ Panic \/ UNCHANGED vars
  BY <1>2 DEF StartupRefeed, Crash, TurnFailed, Panic, vars, row
<1>3. CASE CompleteTurn("tick") \/ CompleteTurn("steered")
  BY <1>3 DEF CompleteTurn, Persisted, PersistFailed, Written, row
<1>4. ~ (Hear \/ Deadline \/ AnswerStatus \/ StartDigest \/ FinishDigest)
  BY DEF Hear, Deadline, AnswerStatus, StartDigest, FinishDigest
<1>5. ~IdleStep
  BY DEF IdleStep, Build, WriteBack, Settle, RefreshAwake, StartPurge, Reopen,
     Retry, Rest, Decide, Exit
<1>6. ~ (Dispatch \/ RefreshSteered \/ ResumeSteered \/ StartWrapUp
           \/ CompleteWrapUp \/ CommitPurge \/ AbortPurge \/ PurgeTailFails
           \/ PurgeDone \/ PurgeFailed)
  BY DEF Dispatch, RefreshSteered, ResumeSteered, StartWrapUp, CompleteWrapUp,
     CommitPurge, AbortPurge, PurgeTailFails, PurgeDone, PurgeFailed
<1>7. CASE TurnStep
  BY <1>7, <1>2, <1>3, <1>6, Zenon DEF TurnStep
<1>8. CASE PassStep
  BY <1>8, <1>2, <1>4, <1>6, Zenon DEF PassStep
<1>9. CASE Next
  BY <1>9, <1>1, <1>2, <1>4, <1>5, <1>7, <1>8, Zenon DEF Next
<1> QED BY <1>2, <1>9

(***************************************************************************)
(* A Turn takes out of the accumulation only what it was handed, though    *)
(* the batch spans every Chat of the Conversation and changes keep being   *)
(* appended while it runs (consumed_for_turn against gather_batch).        *)
(***************************************************************************)
THEOREM TurnConsumesWhatItRead == Spec => TurnConsumesOnlyWhatItRead
<1>1. TypeOK /\ ReadInv /\ [Next]_vars
        => (pc = "turn" => pending \ pending' \subseteq read)
  <2> SUFFICES ASSUME TypeOK, ReadInv, [Next]_vars, pc = "turn"
               PROVE  pending \ pending' \subseteq read
    OBVIOUS
  <2>1. ConsumedForTurn(batch, origin) \subseteq read
    BY ConsumedIsRendered DEF ReadInv, TypeOK, InboxType
  <2> QED BY <2>1, TurnTakesWhatItConsumes
<1> QED BY <1>1, TypeCorrect, ReadInit, ReadStep, PTL
          DEF Spec, TurnConsumesOnlyWhatItRead
=============================================================================
