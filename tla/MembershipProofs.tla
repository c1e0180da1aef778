-------------------------- MODULE MembershipProofs --------------------------
(***************************************************************************)
(* Proofs about Membership for every set of Conversations, Chats, changes  *)
(* and operators.                                                          *)
(***************************************************************************)
EXTENDS Membership, FiniteSetTheorems, TLAPS

\* A move that has begun knows two different rows and locks no other; one that
\* has not holds nothing.
MoveShape == \A m \in Operators :
  /\ at[m] = "none" => move[m] = NoMove /\ held[m] = {}
  /\ at[m] # "none" =>
       /\ move[m].from \in Conversations /\ move[m].to \in Conversations
       /\ move[m].from # move[m].to
       /\ held[m] \subseteq {move[m].from, move[m].to}

TypeInv == TypeOK /\ MoveShape

USE DEF database, producers, transaction, operators, agents, history


LEMMA NothingTypes ==
  NoMove \in Moves /\ NoCopy \in Copies /\ NoPass \in Passes /\ NoView \in Views
BY DEF NoMove, Moves, NoCopy, Copies, NoPass, Passes, NoView, Views

LEMMA OfKindType == ASSUME NEW S, NEW kinds PROVE OfKind(S, kinds) \subseteq S
BY DEF OfKind

LEMMA FaultType == HistoryType /\ (Fault \/ NoFault) => faults' \in 0..MaxFaults
BY BoundAssumption DEF HistoryType, Fault, NoFault

LEMMA TypeInit == Init => TypeInv
<1> SUFFICES ASSUME Init PROVE TypeInv
  OBVIOUS
<1>1. DatabaseType /\ ProducerType
  BY StartAssumption DEF Init, DatabaseType, ProducerType
<1>2. OperatorType /\ MoveShape
  BY NothingTypes, BoundAssumption DEF Init, OperatorType, MoveShape
<1>3. AgentType /\ HistoryType
  BY NothingTypes, BoundAssumption DEF Init, AgentType, HistoryType, Points
<1> QED BY <1>1, <1>2, <1>3 DEF TypeInv, TypeOK

LEMMA ProduceType ==
  ASSUME TypeInv, NEW c \in Changes, Resolve(c) \/ Append(c) \/ Ring(c)
  PROVE  TypeInv'
<1> USE DEF TypeInv, TypeOK
<1>1. CASE Resolve(c)
  <2>1. home[ChatOf[c]] \in Conversations
    BY ChangeAssumption DEF DatabaseType
  <2> QED BY <1>1, <2>1 DEF Resolve, DatabaseType, ProducerType, OperatorType,
             AgentType, HistoryType, MoveShape
<1>2. CASE Append(c)
  <2>1. DatabaseType' /\ ProducerType' /\ HistoryType'
    BY <1>2 DEF Append, DatabaseType, ProducerType, HistoryType, OfKind
  <2> QED BY <1>2, <2>1 DEF Append, OperatorType, AgentType, MoveShape
<1>3. CASE Ring(c)
  <2>1. AgentType'
    BY <1>3 DEF Ring, AgentType, Points
  <2>2. ProducerType'
    BY <1>3 DEF Ring, ProducerType
  <2> QED BY <1>3, <2>1, <2>2 DEF Ring, DatabaseType, OperatorType,
             HistoryType, MoveShape
<1> QED BY <1>1, <1>2, <1>3

LEMMA BeginMoveType ==
  ASSUME TypeInv, NEW m \in Operators, NEW chat \in Chats,
         NEW v \in Conversations, BeginMove(m, chat, v)
  PROVE  TypeInv'
<1> USE DEF TypeInv, TypeOK
<1> DEFINE begun == [chat |-> {chat}, from |-> home[chat], to |-> v]
<1>1. /\ at[m] = "none" /\ at' = [at EXCEPT ![m] = "locking"]
      /\ move' = [move EXCEPT ![m] = begun]
      /\ moves' = moves + 1 /\ moves < MaxMoves
      /\ held' = held /\ copy' = copy
  BY DEF BeginMove
<1>2. home[chat] \in Conversations /\ v # home[chat]
  BY DEF BeginMove, DatabaseType
<1>3. begun \in Moves /\ begun.from = home[chat] /\ begun.to = v
  BY <1>2 DEF Moves
<1> HIDE DEF begun
<1>4. OperatorType'
  BY <1>1, <1>3, BoundAssumption DEF OperatorType
<1>5. MoveShape'
  BY <1>1, <1>2, <1>3 DEF OperatorType, MoveShape
<1> QED BY <1>4, <1>5 DEF BeginMove, DatabaseType, ProducerType, AgentType,
           HistoryType

LEMMA LockingType ==
  ASSUME TypeInv, NEW m \in Operators,
         ReadRows(m) \/ AbortMove(m) \/ \E v \in Conversations : LockRow(m, v)
  PROVE  TypeInv'
<1> USE DEF TypeInv, TypeOK
<1>1. OperatorType' /\ MoveShape'
  <2>1. CASE ReadRows(m)
    <3> DEFINE read == [source |-> row[move[m].from], target |-> row[move[m].to]]
    <3>1. move[m].from \in Conversations /\ move[m].to \in Conversations
      BY <2>1 DEF ReadRows, MoveShape
    <3>2. read \in Copies
      BY <3>1 DEF DatabaseType, Copies
    <3>3. /\ at[m] = "locking" /\ at' = [at EXCEPT ![m] = "copied"]
          /\ copy' = [copy EXCEPT ![m] = read]
          /\ move' = move /\ held' = held /\ moves' = moves
      BY <2>1 DEF ReadRows, Copied
    <3> HIDE DEF read
    <3> QED BY <3>2, <3>3 DEF OperatorType, MoveShape
  <2>2. CASE AbortMove(m)
    BY <2>2, NothingTypes DEF AbortMove, Over, OperatorType, MoveShape
  <2>3. ASSUME NEW v \in Conversations, LockRow(m, v)
        PROVE  OperatorType' /\ MoveShape'
    <3>1. v \in {move[m].from, move[m].to}
      BY <2>3 DEF LockRow, NextToLock, Wanted
    <3> QED BY <2>3, <3>1 DEF LockRow, OperatorType, MoveShape
  <2> QED BY <2>1, <2>2, <2>3
<1>2. faults' \in 0..MaxFaults
  BY FaultType DEF ReadRows, Copied, AbortMove, LockRow, NoFault
<1> QED BY <1>1, <1>2 DEF ReadRows, Copied, AbortMove, LockRow, DatabaseType,
           ProducerType, AgentType, HistoryType

LEMMA CommitMoveType ==
  ASSUME TypeInv, NEW m \in Operators, CommitMove(m)
  PROVE  TypeInv'
<1> USE DEF TypeInv, TypeOK
<1>1. /\ copy[m] \in Copies
      /\ move[m].from \in Conversations /\ move[m].to \in Conversations
  BY DEF CommitMove, OperatorType, MoveShape
<1>2. Moving(m) \subseteq Changes /\ copy[m].source \subseteq Changes
      /\ copy[m].target \subseteq Changes
  BY <1>1 DEF Moving, Copies
<1>3. DatabaseType'
  <2>1. row' \in [Conversations -> SUBSET Changes]
    BY <1>1, <1>2 DEF CommitMove, DatabaseType
  <2>2. open' = open \cup {move[m].to}
    BY DEF CommitMove, Opened
  <2>3. home' = [chat \in Chats |-> IF chat \in move[m].chat THEN move[m].to
                                                           ELSE home[chat]]
    BY DEF CommitMove
  <2>4. home' \in [Chats -> open']
    BY <2>2, <2>3 DEF DatabaseType
  <2> QED BY <1>1, <2>1, <2>2, <2>4 DEF CommitMove, DatabaseType
<1>4. OperatorType' /\ MoveShape'
  BY NothingTypes DEF CommitMove, Over, OperatorType, MoveShape
<1> QED BY <1>3, <1>4 DEF CommitMove, ProducerType, AgentType, HistoryType

LEMMA MembersType == \A v : Members(v) \subseteq Chats
BY DEF Members

LEMMA RefreshType ==
  ASSUME TypeInv, NEW v \in Conversations,
         Mount(v) \/ Restore(v) \/ Sync(v) \/ Refresh(v) \/ Rest(v)
  PROVE  TypeInv'
<1> USE DEF TypeInv, TypeOK
<1>1. AgentType'
  <2>1. row[v] \subseteq Changes /\ Members(v) \subseteq Chats
    BY DEF DatabaseType, Members
  <2>2. CASE Mount(v)
    BY <2>1, <2>2 DEF Mount, AgentType, Points
  <2>3. CASE Restore(v)
    BY <2>1, <2>3 DEF Restore, AgentType, Points
  <2>4. CASE Sync(v)
    BY <2>1, <2>4 DEF Sync, AgentType, Points
  <2>5. CASE Refresh(v)
    BY <2>1, <2>5 DEF Refresh, AgentType, Points
  <2>6. CASE Rest(v)
    BY <2>6 DEF Rest, AgentType, Points
  <2> QED BY <2>2, <2>3, <2>4, <2>5, <2>6
<1>2. faults' \in 0..MaxFaults
  BY FaultType DEF Mount, Restore, Sync, Refresh, Rest, NoFault
<1> QED BY <1>1, <1>2 DEF Mount, Restore, Sync, Refresh, Rest, DatabaseType,
           ProducerType, OperatorType, HistoryType, MoveShape

LEMMA StartPassType ==
  ASSUME TypeInv, NEW v \in Conversations,
         \/ \E chat \in Chats : StartTurn(v, chat)
         \/ \E c \in Changes : StartPurge(v, c)
         \/ WipeReads(v)
  PROVE  TypeInv'
<1> USE DEF TypeInv, TypeOK
<1>1. pass[v] \in Passes /\ row[v] \subseteq Changes /\ batch[v] \subseteq Changes
      /\ roster[v] \subseteq Chats
  BY DEF AgentType, DatabaseType
<1>2. AgentType'
  <2>1. ASSUME NEW chat \in Chats, StartTurn(v, chat) PROVE AgentType'
    <3>1. pass'[v] \in Passes /\ pass' = [pass EXCEPT ![v] = pass'[v]]
      BY <1>1, <2>1 DEF StartTurn, Passes, AgentType
    <3> QED BY <2>1, <3>1 DEF StartTurn, AgentType, Points
  <2>2. ASSUME NEW c \in Changes, StartPurge(v, c) PROVE AgentType'
    <3>1. pass'[v] \in Passes /\ pass' = [pass EXCEPT ![v] = pass'[v]]
      BY <1>1, <2>2 DEF StartPurge, Passes, AgentType
    <3> QED BY <2>2, <3>1 DEF StartPurge, AgentType, Points
  <2>3. CASE WipeReads(v)
    <3>1. Members(v) \subseteq Chats
      BY MembersType
    <3>2. [members |-> Members(v), pending |-> row[v]] \in Views
      BY <1>1, <3>1 DEF Views
    <3> QED BY <2>3, <3>2 DEF WipeReads, AgentType, Points
  <2> QED BY <2>1, <2>2, <2>3
<1> QED BY <1>2 DEF StartTurn, StartPurge, WipeReads, DatabaseType,
           ProducerType, OperatorType, HistoryType, MoveShape

LEMMA EndPassType ==
  ASSUME TypeInv, NEW v \in Conversations,
         EndTurn(v) \/ WipeCommits(v) \/ PurgeFails(v)
  PROVE  TypeInv'
<1> USE DEF TypeInv, TypeOK
<1>1. /\ pass[v] \in Passes /\ row[v] \subseteq Changes /\ batch[v] \subseteq Changes
      /\ told[v] \subseteq Changes
  BY DEF AgentType, DatabaseType, HistoryType
<1>2. faults' \in 0..MaxFaults
  BY FaultType DEF EndTurn, WipeCommits, PurgeFails, NoFault
<1>3. CASE EndTurn(v)
  <2>1. DatabaseType'
    BY <1>1, <1>3 DEF EndTurn, DatabaseType, Passes
  <2>2. AgentType'
    BY <1>1, <1>3, NothingTypes DEF EndTurn, AgentType, Points, Passes
  <2>3. HistoryType'
    BY <1>1, <1>2, <1>3 DEF EndTurn, HistoryType, Passes
  <2> QED BY <1>3, <2>1, <2>2, <2>3 DEF EndTurn, ProducerType, OperatorType,
             MoveShape
<1>4. ASSUME NEW consumed \in SUBSET Changes, NEW gone \in SUBSET Changes,
             PurgeEnds(v, consumed, gone),
             messages' \subseteq messages,
             told' = told \/ told' = [told EXCEPT ![v] = {}]
      PROVE  TypeInv'
  <2>1. DatabaseType'
    BY <1>1, <1>4 DEF PurgeEnds, DatabaseType
  <2>2. AgentType'
    BY <1>1, <1>4, NothingTypes DEF PurgeEnds, AgentType, Points
  <2>3. HistoryType'
    BY <1>1, <1>2, <1>4 DEF PurgeEnds, HistoryType
  <2> QED BY <1>4, <2>1, <2>2, <2>3 DEF PurgeEnds, ProducerType, OperatorType,
             MoveShape
<1>5. CASE WipeCommits(v)
  <2> DEFINE consumed == pass[v].read \cup (view[v].pending \cap Deleted(v))
  <2>1. consumed \in SUBSET Changes
    BY <1>1 DEF Passes, Deleted, DatabaseType
  <2>2. /\ PurgeEnds(v, consumed, told[v])
        /\ messages' \subseteq messages /\ told' = [told EXCEPT ![v] = {}]
    BY <1>5 DEF WipeCommits
  <2> HIDE DEF consumed
  <2> QED BY <1>1, <1>4, <2>1, <2>2
<1>6. CASE PurgeFails(v)
  <2>1. pass[v].read \in SUBSET Changes
    BY <1>1 DEF Passes
  <2> QED BY <1>4, <1>6, <2>1 DEF PurgeFails
<1> QED BY <1>3, <1>5, <1>6

LEMMA TypeStep == TypeInv /\ [Next]_vars => TypeInv'
<1> SUFFICES ASSUME TypeInv, [Next]_vars PROVE TypeInv'
  OBVIOUS
<1>1. CASE Produce
  BY <1>1, ProduceType DEF Produce
<1>2. CASE Operate
  BY <1>2, BeginMoveType, LockingType, CommitMoveType DEF Operate
<1>3. CASE Live
  BY <1>3, RefreshType, StartPassType, EndPassType DEF Live
<1>4. CASE UNCHANGED vars
  BY <1>4 DEF vars, TypeInv, TypeOK, DatabaseType, ProducerType, OperatorType,
     AgentType, HistoryType, MoveShape
<1> QED BY <1>1, <1>2, <1>3, <1>4 DEF Next

(***************************************************************************)
(* Every variable keeps its type and every Chat's home is a row that       *)
(* exists, a detach creating its row in the same transaction included.     *)
(***************************************************************************)
THEOREM MembershipTypes == Spec => []TypeOK
<1>1. TypeInv => TypeOK
  BY DEF TypeInv
<1> QED BY <1>1, TypeInit, TypeStep, PTL DEF Spec

-----------------------------------------------------------------------------
(***************************************************************************)
(* An agent's Chats.  An agent that runs no pass has none recorded, so a   *)
(* refresh, which may shrink the roster, never runs under a pass.          *)
(***************************************************************************)
PassShape == \A v \in Conversations :
  pc[v] \notin {"turn", "purge", "wiping"} => pass[v] = NoPass

OriginInv == TypeInv /\ PassShape /\ OriginsAreMounted

LEMMA OriginRefresh ==
  ASSUME OriginInv, NEW v \in Conversations,
         Mount(v) \/ Restore(v) \/ Sync(v) \/ Refresh(v) \/ Rest(v)
  PROVE  PassShape' /\ OriginsAreMounted'
<1> USE DEF OriginInv, TypeInv, TypeOK, AgentType, PassShape, OriginsAreMounted,
            NoPass
<1>1. CASE Mount(v)
  BY <1>1 DEF Mount
<1>2. CASE Restore(v)
  BY <1>2 DEF Restore
<1>3. CASE Sync(v)
  BY <1>3 DEF Sync
<1>4. CASE Refresh(v)
  BY <1>4 DEF Refresh
<1>5. CASE Rest(v)
  BY <1>5 DEF Rest
<1> QED BY <1>1, <1>2, <1>3, <1>4, <1>5

LEMMA OriginPass ==
  ASSUME OriginInv, NEW v \in Conversations,
         \/ \E chat \in Chats : StartTurn(v, chat)
         \/ \E c \in Changes : StartPurge(v, c)
         \/ EndTurn(v) \/ WipeReads(v) \/ WipeCommits(v) \/ PurgeFails(v)
  PROVE  PassShape' /\ OriginsAreMounted'
<1> USE DEF OriginInv, TypeInv, TypeOK, AgentType, PassShape, OriginsAreMounted,
            NoPass
<1>1. ASSUME NEW chat \in Chats, StartTurn(v, chat)
      PROVE  PassShape' /\ OriginsAreMounted'
  BY <1>1 DEF StartTurn
<1>2. ASSUME NEW c \in Changes, StartPurge(v, c)
      PROVE  PassShape' /\ OriginsAreMounted'
  BY <1>2 DEF StartPurge
<1>3. CASE EndTurn(v)
  BY <1>3 DEF EndTurn
<1>4. CASE WipeReads(v)
  BY <1>4 DEF WipeReads
<1>5. CASE WipeCommits(v) \/ PurgeFails(v)
  <2>1. /\ pc[v] \in {"purge", "wiping"}
        /\ pass' = [pass EXCEPT ![v] = NoPass]
        /\ pc' = [pc EXCEPT ![v] = "idle"]
        /\ UNCHANGED <<chats, roster>>
    BY <1>5 DEF WipeCommits, PurgeFails, PurgeEnds
  <2> QED BY <2>1
<1> QED BY <1>1, <1>2, <1>3, <1>4, <1>5

LEMMA OriginStep == OriginInv /\ [Next]_vars => OriginInv'
<1> SUFFICES ASSUME OriginInv, [Next]_vars PROVE PassShape' /\ OriginsAreMounted'
  BY TypeStep DEF OriginInv
<1>1. CASE Live
  BY <1>1, OriginRefresh, OriginPass DEF Live
<1>2. CASE Operate
  BY <1>2 DEF Operate, BeginMove, LockRow, ReadRows, Copied, CommitMove,
     AbortMove, OriginInv, PassShape, OriginsAreMounted
<1>3. ASSUME NEW c \in Changes, Resolve(c) \/ Append(c) \/ Ring(c)
      PROVE  PassShape' /\ OriginsAreMounted'
  BY <1>3 DEF Resolve, Append, Ring, OriginInv, TypeInv, TypeOK, AgentType,
     PassShape, OriginsAreMounted
<1>4. CASE UNCHANGED vars
  BY <1>4 DEF vars, OriginInv, PassShape, OriginsAreMounted
<1> QED BY <1>1, <1>2, <1>3, <1>4 DEF Next, Produce

(***************************************************************************)
(* A pass keeps its Chat: through every refresh, half failed ones          *)
(* included, the Chat a pass speaks in is a member and every member has    *)
(* its surface, so that remember's assertion and surface's lookup hold.    *)
(***************************************************************************)
THEOREM PassesKeepTheirChat == Spec => []OriginsAreMounted
<1>1. Init => PassShape /\ OriginsAreMounted
  BY DEF Init, PassShape, OriginsAreMounted
<1>2. Init => OriginInv
  BY <1>1, TypeInit DEF OriginInv
<1>3. OriginInv => OriginsAreMounted
  BY DEF OriginInv
<1> QED BY <1>2, <1>3, OriginStep, PTL DEF Spec

-----------------------------------------------------------------------------
(***************************************************************************)
(* The accumulations.  A transaction that has read two of them holds both  *)
(* locks, so what it read is what they still hold when it writes.          *)
(***************************************************************************)
LocksExclusive == \A m, n \in Operators : m # n => held[m] \cap held[n] = {}
CopiesCurrent == \A m \in Operators : at[m] = "copied" =>
  /\ held[m] = {move[m].from, move[m].to}
  /\ copy[m].source = row[move[m].from]
  /\ copy[m].target = row[move[m].to]
LockInv == LocksExclusive /\ CopiesCurrent

\* What memory holds was committed before.
OnlyTheSent == \A v \in Conversations :
  batch[v] \subseteq sent /\ pass[v].read \subseteq sent /\ view[v].pending \subseteq sent

\* EveryChangeHasOnePlace, change by change.
Accounted == \A c \in Changes :
  c \in sent <=> c \in spent \/ \E v \in Conversations : c \in row[v] \/ c \in told[v]
OneRow == \A v, w \in Conversations : v # w => row[v] \cap row[w] = {}

PlaceInv == TypeInv /\ LockInv /\ OnlyTheSent /\ Accounted /\ OneRow

LEMMA PlaceIsEnough == PlaceInv => EveryChangeHasOnePlace
<1> SUFFICES ASSUME PlaceInv PROVE EveryChangeHasOnePlace
  OBVIOUS
<1>1. /\ sent \subseteq Changes /\ spent \subseteq Changes
      /\ \A v \in Conversations : row[v] \subseteq Changes /\ told[v] \subseteq Changes
  BY DEF PlaceInv, TypeInv, TypeOK, DatabaseType, ProducerType, HistoryType
<1>2. \A c \in Changes : c \in sent <=> c \in Pending \cup Told \cup spent
  BY DEF PlaceInv, Accounted, Pending, Told
<1>3. Pending \cup Told \cup spent \subseteq Changes
  BY <1>1 DEF Pending, Told
<1> QED BY <1>1, <1>2, <1>3 DEF PlaceInv, OneRow, EveryChangeHasOnePlace

LEMMA UnlockedRow ==
  ASSUME TypeInv, LockInv, NEW v \in Conversations, ~Locked(v),
         NEW S, row' = [row EXCEPT ![v] = S], UNCHANGED operators
  PROVE  LockInv'
BY DEF TypeInv, TypeOK, DatabaseType, MoveShape, LockInv, LocksExclusive,
   CopiesCurrent, Locked

LEMMA UnlockedTransactions ==
  ASSUME LockInv, UNCHANGED row, UNCHANGED operators
  PROVE  LockInv'
BY DEF LockInv, LocksExclusive, CopiesCurrent

LEMMA PlaceProduce ==
  ASSUME PlaceInv, NEW c \in Changes, Resolve(c) \/ Append(c) \/ Ring(c)
  PROVE  LockInv' /\ OnlyTheSent' /\ Accounted' /\ OneRow'
<1> USE DEF PlaceInv
<1>1. CASE Resolve(c) \/ Ring(c)
  BY <1>1, UnlockedTransactions
     DEF Resolve, Ring, OnlyTheSent, Accounted, OneRow
<1>2. CASE Append(c)
  <2> DEFINE v == resolved[c]
  <2>1. v \in Conversations /\ row \in [Conversations -> SUBSET Changes]
    BY <1>2 DEF Append, TypeInv, TypeOK, ProducerType, DatabaseType
  <2>2. /\ row' = [row EXCEPT ![v] = @ \cup {c}] /\ ~Locked(v)
        /\ c \notin sent /\ sent' = sent \cup {c}
    BY <1>2 DEF Append
  <2>3. UNCHANGED <<told, spent, operators, batch, pass, view>>
    BY <1>2 DEF Append
  <2> HIDE DEF v
  <2>4. LockInv'
    BY <2>1, <2>2, <2>3, UnlockedRow
  <2>5. OnlyTheSent' /\ Accounted'
    BY <2>1, <2>2, <2>3 DEF OnlyTheSent, Accounted
  <2>6. \A w \in Conversations : c \notin row[w]
    BY <2>2 DEF Accounted
  <2>7. OneRow'
    BY <2>1, <2>2, <2>6 DEF OneRow
  <2> QED BY <2>4, <2>5, <2>7
<1> QED BY <1>1, <1>2

LEMMA PlaceOperate ==
  ASSUME PlaceInv, NEW m \in Operators,
         \/ \E chat \in Chats, v \in Conversations : BeginMove(m, chat, v)
         \/ \E v \in Conversations : LockRow(m, v)
         \/ ReadRows(m) \/ AbortMove(m)
  PROVE  LockInv' /\ OnlyTheSent' /\ Accounted' /\ OneRow'
<1>1. OnlyTheSent' /\ Accounted' /\ OneRow'
  BY DEF BeginMove, LockRow, ReadRows, Copied, AbortMove, PlaceInv, OnlyTheSent,
     Accounted, OneRow
<1>2. UNCHANGED row
  BY DEF BeginMove, LockRow, ReadRows, Copied, AbortMove
<1>3. /\ at \in [Operators -> {"none", "locking", "copied"}]
      /\ move \in [Operators -> Moves] /\ held \in [Operators -> SUBSET Conversations]
      /\ copy \in [Operators -> Copies]
  BY DEF PlaceInv, TypeInv, TypeOK, OperatorType
<1>4. LocksExclusive /\ CopiesCurrent
  BY DEF PlaceInv, LockInv
<1>5. ASSUME NEW chat \in Chats, NEW v \in Conversations, BeginMove(m, chat, v)
      PROVE  LockInv'
  BY <1>2, <1>3, <1>4, <1>5 DEF BeginMove, LockInv, LocksExclusive, CopiesCurrent
<1>6. ASSUME NEW v \in Conversations, LockRow(m, v) PROVE LockInv'
  BY <1>2, <1>3, <1>4, <1>6
     DEF LockRow, Locked, LockInv, LocksExclusive, CopiesCurrent
<1>7. CASE ReadRows(m)
  <2> DEFINE read == [source |-> row[move[m].from], target |-> row[move[m].to]]
  <2>1. held[m] = {move[m].from, move[m].to}
    BY <1>7 DEF ReadRows, Wanted, PlaceInv, TypeInv, MoveShape
  <2>2. /\ at' = [at EXCEPT ![m] = "copied"] /\ copy' = [copy EXCEPT ![m] = read]
        /\ move' = move /\ held' = held
    BY <1>7 DEF ReadRows, Copied
  <2>3. read.source = row[move[m].from] /\ read.target = row[move[m].to]
    OBVIOUS
  <2> HIDE DEF read
  <2>4. CopiesCurrent'
    BY <1>2, <1>3, <1>4, <2>1, <2>2, <2>3 DEF CopiesCurrent
  <2> QED BY <1>1, <1>4, <2>2, <2>4 DEF LockInv, LocksExclusive
<1>8. CASE AbortMove(m)
  <2>1. /\ at' = [at EXCEPT ![m] = "none"] /\ move' = [move EXCEPT ![m] = NoMove]
        /\ held' = [held EXCEPT ![m] = {}] /\ copy' = [copy EXCEPT ![m] = NoCopy]
    BY <1>8 DEF AbortMove, Over
  <2>2. CopiesCurrent'
    BY <1>2, <1>3, <1>4, <2>1 DEF CopiesCurrent
  <2>3. LocksExclusive'
    BY <1>3, <1>4, <2>1 DEF LocksExclusive
  <2> QED BY <1>1, <2>2, <2>3 DEF LockInv
<1> QED BY <1>1, <1>5, <1>6, <1>7, <1>8

LEMMA PlaceCommit ==
  ASSUME PlaceInv, NEW m \in Operators, CommitMove(m)
  PROVE  LockInv' /\ OnlyTheSent' /\ Accounted' /\ OneRow'
<1> USE DEF PlaceInv
<1> DEFINE from == move[m].from
           to == move[m].to
           moving == Moving(m)
<1>1. from \in Conversations /\ to \in Conversations /\ from # to
  BY DEF CommitMove, TypeInv, MoveShape
<1>2. /\ held[m] = {from, to}
      /\ copy[m].source = row[from] /\ copy[m].target = row[to]
  BY DEF CommitMove, LockInv, CopiesCurrent
<1>3. moving \subseteq row[from]
  BY <1>2 DEF Moving
<1>4. /\ row \in [Conversations -> SUBSET Changes]
      /\ row' = [row EXCEPT ![from] = row[from] \ moving,
                            ![to] = row[to] \cup moving]
  BY <1>2 DEF CommitMove, TypeInv, TypeOK, DatabaseType
<1>5. Over(m) /\ UNCHANGED <<producers, agents, history>>
  BY DEF CommitMove
<1> HIDE DEF from, to, moving
<1>6. LockInv'
  <2>1. \A n \in Operators : n # m /\ at[n] = "copied" =>
          /\ move[n].from \notin {from, to} /\ move[n].to \notin {from, to}
          /\ move[n].from \in Conversations /\ move[n].to \in Conversations
    BY <1>2 DEF LockInv, LocksExclusive, CopiesCurrent, TypeInv, MoveShape
  <2>2. \A n \in Operators : n # m /\ at[n] = "copied" =>
          row'[move[n].from] = row[move[n].from] /\ row'[move[n].to] = row[move[n].to]
    BY <1>1, <1>4, <2>1
  <2>3. CopiesCurrent'
    BY <1>5, <2>2 DEF Over, LockInv, CopiesCurrent, TypeInv, TypeOK, OperatorType
  <2>4. LocksExclusive'
    BY <1>5 DEF Over, LockInv, LocksExclusive, TypeInv, TypeOK, OperatorType
  <2> QED BY <2>3, <2>4 DEF LockInv
<1>7. \A c : (\E v \in Conversations : c \in row'[v])
              <=> (\E v \in Conversations : c \in row[v])
  BY <1>1, <1>3, <1>4
<1>8. Accounted' /\ OnlyTheSent'
  BY <1>5, <1>7 DEF Accounted, OnlyTheSent
<1>9. OneRow'
  BY <1>1, <1>3, <1>4 DEF OneRow
<1> QED BY <1>6, <1>8, <1>9

LEMMA PlaceLive ==
  ASSUME PlaceInv, NEW v \in Conversations,
         \/ Mount(v) \/ Restore(v) \/ Sync(v) \/ Refresh(v) \/ Rest(v)
         \/ \E chat \in Chats : StartTurn(v, chat)
         \/ \E c \in Changes : StartPurge(v, c)
         \/ WipeReads(v)
  PROVE  LockInv' /\ OnlyTheSent' /\ Accounted' /\ OneRow'
<1> USE DEF PlaceInv
<1>1. UNCHANGED <<row, told, spent, sent, operators>>
  BY DEF Mount, Restore, Sync, Refresh, Rest, StartTurn, StartPurge, WipeReads
<1>2. LockInv' /\ Accounted' /\ OneRow'
  BY <1>1, UnlockedTransactions DEF Accounted, OneRow
<1>3. row[v] \subseteq sent
  BY DEF Accounted, TypeInv, TypeOK, DatabaseType
<1>4. /\ batch \in [Conversations -> SUBSET Changes]
      /\ pass \in [Conversations -> Passes] /\ view \in [Conversations -> Views]
      /\ OnlyTheSent
  BY DEF TypeInv, TypeOK, AgentType
<1> HIDE DEF PlaceInv
<1>5. CASE Mount(v) \/ Sync(v)
  BY <1>1, <1>2, <1>4, <1>5 DEF Mount, Sync, OnlyTheSent
<1>6. CASE Restore(v) \/ Refresh(v)
  BY <1>1, <1>2, <1>3, <1>4, <1>6 DEF Restore, Refresh, OnlyTheSent
<1>7. CASE Rest(v)
  BY <1>1, <1>2, <1>4, <1>7 DEF Rest, OnlyTheSent
<1>8. ASSUME NEW chat \in Chats, StartTurn(v, chat) PROVE OnlyTheSent'
  BY <1>1, <1>4, <1>8 DEF StartTurn, OnlyTheSent
<1>9. ASSUME NEW c \in Changes, StartPurge(v, c) PROVE OnlyTheSent'
  <2>1. c \in sent
    BY <1>4, <1>9 DEF StartPurge, OfKind, OnlyTheSent
  <2> QED BY <1>1, <1>4, <1>9, <2>1 DEF StartPurge, OnlyTheSent
<1>10. CASE WipeReads(v)
  <2> DEFINE seen == [members |-> Members(v), pending |-> row[v]]
  <2>1. view' = [view EXCEPT ![v] = seen] /\ UNCHANGED <<batch, pass>>
    BY <1>10 DEF WipeReads
  <2>2. seen.pending \subseteq sent
    BY <1>3
  <2> HIDE DEF seen
  <2> QED BY <1>1, <1>2, <1>4, <2>1, <2>2 DEF OnlyTheSent
<1> QED BY <1>2, <1>5, <1>6, <1>7, <1>8, <1>9, <1>10

LEMMA PlacePassEnds ==
  ASSUME PlaceInv, NEW v \in Conversations,
         EndTurn(v) \/ WipeCommits(v) \/ PurgeFails(v)
  PROVE  LockInv' /\ OnlyTheSent' /\ Accounted' /\ OneRow'
<1> USE DEF PlaceInv
<1>1. /\ row \in [Conversations -> SUBSET Changes]
      /\ told \in [Conversations -> SUBSET Changes]
      /\ batch \in [Conversations -> SUBSET Changes]
      /\ pass \in [Conversations -> Passes] /\ view \in [Conversations -> Views]
  BY DEF TypeInv, TypeOK, DatabaseType, AgentType, HistoryType
<1>2. /\ told[v] \subseteq sent
      /\ pass[v].read \subseteq sent /\ view[v].pending \subseteq sent
  BY <1>1 DEF Accounted, OnlyTheSent
<1>3. CASE EndTurn(v)
  <2>1. CASE Fault /\ UNCHANGED <<row, told, batch>>
    <3>1. UNCHANGED <<row, told, spent, sent, batch, view, operators>>
      BY <1>3, <2>1 DEF EndTurn
    <3>2. OnlyTheSent'
      BY <1>1, <1>3, <3>1 DEF EndTurn, OnlyTheSent, NoPass
    <3> QED BY <3>1, <3>2, UnlockedTransactions DEF Accounted, OneRow
  <2>2. CASE ~(Fault /\ UNCHANGED <<row, told, batch>>)
    <3>1. /\ ~Locked(v)
          /\ row' = [row EXCEPT ![v] = @ \ pass[v].read]
          /\ told' = [told EXCEPT ![v] = @ \cup pass[v].read]
          /\ batch' = [batch EXCEPT ![v] = @ \ pass[v].read]
          /\ pass' = [pass EXCEPT ![v] = NoPass]
          /\ UNCHANGED <<spent, sent, view, operators>>
      BY <1>3, <2>2 DEF EndTurn
    <3>2. LockInv'
      BY <1>1, <3>1, UnlockedRow
    <3>3. OnlyTheSent'
      BY <1>1, <3>1 DEF OnlyTheSent, NoPass
    <3>4. Accounted'
      BY <1>1, <1>2, <3>1 DEF Accounted
    <3>5. OneRow'
      BY <1>1, <3>1 DEF OneRow
    <3> QED BY <3>2, <3>3, <3>4, <3>5
  <2> QED BY <2>1, <2>2
<1>4. ASSUME NEW consumed \in SUBSET sent, NEW gone \in SUBSET told[v],
             PurgeEnds(v, consumed, gone),
             \/ told' = told
             \/ told' = [told EXCEPT ![v] = {}] /\ gone = told[v]
      PROVE  LockInv' /\ OnlyTheSent' /\ Accounted' /\ OneRow'
  <2>1. /\ ~Locked(v)
        /\ row' = [row EXCEPT ![v] = @ \ consumed]
        /\ batch' = [batch EXCEPT ![v] = @ \ consumed]
        /\ pass' = [pass EXCEPT ![v] = NoPass]
        /\ view' = [view EXCEPT ![v] = NoView]
        /\ spent' = spent \cup consumed \cup gone
        /\ UNCHANGED <<sent, operators>>
    BY <1>4 DEF PurgeEnds
  <2>2. LockInv'
    BY <1>1, <2>1, UnlockedRow
  <2>3. OnlyTheSent'
    BY <1>1, <2>1 DEF OnlyTheSent, NoPass, NoView
  <2>4. OneRow'
    BY <1>1, <2>1 DEF OneRow
  <2>5. Accounted'
    BY <1>1, <1>2, <1>4, <2>1 DEF Accounted
  <2> QED BY <2>2, <2>3, <2>4, <2>5
<1>5. CASE WipeCommits(v)
  <2> DEFINE consumed == pass[v].read \cup (view[v].pending \cap Deleted(v))
  <2>1. consumed \in SUBSET sent
    BY <1>2
  <2>2. PurgeEnds(v, consumed, told[v]) /\ told' = [told EXCEPT ![v] = {}]
    BY <1>5 DEF WipeCommits
  <2> HIDE DEF consumed
  <2> QED BY <1>4, <2>1, <2>2
<1>6. CASE PurgeFails(v)
  BY <1>2, <1>4, <1>6 DEF PurgeFails
<1> QED BY <1>3, <1>5, <1>6

LEMMA PlaceStep == PlaceInv /\ [Next]_vars => PlaceInv'
<1> SUFFICES ASSUME PlaceInv, [Next]_vars
             PROVE  LockInv' /\ OnlyTheSent' /\ Accounted' /\ OneRow'
  BY TypeStep DEF PlaceInv
<1>1. CASE Produce
  BY <1>1, PlaceProduce DEF Produce
<1>2. CASE Operate
  BY <1>2, PlaceOperate, PlaceCommit DEF Operate
<1>3. CASE Live
  BY <1>3, PlaceLive, PlacePassEnds DEF Live
<1>4. CASE UNCHANGED vars
  BY <1>4, UnlockedTransactions
     DEF vars, PlaceInv, OnlyTheSent, Accounted, OneRow
<1> QED BY <1>1, <1>2, <1>3, <1>4 DEF Next

LEMMA PlaceInit == Init => PlaceInv
<1> SUFFICES ASSUME Init PROVE LockInv /\ OnlyTheSent /\ Accounted /\ OneRow
  BY TypeInit DEF PlaceInv
<1> QED BY DEF Init, LockInv, LocksExclusive, CopiesCurrent, OnlyTheSent, Accounted,
           OneRow, NoPass, NoView

(***************************************************************************)
(* Moving a Chat loses no change and doubles none, whatever producers      *)
(* append and agents consume meanwhile, and whichever moves race it.       *)
(***************************************************************************)
THEOREM MovesLoseNothing == Spec => []EveryChangeHasOnePlace
BY PlaceInit, PlaceStep, PlaceIsEnough, PTL DEF Spec

-----------------------------------------------------------------------------
(***************************************************************************)
(* Stray entries.  A transaction holds its chat row from the first         *)
(* statement on, so the Chat is where it found it when it writes.          *)
(***************************************************************************)
ChatsExclusive == \A m, n \in Operators :
  m # n => move[m].chat \cap move[n].chat = {}
ChatsStay == \A m \in Operators : \A chat \in Chats :
  chat \in move[m].chat => home[chat] = move[m].from

StrayInv == PlaceInv /\ ChatsExclusive /\ ChatsStay /\ OnlyLateEntriesAreStray

LEMMA StrayProduce ==
  ASSUME StrayInv, NEW c \in Changes, Resolve(c) \/ Append(c) \/ Ring(c)
  PROVE  ChatsExclusive' /\ ChatsStay' /\ OnlyLateEntriesAreStray'
<1>1. ChatsExclusive' /\ ChatsStay'
  BY DEF Resolve, Append, Ring, StrayInv, ChatsExclusive, ChatsStay
<1>2. CASE Resolve(c) \/ Ring(c)
  BY <1>1, <1>2 DEF Resolve, Ring, StrayInv, OnlyLateEntriesAreStray
<1>3. CASE Append(c)
  <2>1. resolved[c] \in Conversations /\ row \in [Conversations -> SUBSET Changes]
    BY <1>3 DEF Append, StrayInv, PlaceInv, TypeInv, TypeOK, ProducerType,
       DatabaseType
  <2> QED BY <1>1, <1>3, <2>1 DEF Append, StrayInv, OnlyLateEntriesAreStray
<1> QED BY <1>2, <1>3

LEMMA StrayOperate ==
  ASSUME StrayInv, NEW m \in Operators,
         \/ \E chat \in Chats, v \in Conversations : BeginMove(m, chat, v)
         \/ \E v \in Conversations : LockRow(m, v)
         \/ ReadRows(m) \/ AbortMove(m)
  PROVE  ChatsExclusive' /\ ChatsStay' /\ OnlyLateEntriesAreStray'
<1>1. OnlyLateEntriesAreStray' /\ home' = home
  BY DEF BeginMove, LockRow, ReadRows, Copied, AbortMove, StrayInv,
     OnlyLateEntriesAreStray
<1>2. move \in [Operators -> Moves] /\ ChatsExclusive /\ ChatsStay
  BY DEF StrayInv, PlaceInv, TypeInv, TypeOK, OperatorType
<1>3. ASSUME NEW chat \in Chats, NEW v \in Conversations, BeginMove(m, chat, v)
      PROVE  ChatsExclusive' /\ ChatsStay'
  <2> DEFINE begun == [chat |-> {chat}, from |-> home[chat], to |-> v]
  <2>1. move' = [move EXCEPT ![m] = begun] /\ ~ChatLocked(chat)
    BY <1>3 DEF BeginMove
  <2>2. begun.chat = {chat} /\ begun.from = home[chat]
    OBVIOUS
  <2> HIDE DEF begun
  <2>3. ChatsExclusive'
    BY <1>2, <2>1, <2>2 DEF ChatsExclusive, ChatLocked
  <2>4. ChatsStay'
    BY <1>1, <1>2, <2>1, <2>2 DEF ChatsStay
  <2> QED BY <2>3, <2>4
<1>4. CASE ReadRows(m) \/ \E v \in Conversations : LockRow(m, v)
  <2>1. move' = move
    BY <1>4 DEF ReadRows, Copied, LockRow
  <2> QED BY <1>1, <1>2, <2>1 DEF ChatsExclusive, ChatsStay
<1>5. CASE AbortMove(m)
  <2>1. move' = [move EXCEPT ![m] = NoMove] /\ NoMove.chat = {}
    BY <1>5 DEF AbortMove, Over, NoMove
  <2> QED BY <1>1, <1>2, <2>1 DEF ChatsExclusive, ChatsStay
<1> QED BY <1>1, <1>3, <1>4, <1>5

LEMMA StrayCommit ==
  ASSUME StrayInv, NEW m \in Operators, CommitMove(m)
  PROVE  ChatsExclusive' /\ ChatsStay' /\ OnlyLateEntriesAreStray'
<1> DEFINE from == move[m].from
           to == move[m].to
           chat == move[m].chat
           moving == Moving(m)
<1>1. from \in Conversations /\ to \in Conversations /\ from # to
  BY DEF CommitMove, StrayInv, PlaceInv, TypeInv, MoveShape
<1>2. copy[m].source = row[from] /\ copy[m].target = row[to]
  BY DEF CommitMove, StrayInv, PlaceInv, LockInv, CopiesCurrent
<1>3. moving = {c \in row[from] : ChatOf[c] \in chat /\ KindOf[c] # "setting"}
  BY <1>2 DEF Moving
<1>4. /\ row \in [Conversations -> SUBSET Changes]
      /\ row' = [row EXCEPT ![from] = row[from] \ moving,
                            ![to] = row[to] \cup moving]
  BY <1>2 DEF CommitMove, StrayInv, PlaceInv, TypeInv, TypeOK, DatabaseType
<1>5. \A x \in Chats : home'[x] = IF x \in chat THEN to ELSE home[x]
  BY DEF CommitMove
<1>6. /\ move' = [move EXCEPT ![m] = NoMove] /\ NoMove.chat = {}
      /\ late' = late /\ move \in [Operators -> Moves]
  BY DEF CommitMove, Over, NoMove, StrayInv, PlaceInv, TypeInv, TypeOK, OperatorType
<1>7. \A x \in Chats : x \in chat => home[x] = from
  BY DEF StrayInv, ChatsStay
<1>8. ChatsExclusive'
  BY <1>6 DEF StrayInv, ChatsExclusive
<1>9. ChatsStay'
  <2>1. \A n \in Operators : n # m => chat \cap move[n].chat = {}
    BY DEF StrayInv, ChatsExclusive
  <2> HIDE DEF chat, to
  <2> QED BY <1>5, <1>6, <2>1 DEF StrayInv, ChatsStay
<1> HIDE DEF from, to, chat, moving
<1>10. OnlyLateEntriesAreStray'
  <2> SUFFICES ASSUME NEW v \in Conversations, NEW c \in row'[v],
                      home'[ChatOf[c]] # v, KindOf[c] # "setting"
               PROVE  c \in late
    BY <1>6 DEF OnlyLateEntriesAreStray
  <2>1. c \in Changes /\ ChatOf[c] \in Chats
    BY <1>1, <1>3, <1>4, ChangeAssumption
  <2>2. CASE ChatOf[c] \in chat
    <3>1. v # to
      BY <1>5, <2>1, <2>2
    <3>2. c \in row[v] /\ v # from
      BY <1>1, <1>3, <1>4, <2>2, <3>1
    <3> QED BY <1>7, <2>1, <2>2, <3>2 DEF StrayInv, OnlyLateEntriesAreStray
  <2>3. CASE ChatOf[c] \notin chat
    <3>1. c \in row[v] /\ home[ChatOf[c]] # v
      BY <1>1, <1>3, <1>4, <1>5, <2>1, <2>3
    <3> QED BY <3>1 DEF StrayInv, OnlyLateEntriesAreStray
  <2> QED BY <2>2, <2>3
<1> QED BY <1>8, <1>9, <1>10

LEMMA StrayLive ==
  ASSUME StrayInv, Live
  PROVE  ChatsExclusive' /\ ChatsStay' /\ OnlyLateEntriesAreStray'
<1>1. PICK v \in Conversations :
        \/ Mount(v) \/ Restore(v) \/ Sync(v) \/ Refresh(v) \/ Rest(v)
        \/ \E chat \in Chats : StartTurn(v, chat)
        \/ EndTurn(v)
        \/ \E c \in Changes : StartPurge(v, c)
        \/ WipeReads(v) \/ WipeCommits(v) \/ PurgeFails(v)
  BY DEF Live
<1>2. UNCHANGED <<home, move, late>>
  BY <1>1 DEF Mount, Restore, Sync, Refresh, Rest, StartTurn, EndTurn, StartPurge,
     WipeReads, WipeCommits, PurgeFails, PurgeEnds
<1>3. row \in [Conversations -> SUBSET Changes]
  BY DEF StrayInv, PlaceInv, TypeInv, TypeOK, DatabaseType
<1>4. row' = row \/ \E S : row' = [row EXCEPT ![v] = @ \ S]
  <2>1. CASE EndTurn(v)
    BY <2>1 DEF EndTurn
  <2>2. CASE WipeCommits(v) \/ PurgeFails(v)
    BY <2>2 DEF WipeCommits, PurgeFails, PurgeEnds
  <2>3. CASE ~(EndTurn(v) \/ WipeCommits(v) \/ PurgeFails(v))
    BY <1>1, <2>3 DEF Mount, Restore, Sync, Refresh, Rest, StartTurn, StartPurge,
       WipeReads
  <2> QED BY <2>1, <2>2, <2>3
<1>5. \A w \in Conversations : row'[w] \subseteq row[w]
  BY <1>3, <1>4
<1> QED BY <1>2, <1>5 DEF StrayInv, ChatsExclusive, ChatsStay,
           OnlyLateEntriesAreStray

LEMMA StrayStep == StrayInv /\ [Next]_vars => StrayInv'
<1> SUFFICES ASSUME StrayInv, [Next]_vars
             PROVE  ChatsExclusive' /\ ChatsStay' /\ OnlyLateEntriesAreStray'
  BY PlaceStep DEF StrayInv
<1>1. CASE Produce
  BY <1>1, StrayProduce DEF Produce
<1>2. CASE Operate
  BY <1>2, StrayOperate, StrayCommit DEF Operate
<1>3. CASE Live
  BY <1>3, StrayLive
<1>4. CASE UNCHANGED vars
  BY <1>4 DEF vars, StrayInv, ChatsExclusive, ChatsStay, OnlyLateEntriesAreStray
<1> QED BY <1>1, <1>2, <1>3, <1>4 DEF Next

(***************************************************************************)
(* A move takes everything of the Chat along that it can see, except its   *)
(* settings: what is left in the row of a Conversation the Chat has left   *)
(* was appended by a producer the move had overtaken.                      *)
(***************************************************************************)
THEOREM MovesLeaveOnlySettings == Spec => []OnlyLateEntriesAreStray
<1>1. Init => StrayInv
  BY PlaceInit DEF Init, StrayInv, ChatsExclusive, ChatsStay, NoMove,
     OnlyLateEntriesAreStray
<1>2. StrayInv => OnlyLateEntriesAreStray
  BY DEF StrayInv
<1> QED BY <1>1, <1>2, StrayStep, PTL DEF Spec

-----------------------------------------------------------------------------
(***************************************************************************)
(* Deadlock.  A move that waits holds only rows below the one it waits     *)
(* for, so whoever holds that row waits for a higher one still; there are  *)
(* finitely many rows, so somebody does not wait.                          *)
(***************************************************************************)
LocksInOrder == \A m \in Operators : at[m] = "locking" =>
  \A v \in held[m], w \in Wanted(m) : v < w

OrderInv == PlaceInv /\ LocksInOrder

LEMMA OrderOperate ==
  ASSUME OrderInv, NEW m \in Operators,
         \/ \E chat \in Chats, v \in Conversations : BeginMove(m, chat, v)
         \/ \E v \in Conversations : LockRow(m, v)
         \/ ReadRows(m) \/ CommitMove(m) \/ AbortMove(m)
  PROVE  LocksInOrder'
<1>1. /\ at \in [Operators -> {"none", "locking", "copied"}]
      /\ move \in [Operators -> Moves] /\ held \in [Operators -> SUBSET Conversations]
      /\ LocksInOrder
  BY DEF OrderInv, PlaceInv, TypeInv, TypeOK, OperatorType
<1>2. ASSUME NEW chat \in Chats, NEW v \in Conversations, BeginMove(m, chat, v)
      PROVE  LocksInOrder'
  <2>1. held[m] = {} /\ held' = held /\ at' = [at EXCEPT ![m] = "locking"]
    BY <1>2 DEF BeginMove, OrderInv, PlaceInv, TypeInv, MoveShape
  <2>2. \A n \in Operators : n # m => move'[n] = move[n]
    BY <1>1, <1>2 DEF BeginMove
  <2> QED BY <1>1, <2>1, <2>2 DEF LocksInOrder, Wanted
<1>3. ASSUME NEW v \in Conversations, LockRow(m, v) PROVE LocksInOrder'
  <2>1. /\ v \in Wanted(m) /\ \A w \in Wanted(m) : v <= w
        /\ at[m] = "locking" /\ held' = [held EXCEPT ![m] = @ \cup {v}]
        /\ at' = at /\ move' = move
    BY <1>3 DEF LockRow, NextToLock
  <2>2. \A w \in Wanted(m) : w \in Conversations
    BY <2>1 DEF Wanted, OrderInv, PlaceInv, TypeInv, MoveShape
  <2>3. \A w \in Wanted(m) : w # v => v < w
    BY <2>1, <2>2, ConversationsAssumption
  <2>4. \A x \in held'[m], w \in Wanted(m)' : x < w
    <3>1. Wanted(m)' = Wanted(m) \ {v}
      BY <1>1, <2>1 DEF Wanted
    <3> QED BY <1>1, <2>1, <2>3, <3>1 DEF LocksInOrder
  <2>5. \A n \in Operators : n # m =>
          at'[n] = at[n] /\ held'[n] = held[n] /\ Wanted(n)' = Wanted(n)
    BY <1>1, <2>1 DEF Wanted
  <2> QED BY <1>1, <2>4, <2>5 DEF LocksInOrder
<1>4. CASE ReadRows(m) \/ CommitMove(m) \/ AbortMove(m)
  <2>1. at'[m] # "locking"
    BY <1>1, <1>4 DEF ReadRows, Copied, CommitMove, AbortMove, Over
  <2>2. \A n \in Operators : n # m =>
          at'[n] = at[n] /\ held'[n] = held[n] /\ move'[n] = move[n]
    BY <1>1, <1>4 DEF ReadRows, Copied, CommitMove, AbortMove, Over
  <2> QED BY <1>1, <2>1, <2>2 DEF LocksInOrder, Wanted
<1> QED BY <1>2, <1>3, <1>4

LEMMA OrderStep == OrderInv /\ [Next]_vars => OrderInv'
<1> SUFFICES ASSUME OrderInv, [Next]_vars PROVE LocksInOrder'
  BY PlaceStep DEF OrderInv
<1>1. CASE Operate
  BY <1>1, OrderOperate DEF Operate
<1>2. CASE Produce
  BY <1>2 DEF Produce, Resolve, Append, Ring, OrderInv, LocksInOrder, Wanted
<1>3. CASE Live
  <2>1. UNCHANGED operators
    BY <1>3 DEF Live, Mount, Restore, Sync, Refresh, Rest, StartTurn, EndTurn,
       StartPurge, WipeReads, WipeCommits, PurgeFails, PurgeEnds
  <2> QED BY <2>1 DEF OrderInv, LocksInOrder, Wanted
<1>4. CASE UNCHANGED vars
  BY <1>4 DEF vars, OrderInv, LocksInOrder, Wanted
<1> QED BY <1>1, <1>2, <1>3, <1>4 DEF Next

\* Among finitely many rows one has the highest id: the one with the fewest
\* rows above it.
LEMMA HighestRow ==
  ASSUME NEW S \in SUBSET Conversations, S # {}
  PROVE  \E v \in S : \A w \in S : w <= v
<1> DEFINE Above(v) == {w \in Conversations : v < w}
           T == {Above(v) : v \in S}
<1>1. \A v \in Conversations : Above(v) \in FiniteSubsetsOf(Conversations)
  <2> SUFFICES ASSUME NEW v \in Conversations
               PROVE  Above(v) \in FiniteSubsetsOf(Conversations)
    OBVIOUS
  <2>1. Above(v) \in SUBSET Conversations
    OBVIOUS
  <2>2. IsFiniteSet(Above(v))
    BY <2>1, FS_Subset, ConversationsAssumption
  <2> QED BY <2>1, <2>2 DEF FiniteSubsetsOf
<1>2. T \subseteq FiniteSubsetsOf(Conversations) /\ T # {}
  BY <1>1
<1>3. IsWellFoundedOn(StrictSubsetOrdering(Conversations),
                      FiniteSubsetsOf(Conversations))
  BY FS_StrictSubsetOrderingWellFounded
<1> HIDE DEF T
<1>4. PICK least \in T : \A other \in T :
        ~ (<<other, least>> \in StrictSubsetOrdering(Conversations))
  BY <1>2, <1>3, WFMin
<1>5. PICK v \in S : least = Above(v)
  BY <1>4 DEF T
<1>6. ASSUME NEW w \in S, ~ (w <= v) PROVE FALSE
  <2>1. v < w /\ v \in Nat /\ w \in Nat
    BY <1>6, ConversationsAssumption
  <2>2. Above(w) \subseteq Above(v) /\ w \in Above(v) /\ w \notin Above(w)
    <3>1. \A x \in Conversations : w < x => v < x
      BY <2>1, ConversationsAssumption
    <3>2. ~ (w < w)
      BY <2>1
    <3> QED BY <2>1, <3>1, <3>2
  <2>3. <<Above(w), Above(v)>> \in StrictSubsetOrdering(Conversations)
    BY <2>2 DEF StrictSubsetOrdering
  <2> QED BY <1>4, <1>5, <2>3 DEF T
<1> QED BY <1>6

(***************************************************************************)
(* Moves never wait for each other in a circle: whatever Chats the         *)
(* operators move between whichever Conversations, one of those under way  *)
(* can go on, because move_chat_in_tx locks its rows ordered by id.        *)
(***************************************************************************)
THEOREM MovesGoOn == Spec => []MovesNeverDeadlock
<1>1. Init => OrderInv
  BY PlaceInit DEF Init, OrderInv, LocksInOrder
<1>2. OrderInv => MovesNeverDeadlock
  <2> SUFFICES ASSUME OrderInv, NEW m \in Operators, at[m] # "none",
                      \A n \in Operators : at[n] # "none" => Blocked(n)
               PROVE  FALSE
    BY DEF MovesNeverDeadlock, Underway
  <2> DEFINE Awaits(n, v) == at[n] = "locking" /\ NextToLock(n, v) /\ Locked(v)
             S == {v \in Conversations : \E n \in Operators : Awaits(n, v)}
  <2>1. S # {}
    BY DEF Blocked
  <2>2. PICK v \in S : \A w \in S : w <= v
    BY <2>1, HighestRow
  <2>3. PICK n \in Operators : v \in held[n]
    BY <2>2 DEF Locked
  <2>4. at[n] # "none"
    BY <2>3 DEF OrderInv, PlaceInv, TypeInv, MoveShape
  <2>5. PICK w \in Conversations : Awaits(n, w)
    BY <2>4 DEF Blocked
  <2>6. w \in S /\ v < w
    BY <2>3, <2>5 DEF OrderInv, LocksInOrder, NextToLock
  <2> QED BY <2>2, <2>6, ConversationsAssumption
<1> QED BY <1>1, <1>2, OrderStep, PTL DEF Spec
=============================================================================
