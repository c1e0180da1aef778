---------------------------- MODULE PacingProofs ----------------------------
(***************************************************************************)
(* Proofs about the clocks of a Conversation's agent (Pacing), for every   *)
(* length of its waits, every heat, every retry budget and every order of  *)
(* what arrives.                                                           *)
(***************************************************************************)
EXTENDS Pacing, FiniteSetTheorems, TLAPS

-----------------------------------------------------------------------------
(***************************************************************************)
(* What a batch of changes does to the clocks                              *)
(***************************************************************************)
\* What holds of 0 and goes from n to n + 1 holds up to N: the least n it does
\* not hold of would have a smaller one, as finite sets are well founded.
LEMMA CountsUp ==
  ASSUME NEW N \in Nat, NEW S, 0 \in S, \A n \in 0..(N - 1) : n \in S => n + 1 \in S
  PROVE  0..N \subseteq S
<1> SUFFICES ASSUME NEW m \in (0..N) \ S PROVE FALSE
  OBVIOUS
<1> DEFINE T == {1..n : n \in (0..N) \ S}
<1>1. \A n \in 0..N : IsFiniteSet(1..n) /\ 1..n \subseteq 1..N
  BY FS_Interval
<1>2. T \subseteq FiniteSubsetsOf(1..N) /\ T # {}
  BY <1>1 DEF FiniteSubsetsOf
<1>3. IsWellFoundedOn(StrictSubsetOrdering(1..N), FiniteSubsetsOf(1..N))
  BY FS_StrictSubsetOrderingWellFounded
<1> HIDE DEF T
<1>4. PICK least \in T : \A other \in T : ~(<<other, least>> \in StrictSubsetOrdering(1..N))
  BY <1>2, <1>3, WFMin
<1>5. PICK n \in (0..N) \ S : least = 1..n
  BY <1>4 DEF T
<1>6. n \in 1..N /\ n - 1 \in (0..N) \ S
  <2>1. n \in 1..N /\ n - 1 \in 0..(N - 1)
    BY <1>5
  <2> QED BY <1>5, <2>1
<1>7. 1..(n - 1) \in T
  BY <1>6 DEF T
<1>8. <<1..(n - 1), 1..n>> \in StrictSubsetOrdering(1..N)
  <2>1. /\ 1..(n - 1) \subseteq 1..n /\ n \in 1..n /\ n \notin 1..(n - 1)
        /\ 1..n \subseteq 1..N /\ 1..(n - 1) \subseteq 1..N
    BY <1>6
  <2> QED BY <2>1 DEF StrictSubsetOrdering
<1> QED BY <1>4, <1>5, <1>7, <1>8

Clock == [quiet : None..Debounce, window : 0..WindowSecs, heat : BaseHeat..MaxHeat,
          cooling : 0..(DecayStep - 1)]

\* The clocks after each of the first n changes.
Feeding(fed, n, state, changes) ==
  fed = [k \in 0..n |-> IF k = 0 THEN state ELSE OnEvent(fed[k - 1], changes[k])]

LEMMA FeedingExists ==
  ASSUME NEW changes \in Seq(Audiences), NEW state
  PROVE  \E fed : Feeding(fed, Len(changes), state, changes)
<1> DEFINE N == Len(changes)
           Good == {n \in 0..N : \E fed : Feeding(fed, n, state, changes)}
<1>1. N \in Nat
  OBVIOUS
<1> HIDE DEF N
<1>2. 0 \in Good
  <2>1. Feeding([k \in 0..0 |-> state], 0, state, changes)
    BY DEF Feeding
  <2> QED BY <1>1, <2>1
<1>3. ASSUME NEW n \in 0..(N - 1), n \in Good PROVE n + 1 \in Good
  <2>1. PICK fed : Feeding(fed, n, state, changes)
    BY <1>3
  <2> DEFINE next == [k \in 0..(n + 1) |-> IF k = n + 1 THEN OnEvent(fed[n], changes[n + 1])
                                                        ELSE fed[k]]
  <2>2. \A k \in 0..n : next[k] = fed[k]
    BY <1>1
  <2>3. /\ next[n + 1] = OnEvent(fed[n], changes[n + 1])
        /\ DOMAIN next = 0..(n + 1) /\ next = [k \in 0..(n + 1) |-> next[k]]
    BY <1>1
  <2> HIDE DEF next
  <2>4. ASSUME NEW k \in 0..(n + 1)
        PROVE  next[k] = IF k = 0 THEN state ELSE OnEvent(next[k - 1], changes[k])
    <3>1. CASE k = n + 1
      <4>1. k # 0 /\ k - 1 = n /\ n \in 0..n
        BY <1>1, <3>1
      <4> QED BY <2>2, <2>3, <3>1, <4>1
    <3>2. CASE k \in 1..n
      <4>1. k # 0 /\ k \in 0..n /\ k - 1 \in 0..n
        BY <1>1, <3>2
      <4> QED BY <2>1, <2>2, <4>1 DEF Feeding
    <3>3. CASE k = 0
      <4>1. 0 \in 0..n
        BY <1>1
      <4> QED BY <2>1, <2>2, <3>3, <4>1 DEF Feeding
    <3>4. k = n + 1 \/ k \in 1..n \/ k = 0
      BY <1>1
    <3> QED BY <3>1, <3>2, <3>3, <3>4
  <2>5. Feeding(next, n + 1, state, changes)
    BY <2>3, <2>4 DEF Feeding
  <2> QED BY <1>1, <2>5
<1> HIDE DEF Good
<1>4. 0..N \subseteq Good
  BY <1>1, <1>2, <1>3, CountsUp
<1>5. N \in Good
  BY <1>1, <1>4
<1> QED BY <1>5 DEF Good, N

\* One change leaves the clocks within their bounds, and one that wakes nobody
\* leaves the window alone.
LEMMA OnEventKeeps ==
  ASSUME NEW state \in Clock, NEW audience \in Audiences
  PROVE  /\ OnEvent(state, audience) \in Clock
         /\ audience # "agent" => OnEvent(state, audience).window = state.window
<1>1. /\ Debounce \in Nat /\ WindowSecs \in Nat /\ DecayStep \in Nat \ {0}
      /\ BaseHeat \in Nat /\ MaxHeat \in Nat /\ BaseHeat <= MaxHeat
  BY PacingAssumption
<1>2. CASE audience = "agent"
  BY <1>1, <1>2 DEF OnEvent, Clock, None
<1>3. CASE audience = "bystanders"
  BY <1>1, <1>3 DEF OnEvent, Clock, None
<1>4. CASE audience = "context"
  BY <1>4 DEF OnEvent
<1> QED BY <1>2, <1>3, <1>4 DEF Audiences

LEMMA FedKeeps ==
  ASSUME NEW changes \in Seq(Audiences), NEW state \in Clock
  PROVE  /\ Fed(state, changes) \in Clock
         /\ changes = <<>> => Fed(state, changes) = state
         /\ Wakes(changes) = {} => Fed(state, changes).window = state.window
<1> DEFINE N == Len(changes)
           fed == CHOOSE f : Feeding(f, N, state, changes)
<1>1. N \in Nat /\ DOMAIN changes = 1..N
  OBVIOUS
<1>2. fed = [k \in 0..N |-> IF k = 0 THEN state ELSE OnEvent(fed[k - 1], changes[k])]
  BY FeedingExists DEF Feeding
<1>3. Fed(state, changes) = fed[N]
  BY DEF Fed, Feeding
<1> HIDE DEF fed, N
<1> DEFINE Good == {n \in 0..N : /\ fed[n] \in Clock
                                 /\ Wakes(changes) = {} => fed[n].window = state.window}
<1>4. fed[0] = state /\ \A n \in 0..(N - 1) : fed[n + 1] = OnEvent(fed[n], changes[n + 1])
  <2>1. 0 \in 0..N
    BY <1>1
  <2>2. ASSUME NEW n \in 0..(N - 1) PROVE fed[n + 1] = OnEvent(fed[n], changes[n + 1])
    <3>1. n + 1 \in 0..N /\ n + 1 # 0 /\ (n + 1) - 1 = n
      BY <1>1
    <3> QED BY <1>2, <3>1
  <2> QED BY <1>2, <2>1, <2>2
<1>5. 0 \in Good
  BY <1>1, <1>4
<1>6. ASSUME NEW n \in 0..(N - 1), n \in Good PROVE n + 1 \in Good
  <2>1. n + 1 \in 0..N /\ n + 1 \in 1..N /\ changes[n + 1] \in Audiences
    BY <1>1
  <2>2. /\ OnEvent(fed[n], changes[n + 1]) \in Clock
        /\ changes[n + 1] # "agent" =>
             OnEvent(fed[n], changes[n + 1]).window = fed[n].window
    BY <1>6, <2>1, OnEventKeeps
  <2>3. Wakes(changes) = {} => changes[n + 1] # "agent"
    BY <1>1, <2>1 DEF Wakes
  <2> QED BY <1>4, <1>6, <2>1, <2>2, <2>3
<1>7. 0..N \subseteq Good
  <2> HIDE DEF Good
  <2> QED BY <1>1, <1>5, <1>6, CountsUp
<1>8. N \in Good /\ (changes = <<>> => N = 0)
  BY <1>1, <1>7 DEF N
<1> QED BY <1>3, <1>4, <1>8

LEMMA WakesFinite ==
  ASSUME NEW changes \in Seq(Audiences)
  PROVE  /\ IsFiniteSet(Wakes(changes)) /\ Cardinality(Wakes(changes)) \in Nat
         /\ Cardinality(Wakes(changes)) = 0 <=> Wakes(changes) = {}
         /\ changes = <<>> => Wakes(changes) = {}
<1>1. /\ IsFiniteSet(1..Len(changes)) /\ DOMAIN changes = 1..Len(changes)
      /\ changes = <<>> => Len(changes) = 0
  BY FS_Interval
<1>2. Wakes(changes) \subseteq 1..Len(changes)
  BY <1>1 DEF Wakes
<1>3. IsFiniteSet(Wakes(changes))
  BY <1>1, <1>2, FS_Subset
<1> QED BY <1>1, <1>2, <1>3, FS_CardinalityType, FS_EmptySet

LEMMA WakesPushed ==
  ASSUME NEW changes \in Seq(Audiences), NEW audience \in Audiences
  PROVE  Cardinality(Wakes(Append(changes, audience))) <= Cardinality(Wakes(changes)) + 1
<1> DEFINE W == Wakes(changes)
           last == Len(changes) + 1
           longer == Wakes(Append(changes, audience))
<1>1. IsFiniteSet(W) /\ Cardinality(W) \in Nat
  BY WakesFinite
<1>2. longer \subseteq W \cup {last}
  BY DEF Wakes
<1>3. /\ IsFiniteSet(W \cup {last})
      /\ Cardinality(W \cup {last}) \in {Cardinality(W), Cardinality(W) + 1}
  BY <1>1, FS_AddElement
<1>4. IsFiniteSet(longer) /\ Cardinality(longer) <= Cardinality(W \cup {last})
  BY <1>2, <1>3, FS_Subset
<1>5. Cardinality(longer) \in Nat
  BY <1>4, FS_CardinalityType
<1> QED BY <1>1, <1>3, <1>4, <1>5

-----------------------------------------------------------------------------
(***************************************************************************)
(* Types.  The batch holds no more reasons to wake than have arrived and   *)
(* are not in the store still; and a window open over nothing to answer is *)
(* the one a Turn left, so that it is no younger than the last run.        *)
(***************************************************************************)
Counted == pending + Cardinality(Wakes(unread)) <= arrivals
WindowIsYoung == window > 0 /\ pending = 0 => window + sinceRun <= WindowSecs

PaceInv == PacingTypeOK /\ Counted /\ WindowIsYoung

Numbers ==
  /\ quiet \in None..Debounce /\ window \in 0..WindowSecs
  /\ heat \in BaseHeat..MaxHeat /\ cooling \in 0..(DecayStep - 1)
  /\ sinceRun \in 0..(IdleTimeout + 1) /\ attempts \in 0..MaxRetries
  /\ owed \in None..Backoff /\ pause \in 0..Backoff
  /\ unread \in Seq(Audiences) /\ arrivals \in 0..MaxArrivals /\ panics \in 0..MaxPanics
  /\ pending \in 0..MaxArrivals
Flags == {rung, held, content, deferred} \subseteq BOOLEAN /\ late \in BOOLEAN
Places ==
  /\ pc \in Waiting \cup {"tick", "decide", "dispatch", "turn", "wrapup", "gone"}
  /\ ground \in {"none", "window", "heat", "retry"}
Holding == pending > 0 => held

LEMMA TypeParts == PacingTypeOK <=> Numbers /\ Flags /\ Places /\ Holding
BY DEF PacingTypeOK, Numbers, Flags, Places, Holding

LEMMA Constants ==
  /\ Debounce \in Nat \ {0} /\ WindowSecs \in Nat \ {0} /\ IdleTimeout \in Nat \ {0}
  /\ DecayStep \in Nat \ {0} /\ Backoff \in Nat \ {0} /\ MaxHeat \in Nat \ {0}
  /\ BaseHeat \in Nat /\ SpendHeat \in Nat /\ MaxRetries \in Nat /\ MaxArrivals \in Nat
  /\ MaxPanics \in Nat /\ BaseHeat <= MaxHeat /\ None = -1
BY PacingAssumption DEF None

\* What a refresh leaves.
Refreshed ==
  /\ quiet' \in None..Debounce /\ window' \in 0..WindowSecs
  /\ heat' \in BaseHeat..MaxHeat /\ cooling' \in 0..(DecayStep - 1)
  /\ attempts' \in 0..MaxRetries /\ owed' \in None..Backoff
  /\ unread' = <<>> /\ Cardinality(Wakes(unread')) = 0
  /\ pending' \in 0..arrivals /\ pending' >= pending
  /\ pending' = 0 => pending = 0 /\ window' = window
  /\ unread = <<>> => UNCHANGED <<quiet, window, heat, cooling, attempts, owed, pending>>

LEMMA RefreshDoes ==
  ASSUME PaceInv, Refresh
  PROVE  Refreshed /\ Holding' /\ held' \in BOOLEAN
<1>1. Numbers /\ Flags /\ Holding /\ Counted
  BY TypeParts DEF PaceInv
<1> DEFINE now == [quiet |-> quiet, window |-> window, heat |-> heat, cooling |-> cooling]
           fed == Fed(now, unread)
           woken == Cardinality(Wakes(unread))
<1>2. now \in Clock
  BY <1>1 DEF Numbers, Clock
<1>3. /\ fed \in Clock /\ (unread = <<>> => fed = now)
      /\ Wakes(unread) = {} => fed.window = now.window
  BY <1>1, <1>2, FedKeeps DEF Numbers
<1>4. /\ woken \in Nat /\ (woken = 0 <=> Wakes(unread) = {})
      /\ unread = <<>> => Wakes(unread) = {}
  BY <1>1, WakesFinite DEF Numbers
<1>5. /\ quiet' = fed.quiet /\ window' = fed.window /\ heat' = fed.heat
      /\ cooling' = fed.cooling /\ unread' = <<>> /\ pending' = pending + woken
      /\ held' = (held \/ unread # <<>>)
      /\ \/ unread # <<>> /\ attempts' = MaxRetries /\ owed' = None
         \/ unread = <<>> /\ UNCHANGED <<attempts, owed>>
  BY DEF Refresh
<1>6. now.quiet = quiet /\ now.window = window /\ now.heat = heat /\ now.cooling = cooling
  OBVIOUS
<1> HIDE DEF now, fed, woken
<1>7. /\ quiet' \in None..Debounce /\ window' \in 0..WindowSecs
      /\ heat' \in BaseHeat..MaxHeat /\ cooling' \in 0..(DecayStep - 1)
  BY <1>3, <1>5 DEF Clock
<1>8. attempts' \in 0..MaxRetries /\ owed' \in None..Backoff
  BY <1>1, <1>5, Constants DEF Numbers
<1>9. Cardinality(Wakes(unread')) = 0
  <2>1. <<>> \in Seq(Audiences)
    OBVIOUS
  <2>2. Cardinality(Wakes(<<>>)) = 0
    BY <2>1, WakesFinite
  <2> QED BY <1>5, <2>2
<1>10. /\ pending' \in 0..arrivals /\ pending' >= pending
       /\ pending' = 0 => pending = 0 /\ woken = 0
  BY <1>1, <1>4, <1>5, Constants DEF Numbers, Counted, woken
<1>11. pending' = 0 => window' = window
  BY <1>3, <1>4, <1>5, <1>6, <1>10
<1>12. unread = <<>> => UNCHANGED <<quiet, window, heat, cooling, attempts, owed, pending>>
  BY <1>1, <1>3, <1>4, <1>5, <1>6 DEF Numbers
<1>13. Refreshed
  BY <1>5, <1>7, <1>8, <1>9, <1>10, <1>11, <1>12 DEF Refreshed
<1>14. held' \in BOOLEAN
  BY <1>5, Zenon
<1>15. Holding'
  <2>1. CASE unread = <<>>
    <3>1. pending' = pending /\ (held => held')
      BY <1>5, <1>12, <2>1
    <3> QED BY <1>1, <3>1 DEF Holding
  <2>2. CASE unread # <<>>
    BY <1>5, <2>2 DEF Holding
  <2> QED BY <2>1, <2>2
<1> QED BY <1>13, <1>14, <1>15

\* What a failed attempt leaves.
LEMMA AttemptFails ==
  ASSUME PaceInv, NEW wait \in {0, Backoff}, FailAttempt(wait)
  PROVE  attempts' \in 0..MaxRetries /\ owed' \in None..Backoff
<1>1. attempts \in 0..MaxRetries /\ owed \in None..Backoff
  BY DEF PaceInv, PacingTypeOK
<1> QED BY <1>1, Constants DEF FailAttempt, Down

LEMMA HalfIsLess == \A n \in Nat : n \div 2 \in 0..n
OBVIOUS

LEMMA PassNumbers == ASSUME PaceInv, Pass PROVE Numbers' /\ Counted' /\ WindowIsYoung'
<1>1. Numbers /\ Counted /\ WindowIsYoung
  BY TypeParts DEF PaceInv
<1>2. /\ quiet' = Down(quiet) /\ window' = Down(window)
      /\ owed' = Down(owed) /\ pause' = Down(pause)
      /\ sinceRun' = IF sinceRun > IdleTimeout THEN sinceRun ELSE sinceRun + 1
      /\ Cool /\ UNCHANGED <<attempts, unread, pending, arrivals, panics>>
  BY DEF Pass, facts, counts
<1>3. /\ quiet' \in None..Debounce /\ window' \in 0..WindowSecs /\ owed' \in None..Backoff
      /\ pause' \in 0..Backoff /\ sinceRun' \in 0..(IdleTimeout + 1)
  BY <1>1, <1>2, Constants DEF Numbers, Down
<1>4. heat' \in BaseHeat..MaxHeat /\ cooling' \in 0..(DecayStep - 1)
  <2>1. /\ heat \in BaseHeat..MaxHeat /\ cooling \in 0..(DecayStep - 1)
        /\ heat - BaseHeat \in Nat
    BY <1>1, Constants DEF Numbers
  <2>2. CASE cooling' = cooling + 1 /\ cooling + 1 < DecayStep /\ heat' = heat
    BY <2>1, <2>2, Constants
  <2>3. CASE cooling' = 0 /\ heat' = heat
    BY <2>1, <2>3, Constants
  <2>4. CASE cooling' = 0 /\ heat' = BaseHeat + (heat - BaseHeat) \div 2
    <3> DEFINE half == (heat - BaseHeat) \div 2
    <3>1. half \in 0..(heat - BaseHeat)
      BY <2>1, HalfIsLess
    <3> HIDE DEF half
    <3>2. heat' = BaseHeat + half
      BY <2>4 DEF half
    <3> QED BY <2>1, <2>4, <3>1, <3>2, Constants
  <2> QED BY <1>2, <2>2, <2>3, <2>4 DEF Cool
<1>5. WindowIsYoung'
  BY <1>1, <1>2, Constants DEF WindowIsYoung, Numbers, Down
<1> QED BY <1>1, <1>2, <1>3, <1>4, <1>5 DEF Numbers, Counted

LEMMA ArriveNumbers == ASSUME PaceInv, Arrive PROVE Numbers' /\ Counted' /\ WindowIsYoung'
<1>1. Numbers /\ Counted /\ WindowIsYoung
  BY TypeParts DEF PaceInv
<1>2. PICK audience \in Audiences :
        /\ arrivals < MaxArrivals /\ arrivals' = arrivals + 1
        /\ unread' = Append(unread, audience) /\ UNCHANGED <<clocks, pending, panics>>
  BY DEF Arrive
<1>3. Cardinality(Wakes(unread')) <= Cardinality(Wakes(unread)) + 1
  BY <1>1, <1>2, WakesPushed DEF Numbers
<1>4. unread \in Seq(Audiences) /\ unread' \in Seq(Audiences)
  BY <1>1, <1>2 DEF Numbers
<1>5. Cardinality(Wakes(unread)) \in Nat /\ Cardinality(Wakes(unread')) \in Nat
  BY <1>4, WakesFinite
<1>6. Counted'
  BY <1>1, <1>2, <1>3, <1>5, Constants DEF Counted, Numbers
<1> QED BY <1>1, <1>2, <1>4, <1>6, Constants DEF Numbers, WindowIsYoung, clocks

\* The steps that read the batch anew.
LEMMA RefreshNumbers ==
  ASSUME PaceInv, Refresh, UNCHANGED <<sinceRun, pause, counts>>
  PROVE  Numbers' /\ Counted' /\ WindowIsYoung' /\ Holding' /\ held' \in BOOLEAN
<1>1. Numbers /\ Counted /\ WindowIsYoung
  BY TypeParts DEF PaceInv
<1>2. Refreshed /\ Holding' /\ held' \in BOOLEAN
  BY RefreshDoes
<1>3. Numbers'
  <2>1. unread' \in Seq(Audiences)
    BY <1>2 DEF Refreshed
  <2> QED BY <1>1, <1>2, <2>1, Constants DEF Numbers, Refreshed, counts
<1>4. Counted'
  BY <1>1, <1>2, Constants DEF Numbers, Refreshed, Counted, counts
<1>5. WindowIsYoung'
  BY <1>1, <1>2 DEF Refreshed, WindowIsYoung
<1> QED BY <1>2, <1>3, <1>4, <1>5

LEMMA AfterARun == ASSUME sinceRun' = 0, window' \in 0..WindowSecs PROVE WindowIsYoung'
<1>1. \A w \in 0..WindowSecs : w + 0 <= WindowSecs
  BY Constants
<1>2. window' + 0 <= WindowSecs
  BY <1>1
<1>3. window' + sinceRun' <= WindowSecs
  BY <1>2, Zenon
<1> QED BY <1>3 DEF WindowIsYoung

\* The steps that leave the clocks and the batch alone, but for an attempt.
LEMMA AttemptNumbers ==
  ASSUME PaceInv, attempts' \in 0..MaxRetries, owed' \in None..Backoff, pause' \in 0..Backoff,
         sinceRun' \in {0, sinceRun}, panics' \in 0..MaxPanics,
         UNCHANGED <<quiet, window, heat, cooling, unread, pending, arrivals>>
  PROVE  Numbers' /\ Counted' /\ WindowIsYoung'
<1>1. Numbers /\ Counted /\ WindowIsYoung
  BY TypeParts DEF PaceInv
<1>2. Numbers'
  BY <1>1, Constants DEF Numbers
<1>3. Counted'
  BY <1>1 DEF Counted
<1>4. WindowIsYoung'
  <2>1. CASE sinceRun' = 0
    <3>1. window' \in 0..WindowSecs
      BY <1>1 DEF Numbers
    <3> QED BY <2>1, <3>1, AfterARun
  <2>2. CASE sinceRun' = sinceRun
    BY <1>1, <2>2 DEF WindowIsYoung
  <2> QED BY <2>1, <2>2
<1> QED BY <1>2, <1>3, <1>4

LEMMA DecideNumbers == ASSUME PaceInv, Decide PROVE Numbers' /\ Counted' /\ WindowIsYoung'
<1>1. Numbers /\ Counted /\ WindowIsYoung
  BY TypeParts DEF PaceInv
<1>2. /\ quiet' = IF quiet = 0 THEN None ELSE quiet
      /\ heat' = heat \/ Spend
      /\ UNCHANGED <<window, cooling, sinceRun, attempts, owed, pause, unread, pending, arrivals,
                     panics>>
  BY DEF Decide, Defer, Activate, Expire, facts, counts
<1>3. quiet' \in None..Debounce
  BY <1>1, <1>2, Constants DEF Numbers
<1>4. heat' \in BaseHeat..MaxHeat
  BY <1>1, <1>2, Constants DEF Numbers, Spend
<1> QED BY <1>1, <1>2, <1>3, <1>4 DEF Numbers, Counted, WindowIsYoung

LEMMA TurnNumbers == ASSUME PaceInv, TurnDone PROVE Numbers' /\ Counted' /\ WindowIsYoung'
<1>1. Numbers /\ Counted /\ WindowIsYoung
  BY TypeParts DEF PaceInv
<1>2. PICK more \in 0..(pending - 1) :
        /\ sinceRun' = 0 /\ pending' = more /\ attempts' = MaxRetries /\ owed' = None
        /\ \/ window' = WindowSecs /\ heat' = MaxHeat /\ cooling' = 0
           \/ UNCHANGED <<window, heat, cooling>>
        /\ UNCHANGED <<quiet, pause, unread, arrivals, panics>>
  BY DEF TurnDone, EndRun, counts
<1>3. window' \in 0..WindowSecs /\ heat' \in BaseHeat..MaxHeat /\ cooling' \in 0..(DecayStep - 1)
  BY <1>1, <1>2, Constants DEF Numbers
<1>4. pending' \in 0..MaxArrivals /\ pending' <= pending /\ sinceRun' \in 0..(IdleTimeout + 1)
      /\ attempts' \in 0..MaxRetries /\ owed' \in None..Backoff
  BY <1>1, <1>2, Constants DEF Numbers
<1>5. Numbers'
  BY <1>1, <1>2, <1>3, <1>4 DEF Numbers
<1>6. Counted'
  <2>1. Cardinality(Wakes(unread)) \in Nat
    BY <1>1, WakesFinite DEF Numbers
  <2> QED BY <1>1, <1>2, <1>4, <2>1 DEF Counted, Numbers
<1>7. WindowIsYoung'
  <2>1. sinceRun' = 0
    BY <1>2
  <2>2. window' \in 0..WindowSecs
    BY <1>3
  <2> QED BY <2>1, <2>2, AfterARun
<1> QED BY <1>5, <1>6, <1>7

LEMMA NumbersStep == ASSUME PaceInv, [Next]_vars PROVE Numbers' /\ Counted' /\ WindowIsYoung'
<1>1. Numbers /\ Counted /\ WindowIsYoung
  BY TypeParts DEF PaceInv
<1>2. attempts \in 0..MaxRetries /\ owed \in None..Backoff /\ pause \in 0..Backoff
      /\ panics \in 0..MaxPanics
  BY <1>1 DEF Numbers
<1>3. CASE Settle
  <2>1. \/ Refresh /\ UNCHANGED <<sinceRun, pause, counts>>
        \/ UNCHANGED <<clocks, facts, counts>>
    BY <1>3 DEF Settle, clocks
  <2>2. CASE UNCHANGED <<clocks, facts, counts>>
    BY <1>1, <2>2 DEF clocks, facts, counts, Numbers, Counted, WindowIsYoung
  <2> QED BY <2>1, <2>2, RefreshNumbers
<1>4. CASE Wake
  BY <1>4, RefreshNumbers DEF Wake
<1>5. CASE SettleFails \/ WakeFails
  <2>1. FailAttempt(Backoff) /\ pause' \in {pause, Backoff}
        /\ UNCHANGED <<quiet, window, heat, cooling, sinceRun, unread, pending, counts>>
    BY <1>5 DEF SettleFails, WakeFails, facts
  <2>2. attempts' \in 0..MaxRetries /\ owed' \in None..Backoff
    BY <2>1, AttemptFails
  <2>3. pause' \in 0..Backoff
    BY <1>2, <2>1, Constants
  <2> QED BY <1>2, <2>1, <2>2, <2>3, AttemptNumbers DEF counts
<1>6. CASE Paused \/ Retry \/ Dispatch
  <2>1. /\ \/ UNCHANGED <<attempts, owed>>
           \/ FailAttempt(Backoff)
           \/ attempts' = attempts /\ owed' = None
        /\ UNCHANGED <<quiet, window, heat, cooling, sinceRun, pause, facts, counts>>
    BY <1>6 DEF Paused, Retry, Dispatch, clocks
  <2>2. attempts' \in 0..MaxRetries /\ owed' \in None..Backoff
    BY <1>2, <2>1, AttemptFails, Constants
  <2> QED BY <1>2, <2>1, <2>2, AttemptNumbers DEF facts, counts
<1>7. CASE TurnFails
  <2>1. PICK wait \in {0, Backoff} : FailAttempt(wait)
    BY <1>7 DEF TurnFails
  <2>2. attempts' \in 0..MaxRetries /\ owed' \in None..Backoff
    BY <2>1, AttemptFails
  <2>3. sinceRun' = 0 /\ UNCHANGED <<quiet, window, heat, cooling, pause, facts, counts>>
    BY <1>7 DEF TurnFails, EndRun
  <2> QED BY <1>2, <2>2, <2>3, AttemptNumbers DEF facts, counts
<1>8. CASE TurnPanics \/ WrapUpEnds
  <2>1. /\ sinceRun' = 0 /\ arrivals' = arrivals
        /\ panics' = panics \/ (panics < MaxPanics /\ panics' = panics + 1)
        /\ UNCHANGED <<quiet, window, heat, cooling, attempts, owed, pause, unread, pending>>
    BY <1>8 DEF TurnPanics, WrapUpEnds, EndRun, facts, counts
  <2>2. panics' \in 0..MaxPanics
    BY <1>2, <2>1, Constants
  <2> QED BY <1>2, <2>1, <2>2, AttemptNumbers
<1>9. CASE UNCHANGED vars
  BY <1>1, <1>9 DEF vars, clocks, facts, counts, Numbers, Counted, WindowIsYoung
<1> QED BY <1>3, <1>4, <1>5, <1>6, <1>7, <1>8, <1>9, PassNumbers, ArriveNumbers, DecideNumbers,
        TurnNumbers DEF Next, Step

LEMMA FlagsStep == ASSUME PaceInv, [Next]_vars PROVE Flags' /\ Places'
<1>1. Flags /\ Places
  BY TypeParts DEF PaceInv
<1>2. /\ rung \in BOOLEAN /\ held \in BOOLEAN /\ content \in BOOLEAN /\ deferred \in BOOLEAN
      /\ late \in BOOLEAN
  BY <1>1 DEF Flags
<1>3. rung' \in BOOLEAN
  <2>1. rung' = rung \/ rung' = TRUE \/ rung' = FALSE
    BY DEF Next, Step, Pass, Arrive, Settle, SettleFails, Paused, Retry, Wake, WakeFails, Decide,
           Dispatch, TurnDone, TurnFails, TurnPanics, WrapUpEnds, vars, facts
  <2> QED BY <1>2, <2>1
<1>4. held' \in BOOLEAN
  <2>1. CASE Refresh
    BY <2>1, RefreshDoes
  <2>2. CASE held' = held
    BY <1>2, <2>2
  <2>3. CASE TurnDone
    <3>1. PICK more \in 0..(pending - 1) : held' = (more > 0)
      BY <2>3 DEF TurnDone
    <3>2. held' = TRUE \/ held' = FALSE
      BY <3>1
    <3> QED BY <3>2
  <2> QED BY <2>1, <2>2, <2>3
          DEF Next, Step, Pass, Arrive, Settle, SettleFails, Paused, Retry, Wake, WakeFails,
              Decide, Dispatch, TurnFails, TurnPanics, WrapUpEnds, vars, facts
<1>5. content' \in BOOLEAN
  <2>1. content' = content \/ content' = TRUE \/ content' = FALSE
    BY DEF Next, Step, Pass, Arrive, Settle, SettleFails, Paused, Retry, Wake, WakeFails, Decide,
           Dispatch, TurnDone, TurnFails, TurnPanics, WrapUpEnds, vars, facts
  <2> QED BY <1>2, <2>1
<1>6. deferred' \in BOOLEAN
  <2>1. CASE Settle
    <3>1. deferred' = (deferred /\ unread = <<>>) \/ deferred' = deferred
      BY <2>1 DEF Settle
    <3>2. (deferred /\ unread = <<>>) \in BOOLEAN
      BY Zenon
    <3> QED BY <1>2, <3>1, <3>2
  <2>2. CASE deferred' = deferred \/ deferred' = TRUE \/ deferred' = FALSE
    BY <1>2, <2>2
  <2> QED BY <2>1, <2>2
          DEF Next, Step, Pass, Arrive, SettleFails, Paused, Retry, Wake, WakeFails, Decide, Defer,
              Expire, Activate, Dispatch, TurnDone, TurnFails, TurnPanics, WrapUpEnds, vars
<1>7. late' \in BOOLEAN
  <2>1. late' = late \/ late' = (sinceRun > IdleTimeout)
    BY DEF Next, Step, Pass, Arrive, Settle, SettleFails, Paused, Retry, Wake, WakeFails, Decide,
           Defer, Expire, Activate, Dispatch, TurnDone, TurnFails, TurnPanics, WrapUpEnds, vars
  <2>2. late' = (sinceRun > IdleTimeout) => late' = TRUE \/ late' = FALSE
    OBVIOUS
  <2> QED BY <1>2, <2>1, <2>2
<1>8. Places'
  BY <1>1 DEF Next, Step, Pass, Arrive, Settle, SettleFails, Paused, Retry, Wake, WakeFails, Decide,
              Defer, Expire, Activate, Dispatch, TurnDone, TurnFails, TurnPanics, WrapUpEnds,
              EndRun, vars, Places, Waiting
<1> QED BY <1>3, <1>4, <1>5, <1>6, <1>7, <1>8 DEF Flags

LEMMA HoldingStep == ASSUME PaceInv, [Next]_vars PROVE Holding'
<1>1. Holding /\ pending \in 0..MaxArrivals
  BY TypeParts DEF PaceInv, Numbers
<1>2. CASE Refresh
  BY <1>2, RefreshDoes
<1>3. CASE UNCHANGED <<pending, held>>
  BY <1>1, <1>3 DEF Holding
<1>4. CASE TurnDone
  BY <1>4 DEF TurnDone, Holding
<1> QED BY <1>2, <1>3, <1>4
        DEF Next, Step, Pass, Arrive, Settle, SettleFails, Paused, Retry, Wake, WakeFails, Decide,
            Dispatch, TurnFails, TurnPanics, WrapUpEnds, vars, facts

LEMMA PaceInit == Init => PaceInv
<1> SUFFICES ASSUME Init PROVE PaceInv
  OBVIOUS
<1>1. <<>> \in Seq(Audiences)
  OBVIOUS
<1>2. Cardinality(Wakes(<<>>)) = 0
  BY <1>1, WakesFinite
<1>3. Numbers
  BY <1>1, Constants DEF Init, Numbers
<1>4. Flags
  BY DEF Init, Flags
<1>5. Places /\ Holding
  BY DEF Init, Places, Waiting, Holding
<1>6. Counted /\ WindowIsYoung
  BY <1>2 DEF Init, Counted, WindowIsYoung
<1> QED BY <1>3, <1>4, <1>5, <1>6, TypeParts DEF PaceInv

LEMMA PaceStep == ASSUME PaceInv, [Next]_vars PROVE PaceInv'
<1>1. /\ Numbers' /\ Counted' /\ WindowIsYoung'
      /\ Flags' /\ Places' /\ Holding'
  BY NumbersStep, FlagsStep, HoldingStep
<1>2. PacingTypeOK'
  BY <1>1 DEF PacingTypeOK, Numbers, Flags, Places, Holding
<1> QED BY <1>1, <1>2 DEF PaceInv

(* The clocks stay within what the code gives them: no instant lies further*)
(* off than the wait that set it, the heat moves between the base and the  *)
(* maximum (Heat::spend and decay never take it lower), no attempt is spent*)
(* that the budget does not have, and the batch holds no more reasons to   *)
(* wake than have arrived.                                                 *)
THEOREM PacingTypes == Spec => []PacingTypeOK
<1>1. Spec => []PaceInv
  BY PaceInit, PaceStep, PTL DEF Spec
<1>2. PaceInv => PacingTypeOK
  BY DEF PaceInv
<1> QED BY <1>1, <1>2, PTL


-----------------------------------------------------------------------------
(***************************************************************************)
(* A tick that decided nothing.  Only time, a change and a failed read can *)
(* alter what it decided by, and the first two end the spell; a failed     *)
(* read ends it too, or is waited out.                                     *)
(***************************************************************************)
\* What EventScheduler::decide deferred on.
DeferredOn ==
  \/ quiet > 0
  \/ quiet = None /\ window > 0 /\ ~HasWakeReason
  \/ quiet = None /\ window = 0 /\ sinceRun <= IdleTimeout

DeferInv ==
  /\ deferred /\ pc \in {"tick", "wait", "owed"} => DeferredOn
  /\ deferred /\ pc = "pause" => pause > 0
  /\ pc \in {"dispatch", "turn", "wrapup"} => ~deferred

LEMMA DecideDefers == ASSUME PaceInv, Decide PROVE DeferInv'
<1>1. quiet \in None..Debounce /\ window \in 0..WindowSecs
  BY TypeParts DEF PaceInv, Numbers
<1>2. /\ quiet' = IF quiet = 0 THEN None ELSE quiet
      /\ UNCHANGED <<window, sinceRun, attempts, pending>>
  BY DEF Decide, facts
<1>3. quiet > 0 => quiet' > 0
  BY <1>1, <1>2, Constants
<1>4. ~(quiet > 0) => quiet' = None
  BY <1>1, <1>2, Constants
<1>5. \/ pc' = "tick" /\ quiet > 0
      \/ pc' = "tick" /\ ~(quiet > 0) /\ window > 0 /\ ~HasWakeReason
      \/ pc' = "tick" /\ ~(quiet > 0) /\ window = 0 /\ ~(sinceRun > IdleTimeout)
      \/ pc' \in {"dispatch", "wrapup", "gone"} /\ deferred' = FALSE
  BY <1>1, Constants DEF Decide, Defer, Activate, Expire, Expired
<1>6. sinceRun \in 0..(IdleTimeout + 1)
  BY TypeParts DEF PaceInv, Numbers
<1>7. HasWakeReason' <=> HasWakeReason
  BY <1>2 DEF HasWakeReason
<1>8. CASE pc' = "tick"
  <2>1. DeferredOn'
    BY <1>2, <1>3, <1>4, <1>5, <1>6, <1>7, <1>8, Constants DEF DeferredOn
  <2> QED BY <1>8, <2>1 DEF DeferInv
<1>9. CASE pc' # "tick"
  BY <1>5, <1>9 DEF DeferInv
<1> QED BY <1>8, <1>9

LEMMA SettleDefers == ASSUME PaceInv, DeferInv, Settle PROVE DeferInv'
<1>1. pc = "tick" /\ pc' \in {"owed", "wait"} /\ sinceRun' = sinceRun
  BY DEF Settle
<1>2. ASSUME deferred' PROVE DeferredOn'
  <2>1. deferred /\ UNCHANGED <<quiet, window, attempts, pending>>
    <3>1. CASE held \/ window > 0
      <4>1. Refresh /\ deferred /\ unread = <<>>
        BY <1>2, <3>1 DEF Settle
      <4>2. Refreshed
        BY <4>1, RefreshDoes
      <4> QED BY <4>1, <4>2 DEF Refreshed
    <3>2. CASE ~(held \/ window > 0)
      BY <1>2, <3>2 DEF Settle, clocks, facts
    <3> QED BY <3>1, <3>2
  <2>2. DeferredOn
    BY <1>1, <2>1 DEF DeferInv
  <2> QED BY <1>1, <2>1, <2>2 DEF DeferredOn, HasWakeReason
<1> QED BY <1>1, <1>2 DEF DeferInv

LEMMA DeferStep == ASSUME PaceInv, DeferInv, [Next]_vars PROVE DeferInv'
<1>1. pause \in 0..Backoff /\ Backoff \in Nat \ {0}
  BY Constants, TypeParts DEF PaceInv, Numbers
<1>2. CASE Pass \/ Arrive \/ WakeFails \/ Retry
  <2>1. deferred' = FALSE
    BY <1>2 DEF Pass, Arrive, WakeFails, Retry, Activate
  <2> QED BY <2>1 DEF DeferInv
<1>3. CASE Settle
  BY <1>3, SettleDefers
<1>4. CASE SettleFails
  BY <1>1, <1>4 DEF SettleFails, DeferInv
<1>5. CASE Paused
  BY <1>5 DEF Paused, DeferInv
<1>6. CASE Wake
  BY <1>6 DEF Wake, DeferInv
<1>7. CASE Decide
  BY <1>7, DecideDefers
<1>8. CASE Dispatch \/ TurnDone \/ TurnFails \/ TurnPanics \/ WrapUpEnds
  <2>1. pc \in {"dispatch", "turn", "wrapup"} /\ deferred' = deferred
    BY <1>8 DEF Dispatch, TurnDone, TurnFails, TurnPanics, WrapUpEnds
  <2> QED BY <2>1 DEF DeferInv
<1>9. CASE UNCHANGED vars
  BY <1>9 DEF vars, clocks, facts, DeferInv, DeferredOn, HasWakeReason
<1> QED BY <1>2, <1>3, <1>4, <1>5, <1>6, <1>7, <1>8, <1>9 DEF Next, Step

\* What is left of the wait of a tick that decided nothing, whatever the
\* window and the expiry are set to.
OnlyTheExpiryIsDueAtOnce ==
  deferred /\ pc = "wait" /\ Deadline = 0 =>
    sinceRun = IdleTimeout \/ (sinceRun > IdleTimeout /\ window > 0 /\ ~HasWakeReason)

LEMMA DeferredWaits == PaceInv /\ DeferInv => OnlyTheExpiryIsDueAtOnce
<1> SUFFICES ASSUME PaceInv, DeferInv, deferred, pc = "wait", Deadline = 0
             PROVE  \/ sinceRun = IdleTimeout
                    \/ sinceRun > IdleTimeout /\ window > 0 /\ ~HasWakeReason
  BY DEF OnlyTheExpiryIsDueAtOnce
<1>1. /\ quiet \in None..Debounce /\ window \in 0..WindowSecs
      /\ sinceRun \in 0..(IdleTimeout + 1)
  BY TypeParts DEF PaceInv, Numbers
<1>2. DeferredOn
  BY DEF DeferInv
<1>3. quiet = None
  BY <1>1, <1>2, Constants DEF DeferredOn, Deadline
<1>4. ~(HasWakeReason /\ window > 0)
  BY <1>1, <1>2, <1>3, Constants DEF DeferredOn
<1>5. sinceRun >= IdleTimeout
  BY <1>1, <1>3, <1>4, Constants DEF Deadline
<1> QED BY <1>1, <1>2, <1>3, <1>5, Constants DEF DeferredOn

(* Whatever the window and the expiry are set to, a tick that decided      *)
(* nothing is due again at the same instant in two cases only: at the very *)
(* instant of the expiry (decide compares with >, next_deadline does not), *)
(* and with an attention window open past it over nothing to answer.       *)
THEOREM OnlyTheExpirySpins == Spec => []OnlyTheExpiryIsDueAtOnce
<1>1. Init => DeferInv
  BY DEF Init, DeferInv
<1>2. Spec => [](PaceInv /\ DeferInv)
  BY <1>1, PaceInit, PaceStep, DeferStep, PTL DEF Spec
<1> QED BY <1>2, DeferredWaits, PTL

(* A tick that decided nothing waits for something. Where the window is no *)
(* longer than the expiry, which the configuration does not enforce, the   *)
(* second of the two cases needs a batch whose attempts are spent: a window*)
(* over an empty batch was left by a Turn, and closes before the expiry.   *)
THEOREM DeferredTicksSleep ==
  ASSUME WindowSecs <= IdleTimeout
  PROVE  Spec => []ADeferredTickWaits
<1>1. PaceInv /\ OnlyTheExpiryIsDueAtOnce => ADeferredTickWaits
  <2> SUFFICES ASSUME PaceInv, OnlyTheExpiryIsDueAtOnce, deferred, pc = "wait", Deadline = 0,
                      sinceRun # IdleTimeout
               PROVE  sinceRun > IdleTimeout /\ window > 0 /\ attempts = 0
    BY DEF ADeferredTickWaits
  <2>1. sinceRun > IdleTimeout /\ window > 0 /\ ~HasWakeReason
    BY DEF OnlyTheExpiryIsDueAtOnce
  <2>2. /\ window \in 0..WindowSecs /\ sinceRun \in 0..(IdleTimeout + 1)
        /\ attempts \in 0..MaxRetries /\ pending \in 0..MaxArrivals
    BY TypeParts DEF PaceInv, Numbers
  <2>3. pending # 0
    <3>1. pending = 0 => window + sinceRun <= WindowSecs
      BY <2>1 DEF PaceInv, WindowIsYoung
    <3> QED BY <2>1, <2>2, <3>1, Constants
  <2> QED BY <2>1, <2>2, <2>3, Constants DEF HasWakeReason
<1>2. Spec => []PaceInv
  BY PaceInit, PaceStep, PTL DEF Spec
<1> QED BY <1>1, <1>2, OnlyTheExpirySpins, PTL
=============================================================================
