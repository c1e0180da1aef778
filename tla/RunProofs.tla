------------------------------ MODULE RunProofs ------------------------------
(***************************************************************************)
(* Proofs about one run of the model and what it sends (Run, Outbound) for *)
(* every role, budget, bound and answer.  A step of a run is one of its    *)
(* own, one of the send at hand, or a person writing; the first kind       *)
(* leaves what went out alone, the others leave the loop alone.            *)
(***************************************************************************)
EXTENDS Run, FiniteSetTheorems, TLAPS

-----------------------------------------------------------------------------
(***************************************************************************)
(* What goes out                                                           *)
(***************************************************************************)
\* The steps of Outbound, as a run takes them.
OutStep == \/ \E kind \in {"text", "media"}, reference \in 0..Len(thread) :
                BeginSend(kind, reference)
           \/ SendStep \/ PersonWrites

Forms == {"rich", "markdown", "plain", "media"}

LEMMA FormTypes ==
  /\ TextForms \in Seq(Forms) /\ Len(TextForms) > 0
  /\ MediaForms \in Seq(Forms) /\ Len(MediaForms) > 0
<1>1. CASE RichMessage
  BY <1>1 DEF TextForms, MediaForms, Forms
<1>2. CASE ~RichMessage
  BY <1>2 DEF TextForms, MediaForms, Forms
<1> QED BY <1>1, <1>2

\* A copy belongs to a send that has begun, and what is on the wire has a form.
OutShape ==
  /\ \A i \in DOMAIN left : left[i] <= calls
  /\ sending \in {"resolve", "wire"} => Len(forms) > 0
  /\ sending = "record" => Len(left) > 0 /\ left[Len(left)] = calls

OutInv == OutTypeOK /\ OutShape

LEMMA Nothing == \A S : <<>> \in Seq(S)
OBVIOUS

LEMMA OverType ==
  ASSUME NEW how, Over(how)
  PROVE  /\ sending' = how /\ forms' \in Seq(Forms)
         /\ target' = 0 /\ linked' \in BOOLEAN 
BY Nothing DEF Over

LEMMA NextFormType ==
  ASSUME OutInv, sending = "wire", NextForm
  PROVE  /\ sending' \in {"wire", "refused"} /\ forms' \in Seq(Forms)
         /\ linked' \in BOOLEAN /\ target' \in Nat
         /\ sending' = "wire" => Len(forms') > 0 /\ UNCHANGED <<linked, target>>
<1> USE DEF OutInv, OutTypeOK, OutShape, Forms
<1>1. CASE Len(forms) > 1
  <2>1. forms' = Tail(forms) /\ UNCHANGED <<sending, target, linked>>
    BY <1>1 DEF NextForm
  <2>2. Tail(forms) \in Seq(Forms) /\ Len(Tail(forms)) > 0
    BY <1>1
  <2> QED BY <2>1, <2>2
<1>2. CASE ~ (Len(forms) > 1)
  <2>1. Over("refused")
    BY <1>2 DEF NextForm
  <2> QED BY <2>1, OverType
<1> QED BY <1>1, <1>2

LEMMA OutInit0 == OutInit => OutInv
<1> SUFFICES ASSUME OutInit PROVE OutInv
  OBVIOUS
<1>1. thread \in Seq({"user", "agent"}) /\ Len(thread) = 1
  BY DEF OutInit
<1>2. forms \in Seq(Forms) /\ left \in Seq(Nat) /\ DOMAIN left = {}
  BY Nothing DEF OutInit
<1>3. OutTypeOK
  <2>1. rows \subseteq DOMAIN left /\ lost \in 0..MaxLost
    BY OutboundAssumption DEF OutInit
  <2>3. linked \in BOOLEAN
    BY Zenon DEF OutInit
  <2>2. calls \in Nat /\ target \in Nat /\ sending = "idle"
    BY DEF OutInit
  <2> QED BY <1>1, <1>2, <2>1, <2>2, <2>3 DEF OutTypeOK, Forms
<1>4. OutShape
  BY <1>1, <1>2 DEF OutInit, OutShape
<1> QED BY <1>3, <1>4 DEF OutInv

LEMMA BeginSendType ==
  ASSUME OutInv, NEW kind \in {"text", "media"}, NEW reference \in 0..Len(thread),
         BeginSend(kind, reference)
  PROVE  OutInv'
<1> USE DEF OutInv, OutTypeOK, OutShape
<1>1. forms' \in Seq(Forms) /\ Len(forms') > 0
  BY FormTypes DEF BeginSend
<1>2. target' \in Nat /\ calls' = calls + 1
  BY DEF BeginSend
<1> QED BY <1>1, <1>2 DEF BeginSend, Forms

LEMMA TakenType ==
  ASSUME OutInv, Taken, calls' = calls
  PROVE  /\ left' \in Seq(Nat) /\ DOMAIN left \subseteq DOMAIN left'
         /\ \A i \in DOMAIN left' : left'[i] <= calls'
         /\ Len(left') = Len(left) + 1 /\ left'[Len(left')] = calls'
BY DEF OutInv, OutTypeOK, OutShape, Taken

LEMMA SendStepType == ASSUME OutInv, SendStep PROVE OutInv'
<1> USE DEF OutInv, OutTypeOK, OutShape
<1>1. CASE RefuseSend
  BY <1>1, OverType DEF RefuseSend, Forms
<1>2. CASE ResolveSend
  <2>1. PICK quoting \in BOOLEAN : linked' = CarriesLink(quoting)
    BY <1>2 DEF ResolveSend
  <2>2. CarriesLink(quoting) \in BOOLEAN
    BY Zenon DEF CarriesLink
  <2> QED BY <1>2, <2>1, <2>2 DEF ResolveSend
<1>3. CASE WireTakes
  BY <1>3, TakenType DEF WireTakes
<1>4. CASE WireRefuses
  BY <1>4, NextFormType DEF WireRefuses, Forms
<1>5. CASE WireAnswerLost
  <2>1. lost' \in 0..MaxLost
    BY <1>5, OutboundAssumption DEF WireAnswerLost
  <2>2. calls' = calls /\ Taken /\ NextForm /\ UNCHANGED <<thread, rows>>
    BY <1>5 DEF WireAnswerLost
  <2>3. /\ left' \in Seq(Nat) /\ DOMAIN left \subseteq DOMAIN left'
        /\ \A i \in DOMAIN left' : left'[i] <= calls'
    BY <2>2, TakenType
  <2>4. /\ sending' \in {"wire", "refused"} /\ forms' \in Seq(Forms)
        /\ linked' \in BOOLEAN /\ target' \in Nat
        /\ sending' = "wire" => Len(forms') > 0
    BY <1>5, <2>2, NextFormType DEF WireAnswerLost
  <2> QED BY <2>1, <2>2, <2>3, <2>4 DEF Forms
<1>6. CASE RecordSend
  BY <1>6, OverType DEF RecordSend, Forms
<1>7. CASE RecordFails
  BY <1>7, OverType, OutboundAssumption DEF RecordFails, Forms
<1> QED BY <1>1, <1>2, <1>3, <1>4, <1>5, <1>6, <1>7 DEF SendStep

LEMMA OutStepType == ASSUME OutInv, OutStep PROVE OutInv'
<1>1. CASE PersonWrites
  BY <1>1 DEF PersonWrites, OutInv, OutTypeOK, OutShape
<1> QED BY <1>1, BeginSendType, SendStepType DEF OutStep

-----------------------------------------------------------------------------
(***************************************************************************)
(* The rows.  The send at hand has no row until its receipt is recorded,   *)
(* and every copy without a row is one whose answer or row was lost, or    *)
(* the one whose receipt is still to be recorded.                          *)
(***************************************************************************)
Unrecorded == DOMAIN left \ rows
OneOnItsWay == IF sending = "record" THEN 1 ELSE 0

Accounts ==
  /\ sending \in {"resolve", "wire", "record", "refused"} => rows \cap CopiesOf(calls) = {}
  /\ sending = "sent" => rows \cap CopiesOf(calls) = {Len(left)}
  /\ Cardinality(Unrecorded) <= lost + OneOnItsWay

SendInv == OutInv /\ Accounts

LEMMA UnrecordedFinite ==
  ASSUME OutInv PROVE IsFiniteSet(Unrecorded) /\ Cardinality(Unrecorded) \in Nat
<1>1. DOMAIN left = 1..Len(left) /\ Len(left) \in Nat
  BY DEF OutInv, OutTypeOK
<1>2. IsFiniteSet(1..Len(left))
  BY <1>1, FS_Interval
<1>3. Unrecorded \in SUBSET (1..Len(left))
  BY <1>1 DEF Unrecorded
<1> QED BY <1>2, <1>3, FS_Subset, FS_CardinalityType

\* A copy that leaves has no row yet, and adds one to those without.
LEMMA TakenCounts ==
  ASSUME OutInv, Taken, rows' = rows, calls' = calls
  PROVE  /\ rows' \cap CopiesOf(calls)' = rows \cap CopiesOf(calls)
         /\ Cardinality(Unrecorded') = Cardinality(Unrecorded) + 1
<1> DEFINE n == Len(left) + 1
<1>1. left \in Seq(Nat) /\ calls \in Nat /\ left' = Append(left, calls)
      /\ rows \subseteq DOMAIN left
  BY DEF OutInv, OutTypeOK, Taken
<1>2. /\ DOMAIN left = 1..Len(left) /\ DOMAIN left' = 1..n /\ Len(left) \in Nat
      /\ \A i \in DOMAIN left : left'[i] = left[i]
  BY <1>1
<1>3. DOMAIN left' = DOMAIN left \cup {n} /\ n \notin DOMAIN left
  BY <1>2
<1> HIDE DEF n
<1>4. rows' \cap CopiesOf(calls)' = rows \cap CopiesOf(calls)
  BY <1>1, <1>2, <1>3 DEF CopiesOf
<1>5. Unrecorded' = Unrecorded \cup {n} /\ n \notin Unrecorded
  BY <1>1, <1>3 DEF Unrecorded
<1>6. IsFiniteSet(Unrecorded) /\ Cardinality(Unrecorded) \in Nat
  BY UnrecordedFinite
<1>7. Cardinality(Unrecorded \cup {n}) = Cardinality(Unrecorded) + 1
  BY <1>5, <1>6, FS_AddElement
<1> QED BY <1>4, <1>5, <1>7

LEMMA AccountsKept ==
  ASSUME SendInv, UNCHANGED <<left, rows, calls, lost>>,
         \/ sending' = sending
         \/ sending \in {"resolve", "wire"} /\ sending' \in {"wire", "refused"}
  PROVE  Accounts'
<1>1. CopiesOf(calls)' = CopiesOf(calls) /\ Unrecorded' = Unrecorded
  BY DEF CopiesOf, Unrecorded
<1> QED BY <1>1 DEF SendInv, Accounts, OneOnItsWay

LEMMA SendCounts == ASSUME SendInv, SendStep PROVE Accounts'
<1>1. /\ OutTypeOK /\ OutShape /\ OutInv /\ Accounts
      /\ Cardinality(Unrecorded) \in Nat
  BY UnrecordedFinite DEF SendInv, OutInv
<1>2. CASE RefuseSend \/ ResolveSend \/ WireRefuses
  <2>1. /\ sending \in {"resolve", "wire"} /\ sending' \in {"wire", "refused"}
        /\ UNCHANGED <<left, rows, calls>>
    BY <1>1, <1>2, NextFormType DEF RefuseSend, ResolveSend, WireRefuses, Over
  <2>2. lost' = lost
    BY <1>2 DEF RefuseSend, ResolveSend, WireRefuses
  <2> QED BY <2>1, <2>2, AccountsKept
<1>3. CASE WireTakes \/ WireAnswerLost
  <2>1. /\ sending = "wire" /\ Taken /\ UNCHANGED <<calls, rows>>
        /\ \/ sending' = "record" /\ lost' = lost
           \/ sending' \in {"wire", "refused"} /\ lost' = lost + 1
    BY <1>1, <1>3, NextFormType DEF WireTakes, WireAnswerLost
  <2>2. /\ rows' \cap CopiesOf(calls)' = rows \cap CopiesOf(calls)
        /\ Cardinality(Unrecorded') = Cardinality(Unrecorded) + 1
    BY <1>1, <2>1, TakenCounts
  <2>3. Cardinality(Unrecorded) <= lost /\ rows \cap CopiesOf(calls) = {}
        /\ lost \in Nat
    BY <1>1, <2>1, OutboundAssumption DEF Accounts, OneOnItsWay, OutTypeOK
  <2>4. Cardinality(Unrecorded)' <= lost' + OneOnItsWay'
    BY <1>1, <2>1, <2>2, <2>3 DEF OneOnItsWay
  <2> QED BY <2>1, <2>2, <2>3, <2>4 DEF Accounts
<1>4. CASE RecordSend
  <2> DEFINE n == Len(left)
  <2>1. /\ sending = "record" /\ sending' = "sent" /\ rows' = rows \cup {n}
        /\ UNCHANGED <<calls, left, lost>>
    BY <1>4 DEF RecordSend, Over
  <2>2. n \in DOMAIN left /\ left[n] = calls /\ rows \cap CopiesOf(calls) = {}
    BY <1>1, <2>1 DEF OutTypeOK, OutShape, Accounts
  <2>3. n \in CopiesOf(calls) /\ CopiesOf(calls)' = CopiesOf(calls)
    BY <2>1, <2>2 DEF CopiesOf
  <2>4. rows' \cap CopiesOf(calls)' = {Len(left)'}
    BY <2>1, <2>2, <2>3
  <2>5. n \in Unrecorded
    BY <2>2, <2>3 DEF Unrecorded
  <2>6. Unrecorded' = Unrecorded \ {n}
    BY <2>1 DEF Unrecorded
  <2> HIDE DEF n
  <2>7. Cardinality(Unrecorded') = Cardinality(Unrecorded) - 1
    BY <1>1, <2>5, <2>6, UnrecordedFinite, FS_RemoveElement
  <2>8. Cardinality(Unrecorded)' <= lost' + OneOnItsWay'
    BY <1>1, <2>1, <2>7, OutboundAssumption DEF Accounts, OneOnItsWay, OutTypeOK
  <2> QED BY <2>1, <2>4, <2>8 DEF Accounts
<1>5. CASE RecordFails
  <2>1. /\ sending = "record" /\ sending' = "refused" /\ lost' = lost + 1
        /\ UNCHANGED <<calls, left, rows>>
    BY <1>5 DEF RecordFails, Over
  <2>2. Unrecorded' = Unrecorded /\ CopiesOf(calls)' = CopiesOf(calls)
    BY <2>1 DEF Unrecorded, CopiesOf
  <2> QED BY <1>1, <2>1, <2>2, OutboundAssumption
          DEF Accounts, OneOnItsWay, OutTypeOK
<1> QED BY <1>2, <1>3, <1>4, <1>5 DEF SendStep

LEMMA SendInvStep == ASSUME SendInv, OutStep PROVE SendInv'
<1> SUFFICES Accounts'
  BY OutStepType DEF SendInv
<1>1. CASE SendStep
  BY <1>1, SendCounts
<1>2. CASE PersonWrites
  BY <1>2, AccountsKept DEF PersonWrites
<1>3. ASSUME NEW kind \in {"text", "media"}, NEW reference \in 0..Len(thread),
             BeginSend(kind, reference)
      PROVE  Accounts'
  <2>1. /\ sending' = "resolve" /\ calls' = calls + 1 /\ sending # "record"
        /\ UNCHANGED <<left, rows, lost>>
    BY <1>3 DEF BeginSend
  <2>2. CopiesOf(calls)' = {}
    BY <2>1 DEF CopiesOf, SendInv, OutInv, OutTypeOK, OutShape
  <2>3. Unrecorded' = Unrecorded
    BY <2>1 DEF Unrecorded
  <2> QED BY <2>1, <2>2, <2>3 DEF SendInv, Accounts, OneOnItsWay
<1> QED BY <1>1, <1>2, <1>3 DEF OutStep

-----------------------------------------------------------------------------
(***************************************************************************)
(* The loop                                                                *)
(***************************************************************************)
\* A run in hand has used up one contract retry at most, and only the default
\* role may speak.
LoopShape ==
  /\ pc # "over" => violations <= 1 /\ ended = "running"
  /\ pc = "send" => role = "default" /\ at <= Len(called)
  /\ pc = "tools" => at \in 1..(Len(called) + 1)
  /\ pc = "model" => at = 1
  /\ ended # "running" => pc = "over"

LEMMA NoteType ==
  ASSUME NEW kind \in Kinds, NEW n \in Nat
  PROVE  Note(kind, n) \in Message
BY DEF Note, Message

LEMMA NoticedType ==
  ASSUME step \in Nat, messages \in Seq(Message), transient \in Seq(Nat),
         NEW due \in BOOLEAN,
         Noticed(IF due THEN <<"budget">> ELSE <<>>)
  PROVE  /\ messages' \in Seq(Message) /\ transient' \in Seq(Nat)
         /\ due => /\ messages' = Append(messages, Note("budget", step))
                   /\ transient' = Append(transient, Len(messages) + 1)
         /\ ~due => messages' = messages /\ transient' = transient
<1>1. Note("budget", step) \in Message
  BY NoteType DEF Kinds, Notices
<1>2. CASE due
  <2> DEFINE kinds == <<"budget">>
             more == [i \in DOMAIN kinds |-> Note(kinds[i], step)]
             places == [i \in DOMAIN kinds |-> Len(messages) + i]
  <2>1. more = <<Note("budget", step)>>
    OBVIOUS
  <2>2. places = <<Len(messages) + 1>>
    OBVIOUS
  <2>3. messages' = messages \o more /\ transient' = transient \o places
    BY <1>2 DEF Noticed
  <2>4. messages \o <<Note("budget", step)>> = Append(messages, Note("budget", step))
    BY <1>1
  <2>5. transient \o <<Len(messages) + 1>> = Append(transient, Len(messages) + 1)
    OBVIOUS
  <2> QED BY <1>1, <1>2, <2>1, <2>2, <2>3, <2>4, <2>5
<1>3. CASE ~due
  <2> DEFINE more == [i \in DOMAIN (<<>>) |-> Note((<<>>)[i], step)]
             places == [i \in DOMAIN (<<>>) |-> Len(messages) + i]
  <2>1. more = <<>> /\ places = <<>>
    OBVIOUS
  <2>2. messages' = messages \o more /\ transient' = transient \o places
    BY <1>3 DEF Noticed
  <2> QED BY <1>3, <2>1, <2>2
<1> QED BY <1>2, <1>3


\* Everything a run keeps has its type, the list it hands back apart.
LoopTypeOK ==
  /\ role \in Roles /\ pc \in {"head", "model", "tools", "send", "over"}
  /\ step \in Nat /\ attempt \in 0..MAX_LLM_RETRIES
  /\ messages \in Seq(Message)
  /\ transient \in Seq(Nat) /\ warned \in BOOLEAN /\ spoke \in BOOLEAN
  /\ repeats \in 0..(STALL_REPEATS - 1) /\ violations \in 0..2
  /\ words \in Texts /\ called \in Seq(Tools) /\ at \in Nat
  /\ stalled \in BOOLEAN /\ arrived \in BOOLEAN /\ ended \in Endings
  /\ lastCall \in {<<>>} \cup (Tools \X BOOLEAN)

LoopInv == LoopTypeOK /\ LoopShape

LEMMA AnswerTypes == \A cs \in Answers : cs \in Seq(Tools)
<1>1. Toolbox \subseteq Tools
  BY RunAssumption DEF Tools
<1> SUFFICES ASSUME NEW cs \in Answers PROVE cs \in Seq(Tools)
  OBVIOUS
<1>2. PICK n \in 0..(MaxCalls - CallsMade) : cs \in [1..n -> Toolbox]
  BY DEF Answers
<1>3. n \in Nat
  BY <1>2
<1> QED BY <1>1, <1>2, <1>3

LEMMA AskModelLoop == ASSUME LoopInv, AskModel PROVE LoopInv'
<1> USE DEF LoopInv, LoopTypeOK, LoopShape
<1> DEFINE due == ~warned /\ step + BUDGET_NOTICE_AT >= Budget
<1>1. Noticed(IF due THEN <<"budget">> ELSE <<>>) /\ warned' = (warned \/ due)
  BY DEF AskModel
<1>2. due \in BOOLEAN
  BY Zenon
<1> HIDE DEF due
<1>3. messages' \in Seq(Message) /\ transient' \in Seq(Nat)
  BY <1>1, <1>2, NoticedType
<1>4. warned' \in BOOLEAN
  BY <1>1, <1>2, Zenon
<1>5. stalled' \in BOOLEAN /\ called' \in Seq(Tools)
  <2>1. stalled' = FALSE /\ called' = <<>>
    BY DEF AskModel
  <2> QED BY <2>1, Nothing
<1> QED BY <1>3, <1>4, <1>5 DEF AskModel

LEMMA ModelAnswersLoop == ASSUME LoopInv, ModelAnswers PROVE LoopInv'
<1> USE DEF LoopInv, LoopTypeOK, LoopShape
<1>1. PICK text \in Texts, cs \in Answers :
        /\ pc = "model" /\ pc' = "tools" /\ called' = cs /\ words' = text /\ attempt' = 0
        /\ messages' = Append(messages,
                              [Note("assistant", step + 1) EXCEPT !.calls = Len(cs)])
        /\ UNCHANGED <<role, step, transient, warned, lastCall, repeats, spoke,
                       violations, at, stalled, arrived, ended, kept>>
  BY DEF ModelAnswers
<1>2. cs \in Seq(Tools)
  BY AnswerTypes
<1>3. [Note("assistant", step + 1) EXCEPT !.calls = Len(cs)] \in Message
  <2>1. Note("assistant", step + 1) \in Message
    BY NoteType DEF Kinds
  <2>2. Len(cs) \in Nat
    BY <1>2
  <2> QED BY <2>1, <2>2 DEF Message
<1>4. messages' \in Seq(Message)
  BY <1>1, <1>3
<1> HIDE DEF LoopInv, LoopTypeOK, LoopShape
<1>5. LoopTypeOK'
  BY <1>1, <1>2, <1>4 DEF LoopInv, LoopTypeOK, MAX_LLM_RETRIES
<1>6. LoopShape'
  BY <1>1, <1>2 DEF LoopInv, LoopTypeOK, LoopShape
<1> QED BY <1>5, <1>6 DEF LoopInv

LEMMA ObserveType ==
  ASSUME LoopInv, NEW tool \in Tools, NEW success \in BOOLEAN, NEW same \in BOOLEAN,
         Observe(tool, success, same)
  PROVE  /\ repeats' \in 0..(STALL_REPEATS - 1) /\ stalled' \in BOOLEAN
         /\ lastCall' \in {<<>>} \cup (Tools \X BOOLEAN)
<1>1. repeats \in 0..(STALL_REPEATS - 1) /\ stalled \in BOOLEAN
  BY DEF LoopInv, LoopTypeOK
<1>2. CASE same /\ repeats + 1 >= STALL_REPEATS
  <2>1. stalled' = TRUE /\ lastCall' = <<>> /\ repeats' = 0
    BY <1>2 DEF Observe
  <2> QED BY <2>1 DEF STALL_REPEATS
<1>3. CASE ~(same /\ repeats + 1 >= STALL_REPEATS)
  <2>1. lastCall' = <<tool, success>> /\ stalled' = stalled
        /\ repeats' = IF same THEN repeats + 1 ELSE 1
    BY <1>3 DEF Observe
  <2>2. repeats' \in 0..(STALL_REPEATS - 1)
    BY <1>1, <1>3, <2>1 DEF STALL_REPEATS
  <2> QED BY <1>1, <2>1, <2>2
<1> QED BY <1>2, <1>3

\* What a call that is answered appends.
Result(image) == <<Note("result", step + 1)>>
                   \o (IF image THEN <<Note("image", step + 1)>> ELSE <<>>)

LEMMA ResultType ==
  ASSUME step \in Nat, NEW image \in BOOLEAN
  PROVE  /\ Result(image) \in Seq(Message)
         /\ Len(Result(image)) = IF image THEN 2 ELSE 1
         /\ Result(image)[1] = Note("result", step + 1)
         /\ image => Result(image)[2] = Note("image", step + 1)
<1>1. Note("result", step + 1) \in Message /\ Note("image", step + 1) \in Message
  BY NoteType DEF Kinds
<1>2. CASE image
  BY <1>1, <1>2 DEF Result
<1>3. CASE ~image
  BY <1>1, <1>3 DEF Result
<1> QED BY <1>2, <1>3

LEMMA AnsweredLoop ==
  ASSUME LoopInv, (pc = "tools" /\ at <= Len(called)) \/ pc = "send",
         NEW tool \in Tools, NEW success \in BOOLEAN, NEW image \in BOOLEAN,
         Answered(tool, success, image)
  PROVE  LoopInv' /\ messages' = messages \o Result(image)
<1> USE DEF LoopInv
<1>1. PICK same \in BOOLEAN : Observe(tool, success, same)
  BY DEF Answered
<1>2. /\ repeats' \in 0..(STALL_REPEATS - 1) /\ stalled' \in BOOLEAN
      /\ lastCall' \in {<<>>} \cup (Tools \X BOOLEAN)
  BY <1>1, ObserveType
<1>3. spoke' \in BOOLEAN
  BY Zenon DEF Answered
<1>4. messages' = messages \o Result(image)
  <2>1. messages' = messages \o <<Note("result", step + 1)>>
                          \o (IF image THEN <<Note("image", step + 1)>> ELSE <<>>)
    BY DEF Answered
  <2>2. Note("result", step + 1) \in Message /\ Note("image", step + 1) \in Message
    BY NoteType DEF Kinds, LoopTypeOK
  <2>3. messages \in Seq(Message)
    BY DEF LoopTypeOK
  <2>4. CASE image
    BY <2>1, <2>2, <2>3, <2>4 DEF Result
  <2>5. CASE ~image
    BY <2>1, <2>2, <2>3, <2>5 DEF Result
  <2> QED BY <2>4, <2>5
<1>5. messages' \in Seq(Message)
  BY <1>4, ResultType DEF LoopTypeOK
<1>6. LoopTypeOK'
  BY <1>2, <1>3, <1>5 DEF Answered, LoopTypeOK
<1>7. LoopShape'
  BY DEF Answered, LoopTypeOK, LoopShape
<1> QED BY <1>4, <1>6, <1>7


LEMMA PushOne ==
  ASSUME NEW S, NEW s \in Seq(S), NEW e \in S
  PROVE  /\ s \o <<e>> \in Seq(S) /\ Len(s \o <<e>>) = Len(s) + 1
         /\ \A i \in 1..Len(s) : (s \o <<e>>)[i] = s[i]
         /\ (s \o <<e>>)[Len(s) + 1] = e
         /\ s \o <<>> = s /\ Append(s, e) = s \o <<e>>
OBVIOUS

LEMMA PushMore ==
  ASSUME NEW S, NEW s \in Seq(S), NEW t \in Seq(S)
  PROVE  /\ s \o t \in Seq(S) /\ Len(s \o t) = Len(s) + Len(t)
         /\ \A i \in 1..Len(s) : (s \o t)[i] = s[i]
         /\ \A i \in (Len(s) + 1)..(Len(s) + Len(t)) : (s \o t)[i] = t[i - Len(s)]
OBVIOUS

\* Notices go in at the end of the list, and their places are remembered.
NoticesPushed ==
  /\ messages' \in Seq(Message) /\ transient' \in Seq(Nat)
  /\ Len(messages') >= Len(messages)
  /\ \A i \in 1..Len(messages) : messages'[i] = messages[i]
  /\ \A i \in (Len(messages) + 1)..Len(messages') : messages'[i].kind \in Notices
  /\ Len(transient') = Len(transient) + (Len(messages') - Len(messages))
  /\ \A i \in 1..Len(transient) : transient'[i] = transient[i]
  /\ \A i \in (Len(transient) + 1)..Len(transient') :
       transient'[i] = Len(messages) + (i - Len(transient))

LEMMA AskModelPushes == ASSUME LoopInv, AskModel PROVE NoticesPushed
<1> USE DEF LoopInv, LoopTypeOK
<1> DEFINE due == ~warned /\ step + BUDGET_NOTICE_AT >= Budget
<1>1. Noticed(IF due THEN <<"budget">> ELSE <<>>)
  BY DEF AskModel
<1>2. due \in BOOLEAN
  BY Zenon
<1> HIDE DEF due
<1>3. /\ messages' \in Seq(Message) /\ transient' \in Seq(Nat)
      /\ due => /\ messages' = Append(messages, Note("budget", step))
                /\ transient' = Append(transient, Len(messages) + 1)
      /\ ~due => messages' = messages /\ transient' = transient
  BY <1>1, <1>2, NoticedType
<1>4. CASE due
  <2> DEFINE note == Note("budget", step)
             place == Len(messages) + 1
  <2>1. note.kind \in Notices /\ note \in Message
    BY NoteType DEF Note, Notices, Kinds
  <2>4. messages' = Append(messages, note) /\ transient' = Append(transient, place)
    BY <1>3, <1>4
  <2>5. place \in Nat
    OBVIOUS
  <2> HIDE DEF note, place
  <2>6. messages' = messages \o <<note>> /\ transient' = transient \o <<place>>
    <3>1. Append(messages, note) = messages \o <<note>>
      BY <2>1, PushOne
    <3>2. Append(transient, place) = transient \o <<place>>
      BY <2>5, PushOne
    <3> QED BY <2>4, <3>1, <3>2
  <2>2. /\ Len(messages') = Len(messages) + 1
        /\ messages'[Len(messages) + 1] = note
        /\ \A i \in 1..Len(messages) : messages'[i] = messages[i]
    BY <2>1, <2>6, PushOne
  <2>3. /\ Len(transient') = Len(transient) + 1
        /\ transient'[Len(transient) + 1] = place
        /\ \A i \in 1..Len(transient) : transient'[i] = transient[i]
    BY <2>5, <2>6, PushOne
  <2> QED BY <1>3, <2>1, <2>2, <2>3 DEF NoticesPushed, place
<1>5. CASE ~due
  BY <1>3, <1>5 DEF NoticesPushed
<1> QED BY <1>4, <1>5

LEMMA EndStepPushes ==
  ASSUME LoopInv, EndStep
  PROVE  /\ NoticesPushed
         /\ Decision = "retry" => /\ Len(messages') > Len(messages)
                                  /\ messages'[Len(messages) + 1] = Note("guide", step + 1)
<1> USE DEF LoopInv, LoopTypeOK
<1> DEFINE guide == Note("guide", step + 1)
           stall == Note("stall", step + 1)
           grown == Len(messages') - Len(messages)
           places == [i \in 1..grown |-> Len(messages) + i]
<1>1. /\ guide \in Message /\ stall \in Message
      /\ guide.kind \in Notices /\ stall.kind \in Notices
  BY NoteType DEF Note, Notices, Kinds
<1>2. /\ messages' = messages \o (IF Decision = "retry" THEN <<guide>> ELSE <<>>)
                              \o (IF stalled THEN <<stall>> ELSE <<>>)
      /\ transient' = transient \o places
  BY DEF EndStep
<1> HIDE DEF guide, stall
<1>3. /\ messages' \in Seq(Message) /\ Len(messages') >= Len(messages)
      /\ \A i \in 1..Len(messages) : messages'[i] = messages[i]
      /\ \A i \in (Len(messages) + 1)..Len(messages') : messages'[i].kind \in Notices
      /\ Decision = "retry" => /\ Len(messages') > Len(messages)
                               /\ messages'[Len(messages) + 1] = guide
  <2>1. CASE Decision = "retry" /\ stalled
    <3>1. messages' = messages \o <<guide>> \o <<stall>>
      BY <1>2, <2>1
    <3> DEFINE first == messages \o <<guide>>
    <3>2. /\ first \in Seq(Message) /\ Len(first) = Len(messages) + 1
          /\ \A i \in 1..Len(messages) : first[i] = messages[i]
          /\ first[Len(messages) + 1] = guide
      BY <1>1, PushOne
    <3> HIDE DEF first
    <3>3. /\ messages' \in Seq(Message) /\ Len(messages') = Len(first) + 1
          /\ \A i \in 1..Len(first) : messages'[i] = first[i]
          /\ messages'[Len(first) + 1] = stall
      BY <1>1, <3>1, <3>2, PushOne DEF first
    <3>4. \A i \in (Len(messages) + 1)..Len(messages') :
            i = Len(messages) + 1 \/ i = Len(messages) + 2
      BY <3>2, <3>3
    <3>5. /\ messages'[Len(messages) + 1] = guide /\ messages'[Len(messages) + 2] = stall
          /\ \A i \in 1..Len(messages) : messages'[i] = messages[i]
      <4>1. Len(messages) + 1 \in 1..Len(first) /\ Len(first) + 1 = Len(messages) + 2
            /\ \A i \in 1..Len(messages) : i \in 1..Len(first)
        BY <3>2
      <4> QED BY <3>2, <3>3, <4>1
    <3> QED BY <1>1, <3>2, <3>3, <3>4, <3>5
  <2>2. CASE Decision = "retry" /\ ~stalled
    <3>1. messages' = messages \o <<guide>> \o <<>>
      BY <1>2, <2>2
    <3> QED BY <1>1, <2>2, <3>1
  <2>3. CASE Decision # "retry" /\ stalled
    <3>1. messages' = messages \o <<>> \o <<stall>>
      BY <1>2, <2>3
    <3> QED BY <1>1, <2>3, <3>1
  <2>4. CASE Decision # "retry" /\ ~stalled
    <3>1. messages' = messages \o <<>> \o <<>>
      BY <1>2, <2>4
    <3> QED BY <1>1, <2>4, <3>1
  <2> QED BY <2>1, <2>2, <2>3, <2>4
<1>4. grown \in Nat
  BY <1>3
<1> HIDE DEF grown
<1>5. places \in Seq(Nat) /\ Len(places) = grown
  BY <1>4
<1>6. \A i \in 1..grown : places[i] = Len(messages) + i
  OBVIOUS
<1> HIDE DEF places
<1>7. /\ transient' \in Seq(Nat) /\ Len(transient') = Len(transient) + grown
      /\ \A i \in 1..Len(transient) : transient'[i] = transient[i]
      /\ \A i \in (Len(transient) + 1)..Len(transient') :
           transient'[i] = places[i - Len(transient)]
  <2> DEFINE joined == transient \o places
  <2>1. /\ joined \in Seq(Nat) /\ Len(joined) = Len(transient) + Len(places)
        /\ \A i \in 1..Len(transient) : joined[i] = transient[i]
        /\ \A i \in (Len(transient) + 1)..(Len(transient) + Len(places)) :
             joined[i] = places[i - Len(transient)]
    BY <1>5, PushMore
  <2>2. transient' = joined
    BY <1>2
  <2> HIDE DEF joined
  <2> QED BY <1>5, <2>1, <2>2
<1>8. \A i \in (Len(transient) + 1)..Len(transient') :
        transient'[i] = Len(messages) + (i - Len(transient))
  <2> TAKE i \in (Len(transient) + 1)..Len(transient')
  <2>1. i - Len(transient) \in 1..grown
    BY <1>4, <1>7
  <2> QED BY <1>6, <1>7, <2>1
<1> QED BY <1>3, <1>7, <1>8 DEF NoticesPushed, grown, guide

LEMMA EndStepLoop == ASSUME LoopInv, EndStep PROVE LoopInv'
<1> USE DEF LoopInv
<1>1. messages' \in Seq(Message) /\ transient' \in Seq(Nat)
  BY EndStepPushes DEF NoticesPushed
<1>2. violations' \in 0..2 /\ (violations' = 2 => role = "default" /\ Violating /\ violations = 1)
  BY DEF EndStep, LoopTypeOK, LoopShape
<1>3. violations' = 2 => Decision = "stop"
  BY <1>2 DEF Decision, Violating, MAX_CONTRACT_RETRIES
<1>4. /\ pc' \in {"head", "over"} /\ ended' \in Endings
      /\ pc' = "head" => ended' = ended /\ Decision # "stop"
      /\ UNCHANGED <<role, attempt, warned, lastCall, repeats, spoke, words, called, at,
                     stalled, arrived>>
      /\ step' = step + 1
  BY DEF EndStep, End, HandBack, LoopTypeOK, Endings
<1>5. LoopTypeOK'
  BY <1>1, <1>2, <1>4 DEF LoopTypeOK
<1>6. ended' # "running" => pc' = "over"
  BY <1>4 DEF EndStep, LoopTypeOK, LoopShape
<1>7. LoopShape'
  BY <1>2, <1>3, <1>4, <1>5, <1>6 DEF EndStep, LoopTypeOK, LoopShape
<1> QED BY <1>5, <1>7

LEMMA OnlyDefaultSpeaks ==
  ASSUME role \in Roles, ~Unserved("send") PROVE role = "default"
<1>1. role \in {"default", "wrapup", "digest"}
  BY RunAssumption
<1>2. role # "digest"
  BY DEF Unserved, Mounted, ReadOnly
<1>3. role # "wrapup"
  BY DEF Unserved, Rejects, Speaks, EndsTurn, Produces
<1> QED BY <1>1, <1>2, <1>3

LEMMA QuietLoop ==
  ASSUME LoopInv,
         \/ ModelRetries \/ ModelFails \/ BeginSpeaking \/ Speaking \/ Arrive \/ Shutdown
         \/ UNCHANGED loop
  PROVE  LoopInv' /\ UNCHANGED <<messages, transient>>
<1> USE DEF LoopInv, LoopTypeOK, LoopShape
<1>1. CASE ModelRetries
  BY <1>1 DEF ModelRetries, MAX_LLM_RETRIES
<1>2. CASE ModelFails \/ Shutdown
  BY <1>2 DEF ModelFails, Shutdown, End, Endings
<1>3. CASE BeginSpeaking
  BY <1>3, OnlyDefaultSpeaks DEF BeginSpeaking, Running
<1>4. CASE Speaking \/ UNCHANGED loop
  BY <1>4 DEF Speaking, loop
<1>5. CASE Arrive
  BY <1>5 DEF Arrive
<1> QED BY <1>1, <1>2, <1>3, <1>4, <1>5


LEMMA CallAnswered ==
  ASSUME LoopInv, RefuseCall \/ RunCall \/ EndSpeaking
  PROVE  \E tool \in Tools, success, image \in BOOLEAN :
           /\ Answered(tool, success, image)
           /\ (pc = "tools" /\ at <= Len(called)) \/ pc = "send"
           /\ EndSpeaking \/ ~success \/ tool \notin Speaks
           /\ UNCHANGED out
<1>1. CASE RefuseCall
  <2>1. PICK tool \in Tools : Running(tool) /\ Answered(tool, FALSE, FALSE) /\ UNCHANGED out
    BY <1>1 DEF RefuseCall
  <2> QED BY <2>1, Zenon DEF Running
<1>2. CASE RunCall
  <2>1. PICK tool \in Tools \ Speaks, success \in BOOLEAN, image \in BOOLEAN :
          Running(tool) /\ Answered(tool, success, image) /\ UNCHANGED out
    BY <1>2 DEF RunCall
  <2> QED BY <2>1, Zenon DEF Running
<1>3. CASE EndSpeaking
  <2>1. (sending = "sent") \in BOOLEAN
    BY Zenon
  <2>2. /\ pc = "send" /\ Answered("send", sending = "sent", FALSE) /\ UNCHANGED out
    BY <1>3 DEF EndSpeaking
  <2>3. "send" \in Tools
    BY DEF Tools
  <2> QED BY <1>3, <2>1, <2>2, <2>3, Zenon
<1> QED BY <1>1, <1>2, <1>3

LEMMA LoopStep == LoopInv /\ [RunNext]_runVars => LoopInv'
<1> SUFFICES ASSUME LoopInv, [RunNext]_runVars PROVE LoopInv'
  OBVIOUS
<1>1. CASE AskModel
  BY <1>1, AskModelLoop
<1>2. CASE ModelAnswers
  BY <1>2, ModelAnswersLoop
<1>3. CASE RefuseCall \/ RunCall \/ EndSpeaking
  <2>1. PICK tool \in Tools, success \in BOOLEAN, image \in BOOLEAN :
          /\ Answered(tool, success, image)
          /\ (pc = "tools" /\ at <= Len(called)) \/ pc = "send"
    BY <1>3, CallAnswered
  <2> QED BY <2>1, AnsweredLoop
<1>4. CASE EndStep
  BY <1>4, EndStepLoop
<1>5. CASE \/ ModelRetries \/ ModelFails \/ BeginSpeaking \/ Speaking \/ Arrive
           \/ Shutdown \/ UNCHANGED loop
  BY <1>5, QuietLoop
<1> QED BY <1>1, <1>2, <1>3, <1>4, <1>5 DEF RunNext, runVars

LEMMA LoopInit == RunInit => LoopInv
<1> SUFFICES ASSUME RunInit PROVE LoopInv
  OBVIOUS
<1>1. messages \in Seq(Message)
  <2>1. [kind |-> "seed", step |-> 0, calls |-> 0] \in Message
    BY DEF Message, Kinds
  <2> QED BY <2>1 DEF RunInit
<1>2. transient \in Seq(Nat) /\ called \in Seq(Tools)
  BY Nothing DEF RunInit
<1>3. warned \in BOOLEAN /\ spoke \in BOOLEAN /\ stalled \in BOOLEAN /\ arrived \in BOOLEAN
  BY Zenon DEF RunInit
<1>4. /\ role \in Roles /\ pc = "head" /\ step = 0 /\ attempt = 0 /\ repeats = 0
      /\ violations = 0 /\ words = "none" /\ at = 1 /\ ended = "running"
      /\ lastCall = <<>>
  BY DEF RunInit
<1>5. LoopTypeOK
  BY <1>1, <1>2, <1>3, <1>4 DEF LoopTypeOK, Texts, Endings, STALL_REPEATS, MAX_LLM_RETRIES
<1>6. LoopShape
  BY <1>4 DEF LoopShape
<1> QED BY <1>5, <1>6 DEF LoopInv

\* A step of the run is a step of what goes out or leaves it alone.
LEMMA StepOut ==
  ASSUME LoopInv, [RunNext]_runVars
  PROVE  OutStep \/ UNCHANGED out
<1>1. CASE BeginSpeaking
  BY <1>1 DEF BeginSpeaking, OutStep
<1>2. CASE Speaking \/ Arrive
  BY <1>2 DEF Speaking, Arrive, OutStep
<1>3. CASE AskModel \/ ModelRetries \/ ModelFails \/ ModelAnswers \/ EndStep \/ Shutdown
  BY <1>3 DEF AskModel, ModelRetries, ModelFails, ModelAnswers, EndStep, Shutdown
<1>4. CASE RefuseCall \/ RunCall \/ EndSpeaking
  BY <1>4, CallAnswered
<1>5. CASE UNCHANGED runVars
  BY <1>5 DEF runVars
<1> QED BY <1>1, <1>2, <1>3, <1>4, <1>5 DEF RunNext

LEMMA SendInvStutter == SendInv /\ UNCHANGED out => SendInv'
BY DEF out, SendInv, OutInv, OutTypeOK, OutShape, Accounts, OneOnItsWay, Unrecorded,
   CopiesOf

LEMMA SendInvInit == OutInit => SendInv
<1> SUFFICES ASSUME OutInit PROVE Accounts
  BY OutInit0 DEF SendInv
<1>1. Unrecorded = {} /\ rows = {} /\ lost = 0 /\ sending = "idle"
  BY DEF OutInit, Unrecorded
<1> QED BY <1>1, FS_EmptySet DEF Accounts, OneOnItsWay

RunSendInv == LoopInv /\ SendInv

LEMMA RunSendStep == RunSendInv /\ [RunNext]_runVars => RunSendInv'
BY LoopStep, StepOut, SendInvStep, SendInvStutter DEF RunSendInv

LEMMA RunSendInit == RunInit => RunSendInv
BY LoopInit, SendInvInit DEF RunInit, RunSendInv

(***************************************************************************)
(* What the send tool tells the model is what the store and the Chat hold: *)
(* one row for a send reported as done, none for one reported as failed,   *)
(* and no stray copy beyond the answers and rows that were lost, whatever  *)
(* form the platform took and whichever calls it refused before.           *)
(***************************************************************************)
THEOREM SendsAreAccountedFor == RunSpec => []EverySendIsAccountedFor
<1>1. RunSendInv => EverySendIsAccountedFor
  BY DEF RunSendInv, SendInv, Accounts, Unrecorded, OneOnItsWay, EverySendIsAccountedFor
<1> QED BY <1>1, RunSendInit, RunSendStep, PTL DEF RunSpec

(***************************************************************************)
(* A wrap-up and a digest reach nobody: their roles reject or do not mount *)
(* every tool that speaks, so no call of theirs begins a send.             *)
(***************************************************************************)
THEOREM QuietPassesSendNothing == RunSpec => []QuietPassesStaySilent
<1> DEFINE I == LoopInv /\ QuietPassesStaySilent
<1>1. RunInit => I
  BY LoopInit DEF RunInit, OutInit, QuietPassesStaySilent
<1>2. I /\ [RunNext]_runVars => I'
  <2> SUFFICES ASSUME I, [RunNext]_runVars PROVE QuietPassesStaySilent'
    BY LoopStep
  <2>1. role' = role
    BY DEF RunNext, AskModel, ModelRetries, ModelFails, ModelAnswers, RefuseCall, RunCall,
       BeginSpeaking, Speaking, EndSpeaking, EndStep, Arrive, Shutdown, Answered, loop,
       runVars
  <2>2. CASE Speaking
    BY <2>1, <2>2 DEF Speaking, LoopInv, LoopShape, QuietPassesStaySilent
  <2>3. CASE BeginSpeaking \/ Arrive
    <3>1. left' = left
      BY <2>3 DEF BeginSpeaking, BeginSend, Arrive, PersonWrites
    <3> QED BY <2>1, <3>1 DEF QuietPassesStaySilent
  <2>4. CASE UNCHANGED out
    BY <2>1, <2>4 DEF out, QuietPassesStaySilent
  <2>5. Speaking \/ BeginSpeaking \/ Arrive \/ UNCHANGED out
    BY CallAnswered DEF RunNext, AskModel, ModelRetries, ModelFails, ModelAnswers,
       EndStep, Shutdown, runVars
  <2> QED BY <2>2, <2>3, <2>4, <2>5
<1> QED BY <1>1, <1>2, PTL DEF RunSpec


-----------------------------------------------------------------------------
(***************************************************************************)
(* What a run knows.  While a send is out the run goes by the rows of the  *)
(* sends before it; the row of the send at hand is the only one that may   *)
(* come in.                                                                *)
(***************************************************************************)
EarlierRows == rows \ CopiesOf(calls)

KnowsInv ==
  /\ RunSendInv /\ TheRunKnowsWhatItSaid
  /\ pc = "send" => (spoke <=> EarlierRows # {})

LEMMA EarlierRowsStay ==
  ASSUME OutInv, SendStep PROVE EarlierRows' = EarlierRows
<1> USE DEF OutInv, OutTypeOK, OutShape
<1>1. CASE RefuseSend \/ ResolveSend \/ WireRefuses \/ RecordFails
  BY <1>1 DEF RefuseSend, ResolveSend, WireRefuses, RecordFails, EarlierRows, CopiesOf
<1>2. CASE WireTakes \/ WireAnswerLost
  <2>1. left' = Append(left, calls) /\ UNCHANGED <<rows, calls>>
    BY <1>2 DEF WireTakes, WireAnswerLost, Taken
  <2>2. \A i \in DOMAIN left : i \in DOMAIN left' /\ left'[i] = left[i]
    BY <2>1
  <2> QED BY <2>1, <2>2 DEF EarlierRows, CopiesOf
<1>3. CASE RecordSend
  <2>1. /\ rows' = rows \cup {Len(left)} /\ UNCHANGED <<left, calls>>
        /\ sending = "record"
    BY <1>3 DEF RecordSend
  <2>2. Len(left) \in CopiesOf(calls)
    BY <2>1 DEF CopiesOf
  <2> QED BY <2>1, <2>2 DEF EarlierRows, CopiesOf
<1> QED BY <1>1, <1>2, <1>3 DEF SendStep

LEMMA KnowsStep == KnowsInv /\ [RunNext]_runVars => KnowsInv'
<1> SUFFICES ASSUME KnowsInv, [RunNext]_runVars
             PROVE  /\ TheRunKnowsWhatItSaid'
                    /\ pc' = "send" => (spoke' <=> EarlierRows' # {})
  BY RunSendStep DEF KnowsInv
<1>1. /\ LoopInv /\ SendInv /\ OutInv /\ Accounts /\ OutTypeOK
      /\ pc # "send" /\ ended # "cancelled" => (spoke <=> rows # {})
      /\ pc = "send" => (spoke <=> EarlierRows # {})
      /\ pc # "over" => ended = "running"
  BY DEF KnowsInv, RunSendInv, SendInv, OutInv, LoopInv, LoopShape,
     TheRunKnowsWhatItSaid
<1>2. CASE BeginSpeaking
  <2>1. /\ pc = "tools" /\ pc' = "send" /\ UNCHANGED <<spoke, rows, left>>
        /\ calls' = calls + 1
    BY <1>2 DEF BeginSpeaking, BeginSend, Running
  <2>2. CopiesOf(calls)' = {}
    BY <1>1, <2>1 DEF CopiesOf, OutInv, OutTypeOK, OutShape
  <2>3. EarlierRows' = rows
    BY <2>1, <2>2 DEF EarlierRows
  <2> QED BY <1>1, <2>1, <2>3 DEF TheRunKnowsWhatItSaid
<1>3. CASE Speaking
  <2>1. pc = "send" /\ UNCHANGED <<pc, spoke>> /\ EarlierRows' = EarlierRows
    BY <1>1, <1>3, EarlierRowsStay DEF Speaking, loop
  <2> QED BY <1>1, <2>1 DEF TheRunKnowsWhatItSaid
<1>4. CASE RefuseCall \/ RunCall \/ EndSpeaking
  <2>1. PICK tool \in Tools, success \in BOOLEAN, image \in BOOLEAN :
          /\ Answered(tool, success, image)
          /\ (pc = "tools" /\ at <= Len(called)) \/ pc = "send"
          /\ EndSpeaking \/ ~success \/ tool \notin Speaks
          /\ UNCHANGED out
    BY <1>1, <1>4, CallAnswered
  <2>2. pc' = "tools" /\ rows' = rows /\ ended' = ended
    BY <2>1 DEF Answered, out
  <2>3. CASE EndSpeaking
    <3>1. /\ pc = "send" /\ sending \in {"sent", "refused"}
          /\ Answered("send", sending = "sent", FALSE)
      BY <2>3 DEF EndSpeaking
    <3>2. role = "default"
      BY <1>1, <3>1 DEF LoopInv, LoopShape
    <3>3. "send" \in Speaks \cap Mounted
      BY <3>2 DEF Speaks, Mounted, Tools
    <3>4. spoke' <=> (spoke \/ sending = "sent")
      BY <3>1, <3>3, Zenon DEF Answered
    <3>5. sending = "sent" => rows # {}
      BY <1>1 DEF Accounts
    <3>6. sending = "refused" => EarlierRows = rows
      BY <1>1 DEF Accounts, EarlierRows
    <3>7. EarlierRows # {} => rows # {}
      BY DEF EarlierRows
    <3>8. spoke' <=> rows # {}
      BY <1>1, <3>1, <3>4, <3>5, <3>6, <3>7
    <3> QED BY <2>2, <3>8 DEF TheRunKnowsWhatItSaid
  <2>4. CASE ~EndSpeaking
    <3>1. spoke' <=> spoke
      BY <2>1, <2>4, Zenon DEF Answered
    <3>2. pc # "send"
      BY <1>4, <2>4 DEF RefuseCall, RunCall, Running
    <3>3. pc # "over"
      BY <2>1
    <3> QED BY <1>1, <2>2, <3>1, <3>2, <3>3 DEF TheRunKnowsWhatItSaid
  <2> QED BY <2>3, <2>4
<1>5. CASE AskModel \/ ModelRetries \/ ModelFails \/ ModelAnswers \/ EndStep
  <2>1. /\ pc \notin {"send", "over"} /\ pc' # "send"
        /\ spoke' = spoke /\ rows' = rows
    BY <1>5 DEF AskModel, ModelRetries, ModelFails, ModelAnswers, EndStep, End, out
  <2> QED BY <1>1, <2>1 DEF TheRunKnowsWhatItSaid
<1>6. CASE Arrive
  <2>1. UNCHANGED <<pc, ended, spoke, rows, left, calls>>
    BY <1>6 DEF Arrive, PersonWrites
  <2> QED BY <1>1, <2>1 DEF TheRunKnowsWhatItSaid, EarlierRows, CopiesOf
<1>7. CASE Shutdown
  BY <1>7 DEF Shutdown, End, TheRunKnowsWhatItSaid
<1>8. CASE UNCHANGED runVars
  BY <1>1, <1>8 DEF runVars, loop, out, TheRunKnowsWhatItSaid, EarlierRows, CopiesOf
<1> QED BY <1>2, <1>3, <1>4, <1>5, <1>6, <1>7, <1>8 DEF RunNext

(***************************************************************************)
(* StepLoop::spoke and the store agree: a run that was not dropped in the  *)
(* middle of a call says it spoke exactly when a row says so.              *)
(***************************************************************************)
THEOREM RunsKnowWhatTheySaid == RunSpec => []TheRunKnowsWhatItSaid
<1>1. RunInit => KnowsInv
  <2> SUFFICES ASSUME RunInit PROVE KnowsInv
    OBVIOUS
  <2>1. pc = "head" /\ ~spoke /\ rows = {}
    BY DEF RunInit, OutInit
  <2> QED BY <2>1, RunSendInit DEF KnowsInv, TheRunKnowsWhatItSaid
<1>2. KnowsInv => TheRunKnowsWhatItSaid
  BY DEF KnowsInv
<1> QED BY <1>1, <1>2, KnowsStep, PTL DEF RunSpec

-----------------------------------------------------------------------------
(***************************************************************************)
(* The contract.  A retry in hand is one whose guide went in with the last *)
(* Step; nothing is taken out of the list while the run goes on.           *)
(***************************************************************************)
Guided(n) == \E i \in DOMAIN messages : messages[i] = Note("guide", n)

UnsentInv ==
  /\ LoopInv /\ UnsentTextIsAskedAbout
  /\ pc # "over" /\ role = "default" /\ violations > 0 => Guided(step)

LEMMA GuidesStay ==
  ASSUME messages \in Seq(Message), messages' \in Seq(Message),
         Len(messages') >= Len(messages),
         \A i \in 1..Len(messages) : messages'[i] = messages[i],
         NEW n, Guided(n)
  PROVE  \E i \in DOMAIN messages' : messages'[i] = Note("guide", n)
<1>1. PICK i \in 1..Len(messages) : messages[i] = Note("guide", n)
  BY DEF Guided
<1>2. i \in DOMAIN messages' /\ messages'[i] = Note("guide", n)
  BY <1>1
<1> QED BY <1>2

LEMMA UnsentEndStep ==
  ASSUME UnsentInv, EndStep
  PROVE  /\ UnsentTextIsAskedAbout'
         /\ pc' # "over" /\ role' = "default" /\ violations' > 0 => Guided(step)'
<1>1. /\ messages \in Seq(Message) /\ messages' \in Seq(Message)
      /\ Len(messages') >= Len(messages)
      /\ \A i \in 1..Len(messages) : messages'[i] = messages[i]
      /\ Decision = "retry" => /\ Len(messages') > Len(messages)
                               /\ messages'[Len(messages) + 1] = Note("guide", step + 1)
  BY EndStepPushes DEF NoticesPushed, UnsentInv, LoopInv, LoopTypeOK
<1>2. /\ pc = "tools" /\ step \in Nat /\ step' = step + 1 /\ violations \in 0..1
      /\ violations' = IF role = "default" /\ Violating THEN violations + 1 ELSE 0
      /\ UNCHANGED <<role, spoke, words, called>>
  BY DEF EndStep, UnsentInv, LoopInv, LoopTypeOK, LoopShape
<1>3. ASSUME Decision = "retry" PROVE Guided(step)'
  <2>1. Len(messages) + 1 \in DOMAIN messages'
    BY <1>1, <1>3
  <2> QED BY <1>1, <1>2, <1>3, <2>1 DEF Guided, Note
<1>4. role = "default" /\ Violating => Decision = "retry" \/ violations = 1
  BY <1>2 DEF Decision, MAX_CONTRACT_RETRIES
<1>5. role = "default" /\ Violating /\ Decision # "retry" => Decision = "stop"
  BY DEF Decision, Violating
<1>6. pc' # "over" => Decision # "stop"
  BY DEF EndStep, End
<1>7. pc' # "over" /\ role' = "default" /\ violations' > 0 => Guided(step)'
  BY <1>2, <1>3, <1>5, <1>6
<1>8. ASSUME ended' = "stop", role' = "default", ~spoke', words' # "none",
             (NonSkipCalls = {})'
      PROVE  \E i \in DOMAIN messages' : messages'[i] = Note("guide", step' - 1)
  <2>1. Violating
    BY <1>2, <1>8 DEF Violating, NonSkipCalls, Mounted
  <2>2. Decision = "stop"
    BY <1>8 DEF EndStep, End, UnsentInv, LoopInv, LoopShape
  <2>3. Guided(step)
    BY <1>2, <1>4, <1>8, <2>1, <2>2 DEF UnsentInv
  <2>4. step' - 1 = step
    BY <1>2
  <2> QED BY <1>1, <2>3, <2>4, GuidesStay
<1> QED BY <1>7, <1>8 DEF UnsentTextIsAskedAbout, Note

LEMMA UnsentStep == UnsentInv /\ [RunNext]_runVars => UnsentInv'
<1> SUFFICES ASSUME UnsentInv, [RunNext]_runVars
             PROVE  /\ UnsentTextIsAskedAbout'
                    /\ pc' # "over" /\ role' = "default" /\ violations' > 0 => Guided(step)'
  BY LoopStep DEF UnsentInv
<1>1. CASE EndStep
  BY <1>1, UnsentEndStep
<1>2. ASSUME messages' \in Seq(Message), Len(messages') >= Len(messages),
             \A i \in 1..Len(messages) : messages'[i] = messages[i],
             UNCHANGED <<role, step, violations>>, pc # "over", ended' # "stop"
      PROVE  /\ UnsentTextIsAskedAbout'
             /\ pc' # "over" /\ role' = "default" /\ violations' > 0 => Guided(step)'
  <2>1. role = "default" /\ violations > 0 => Guided(step)
    BY <1>2 DEF UnsentInv
  <2>2. messages \in Seq(Message)
    BY DEF UnsentInv, LoopInv, LoopTypeOK
  <2> QED BY <1>2, <2>1, <2>2, GuidesStay DEF UnsentTextIsAskedAbout, Guided, Note
<1>3. CASE AskModel
  BY <1>2, <1>3, AskModelPushes
     DEF AskModel, NoticesPushed, UnsentInv, LoopInv, LoopShape
<1>4. messages \in Seq(Message)
  BY DEF UnsentInv, LoopInv, LoopTypeOK
<1>5. CASE ModelAnswers
  <2>1. PICK cs \in Answers :
          messages' = Append(messages, [Note("assistant", step + 1) EXCEPT !.calls = Len(cs)])
    BY <1>5 DEF ModelAnswers
  <2>2. messages' \in Seq(Message)
    BY <1>5, LoopStep DEF UnsentInv, LoopInv, LoopTypeOK
  <2>3. /\ Len(messages') >= Len(messages)
        /\ \A i \in 1..Len(messages) : messages'[i] = messages[i]
    BY <1>4, <2>1
  <2> QED BY <1>2, <1>5, <2>2, <2>3 DEF ModelAnswers, UnsentInv, LoopInv, LoopShape
<1>6. CASE RefuseCall \/ RunCall \/ EndSpeaking
  <2>1. PICK tool \in Tools, success \in BOOLEAN, image \in BOOLEAN :
          /\ Answered(tool, success, image)
          /\ (pc = "tools" /\ at <= Len(called)) \/ pc = "send"
    BY <1>6, CallAnswered DEF UnsentInv
  <2>2. messages' = messages \o Result(image) /\ Result(image) \in Seq(Message)
    BY <2>1, AnsweredLoop, ResultType DEF UnsentInv, LoopInv, LoopTypeOK
  <2>3. /\ messages' \in Seq(Message) /\ Len(messages') >= Len(messages)
        /\ \A i \in 1..Len(messages) : messages'[i] = messages[i]
    BY <1>4, <2>2, PushMore
  <2> QED BY <1>2, <2>1, <2>3 DEF Answered, UnsentInv, LoopInv, LoopShape
<1>7. CASE ModelRetries \/ ModelFails \/ BeginSpeaking \/ Arrive \/ Shutdown
  <2>1. /\ UNCHANGED <<role, step, violations, messages>> /\ pc # "over"
        /\ ended' # "stop"
    BY <1>7 DEF ModelRetries, ModelFails, BeginSpeaking, Arrive, Shutdown, End, Running,
       UnsentInv, LoopInv, LoopShape
  <2> QED BY <1>2, <1>4, <2>1
<1>8. CASE Speaking \/ UNCHANGED runVars
  <2>1. UNCHANGED loop
    BY <1>8 DEF Speaking, runVars
  <2> QED BY <2>1 DEF loop, UnsentInv, UnsentTextIsAskedAbout, Guided, NonSkipCalls, Mounted,
             Note
<1> QED BY <1>1, <1>3, <1>5, <1>6, <1>7, <1>8 DEF RunNext

(***************************************************************************)
(* DefaultRole::decide asks once before it lets text go unsent: a default  *)
(* run that stops with words and no call of its own, having said nothing,  *)
(* read a guide about it at the Step before.                               *)
(***************************************************************************)
THEOREM UnsentTextWasAskedAbout == RunSpec => []UnsentTextIsAskedAbout
<1>1. RunInit => UnsentInv
  BY LoopInit DEF RunInit, UnsentInv, UnsentTextIsAskedAbout
<1>2. UnsentInv => UnsentTextIsAskedAbout
  BY DEF UnsentInv
<1> QED BY <1>1, <1>2, UnsentStep, PTL DEF RunSpec


-----------------------------------------------------------------------------
(***************************************************************************)
(* Induction over an interval, from the well-foundedness of finite sets.   *)
(***************************************************************************)
LEMMA IntervalInduction ==
  ASSUME NEW N \in Nat, NEW S, 0 \in S, \A n \in 0..(N - 1) : n \in S => n + 1 \in S
  PROVE  0..N \subseteq S
<1> DEFINE T == {1..n : n \in (0..N) \ S}
<1> SUFFICES ASSUME NEW m \in (0..N) \ S PROVE FALSE
  OBVIOUS
<1>1. T \subseteq FiniteSubsetsOf(1..N) /\ T # {}
  <2>1. \A n \in 0..N : IsFiniteSet(1..n) /\ 1..n \subseteq 1..N
    BY FS_Interval
  <2> QED BY <2>1 DEF FiniteSubsetsOf
<1>2. IsWellFoundedOn(StrictSubsetOrdering(1..N), FiniteSubsetsOf(1..N))
  BY FS_StrictSubsetOrderingWellFounded
<1> HIDE DEF T
<1>3. PICK least \in T : \A other \in T :
        ~ (<<other, least>> \in StrictSubsetOrdering(1..N))
  BY <1>1, <1>2, WFMin
<1>4. PICK n \in (0..N) \ S : least = 1..n
  BY <1>3 DEF T
<1>5. n \in 1..N /\ n - 1 \in 0..(N - 1)
  BY <1>4
<1>6. n - 1 \notin S
  BY <1>4, <1>5
<1>7. 1..(n - 1) \in T
  BY <1>5, <1>6 DEF T
<1>8. /\ 1..(n - 1) \subseteq 1..n /\ n \in 1..n /\ n \notin 1..(n - 1)
      /\ 1..n \subseteq 1..N /\ 1..(n - 1) \subseteq 1..N
  BY <1>5
<1>9. <<1..(n - 1), 1..n>> \in StrictSubsetOrdering(1..N)
  BY <1>8 DEF StrictSubsetOrdering
<1> QED BY <1>3, <1>4, <1>7, <1>9

\* The function IntoMessages defines: what is left once n places are taken out.
TakenOut(less, list, places) ==
  [n \in 0..Len(places) |->
     IF n = 0 THEN list ELSE RemoveAt(less[n - 1], places[Len(places) - n + 1])]

LEMMA TakenOutExists ==
  ASSUME NEW list, NEW places \in Seq(Nat)
  PROVE  \E less : less = TakenOut(less, list, places)
<1> DEFINE N == Len(places)
           Partial(less, n) ==
             less = [k \in 0..n |->
                       IF k = 0 THEN list ELSE RemoveAt(less[k - 1], places[N - k + 1])]
           Good == {n \in 0..N : \E less : Partial(less, n)}
<1>1. N \in Nat
  OBVIOUS
<1>2. 0 \in Good
  <2>1. Partial([k \in 0..0 |-> list], 0)
    OBVIOUS
  <2> HIDE DEF Partial
  <2> QED BY <1>1, <2>1
<1>3. ASSUME NEW n \in 0..(N - 1), n \in Good PROVE n + 1 \in Good
  <2>1. PICK less : Partial(less, n)
    BY <1>3
  <2> DEFINE next == [k \in 0..(n + 1) |->
                        IF k = n + 1 THEN RemoveAt(less[n], places[N - n]) ELSE less[k]]
  <2>2. \A k \in 0..n : next[k] = less[k]
    BY <1>1
  <2>3. next[n + 1] = RemoveAt(next[n], places[N - n])
    BY <1>1, <2>2
  <2>4. next[0] = list /\ \A k \in 1..(n + 1) : next[k] = RemoveAt(next[k - 1], places[N - k + 1])
    <3>1. next[0] = list
      BY <1>1, <2>1, <2>2
    <3>2. ASSUME NEW k \in 1..n PROVE next[k] = RemoveAt(next[k - 1], places[N - k + 1])
      <4>1. k \in 0..n /\ k - 1 \in 0..n /\ k # 0
        BY <1>1
      <4>2. less[k] = RemoveAt(less[k - 1], places[N - k + 1])
        BY <2>1, <4>1
      <4> QED BY <2>2, <4>1, <4>2
    <3>3. N - (n + 1) + 1 = N - n /\ (n + 1) - 1 = n
      BY <1>1
    <3> HIDE DEF next
    <3> QED BY <1>1, <2>3, <3>1, <3>2, <3>3
  <2>5. Partial(next, n + 1)
    <3>1. DOMAIN next = 0..(n + 1) /\ next = [k \in 0..(n + 1) |-> next[k]]
      OBVIOUS
    <3> HIDE DEF next
    <3>2. \A k \in 0..(n + 1) :
            next[k] = IF k = 0 THEN list ELSE RemoveAt(next[k - 1], places[N - k + 1])
      BY <1>1, <2>4
    <3> QED BY <3>1, <3>2
  <2> HIDE DEF Partial, next
  <2> QED BY <1>1, <2>5
<1> HIDE DEF Good
<1>4. 0..N \subseteq Good
  BY <1>1, <1>2, <1>3, IntervalInduction
<1>5. \E less : Partial(less, N)
  BY <1>1, <1>4 DEF Good
<1> QED BY <1>5 DEF TakenOut

LEMMA IntoMessagesIs ==
  ASSUME NEW list, NEW places \in Seq(Nat)
  PROVE  \E less : /\ less = TakenOut(less, list, places)
                   /\ IntoMessages(list, places) = less[Len(places)]
<1> DEFINE less == CHOOSE f : f = TakenOut(f, list, places)
<1>1. less = TakenOut(less, list, places)
  BY TakenOutExists
<1>2. IntoMessages(list, places) = less[Len(places)]
  BY DEF IntoMessages, TakenOut
<1> QED BY <1>1, <1>2

LEMMA RemoveAtType ==
  ASSUME NEW S, NEW g \in Seq(S), NEW p \in 1..Len(g)
  PROVE  /\ RemoveAt(g, p) \in Seq(S) /\ Len(RemoveAt(g, p)) = Len(g) - 1
         /\ \A k \in 1..(Len(g) - 1) :
              RemoveAt(g, p)[k] = IF k < p THEN g[k] ELSE g[k + 1]
<1> DEFINE head == SubSeq(g, 1, p - 1)
           tail == SubSeq(g, p + 1, Len(g))
<1>1. /\ head \in Seq(S) /\ Len(head) = p - 1 /\ \A k \in 1..(p - 1) : head[k] = g[k]
  OBVIOUS
<1>2. /\ tail \in Seq(S) /\ Len(tail) = Len(g) - p
      /\ \A k \in 1..(Len(g) - p) : tail[k] = g[p + k]
  OBVIOUS
<1>3. RemoveAt(g, p) = head \o tail
  BY DEF RemoveAt
<1> HIDE DEF head, tail
<1>4. /\ head \o tail \in Seq(S) /\ Len(head \o tail) = Len(g) - 1
      /\ \A k \in 1..(p - 1) : (head \o tail)[k] = head[k]
      /\ \A k \in p..(Len(g) - 1) : (head \o tail)[k] = tail[k - (p - 1)]
  <2>1. /\ head \o tail \in Seq(S) /\ Len(head \o tail) = Len(head) + Len(tail)
        /\ \A k \in 1..Len(head) : (head \o tail)[k] = head[k]
        /\ \A k \in (Len(head) + 1)..(Len(head) + Len(tail)) :
             (head \o tail)[k] = tail[k - Len(head)]
    BY <1>1, <1>2, PushMore
  <2> DEFINE joined == head \o tail
  <2> HIDE DEF joined
  <2>2. /\ joined \in Seq(S) /\ Len(joined) = Len(head) + Len(tail)
        /\ \A k \in 1..Len(head) : joined[k] = head[k]
        /\ \A k \in (Len(head) + 1)..(Len(head) + Len(tail)) :
             joined[k] = tail[k - Len(head)]
    BY <2>1 DEF joined
  <2>3. Len(g) \in Nat /\ p \in Nat
    OBVIOUS
  <2>4. /\ joined \in Seq(S) /\ Len(joined) = Len(g) - 1
        /\ \A k \in 1..(p - 1) : joined[k] = head[k]
        /\ \A k \in p..(Len(g) - 1) : joined[k] = tail[k - (p - 1)]
    BY <1>1, <1>2, <2>2, <2>3
  <2> QED BY <2>4 DEF joined
<1>5. \A k \in p..(Len(g) - 1) : tail[k - (p - 1)] = g[k + 1]
  <2> TAKE k \in p..(Len(g) - 1)
  <2>1. k - (p - 1) \in 1..(Len(g) - p) /\ p + (k - (p - 1)) = k + 1
    OBVIOUS
  <2> QED BY <1>2, <2>1
<1> QED BY <1>1, <1>3, <1>4, <1>5

\* kept is list without what is outside W, in order: f tells where each of its
\* messages stood.
Keeps(kept1, list, W, f) ==
  /\ kept1 \in Seq(Message)
  /\ f \in [1..Len(kept1) -> W]
  /\ \A i, j \in 1..Len(kept1) : i < j => f[i] < f[j]
  /\ \A w \in W : \E i \in 1..Len(kept1) : f[i] = w
  /\ \A i \in 1..Len(kept1) : kept1[i] = list[f[i]]

LEMMA KeepsLess ==
  ASSUME NEW list \in Seq(Message), NEW W \in SUBSET (1..Len(list)),
         NEW g, NEW f, Keeps(g, list, W, f),
         NEW p \in 1..Len(g), f[p] = p
  PROVE  Keeps(RemoveAt(g, p), list, W \ {p},
               [k \in 1..(Len(g) - 1) |-> IF k < p THEN f[k] ELSE f[k + 1]])
<1> DEFINE h == [k \in 1..(Len(g) - 1) |-> IF k < p THEN f[k] ELSE f[k + 1]]
           less == RemoveAt(g, p)
<1>1. /\ g \in Seq(Message) /\ f \in [1..Len(g) -> W] /\ Len(g) \in Nat
      /\ \A i, j \in 1..Len(g) : i < j => f[i] < f[j]
      /\ \A w \in W : \E i \in 1..Len(g) : f[i] = w
      /\ \A i \in 1..Len(g) : g[i] = list[f[i]]
  <2>1. g \in Seq(Message) /\ f \in [1..Len(g) -> W]
    BY DEF Keeps
  <2>2. Len(g) \in Nat
    BY <2>1
  <2> QED BY <2>1, <2>2 DEF Keeps
<1>2. /\ less \in Seq(Message) /\ Len(less) = Len(g) - 1
      /\ \A k \in 1..(Len(g) - 1) : less[k] = IF k < p THEN g[k] ELSE g[k + 1]
  BY <1>1, RemoveAtType
<1>3. \A k \in 1..(Len(g) - 1) : h[k] = IF k < p THEN f[k] ELSE f[k + 1]
  OBVIOUS
<1>4. \A i \in 1..Len(g) : f[i] \in Nat /\ (i # p => f[i] # p)
  <2> TAKE i \in 1..Len(g)
  <2>1. f[i] \in Nat
    <3>1. f[i] \in W
      BY <1>1
    <3>2. Len(list) \in Nat
      OBVIOUS
    <3>3. f[i] \in 1..Len(list)
      BY <3>1, Zenon
    <3> QED BY <3>2, <3>3
  <2>2. CASE i < p
    BY <1>1, <2>1, <2>2
  <2>3. CASE p < i
    BY <1>1, <2>1, <2>3
  <2> QED BY <2>1, <2>2, <2>3
<1>5. \A k \in 1..(Len(g) - 1) : h[k] \in W \ {p}
  <2> TAKE k \in 1..(Len(g) - 1)
  <2>1. k \in 1..Len(g) /\ k + 1 \in 1..Len(g)
    BY <1>1
  <2>2. f[k] \in W /\ f[k + 1] \in W
    BY <1>1, <2>1
  <2>3. h[k] = IF k < p THEN f[k] ELSE f[k + 1]
    BY <1>3
  <2>4. CASE k < p
    BY <1>4, <2>1, <2>2, <2>3, <2>4
  <2>5. CASE ~(k < p)
    <3>1. k + 1 # p
      BY <1>1, <2>5
    <3> QED BY <1>4, <2>1, <2>2, <2>3, <2>5, <3>1
  <2> QED BY <2>4, <2>5
<1>6. \A i, j \in 1..(Len(g) - 1) : i < j => h[i] < h[j]
  <2> SUFFICES ASSUME NEW i \in 1..(Len(g) - 1), NEW j \in 1..(Len(g) - 1), i < j
               PROVE  h[i] < h[j]
    OBVIOUS
  <2>1. i \in 1..Len(g) /\ j \in 1..Len(g) /\ i + 1 \in 1..Len(g) /\ j + 1 \in 1..Len(g)
    BY <1>1
  <2>2. f[i] < f[j] /\ f[i + 1] < f[j + 1] /\ f[i] < f[j + 1]
    BY <1>1, <2>1
  <2>3. h[i] = (IF i < p THEN f[i] ELSE f[i + 1]) /\ h[j] = (IF j < p THEN f[j] ELSE f[j + 1])
    BY <1>3
  <2> QED BY <2>2, <2>3
<1>7. \A w \in W \ {p} : \E i \in 1..(Len(g) - 1) : h[i] = w
  <2> TAKE w \in W \ {p}
  <2>1. PICK i \in 1..Len(g) : f[i] = w
    BY <1>1
  <2>2. i # p
    BY <2>1
  <2>3. CASE i < p
    <3>1. i \in 1..(Len(g) - 1)
      BY <1>1, <2>3
    <3> QED BY <1>3, <2>1, <2>3, <3>1
  <2>4. CASE p < i
    <3>1. i - 1 \in 1..(Len(g) - 1) /\ ~(i - 1 < p) /\ (i - 1) + 1 = i
      BY <1>1, <2>4
    <3> QED BY <1>3, <2>1, <3>1
  <2> QED BY <2>2, <2>3, <2>4
<1>8. \A i \in 1..(Len(g) - 1) : less[i] = list[h[i]]
  <2> TAKE i \in 1..(Len(g) - 1)
  <2>1. i \in 1..Len(g) /\ i + 1 \in 1..Len(g)
    BY <1>1
  <2> QED BY <1>1, <1>2, <1>3, <2>1
<1>9. h \in [1..(Len(g) - 1) -> W \ {p}]
  BY <1>5
<1> HIDE DEF h, less
<1>10. Keeps(less, list, W \ {p}, h)
  BY <1>2, <1>6, <1>7, <1>8, <1>9 DEF Keeps
<1> QED BY <1>10 DEF h, less


LEMMA KeepsAll ==
  ASSUME NEW list \in Seq(Message)
  PROVE  Keeps(list, list, 1..Len(list), [i \in 1..Len(list) |-> i])
<1> DEFINE f == [i \in 1..Len(list) |-> i]
<1>1. \A i \in 1..Len(list) : f[i] = i
  OBVIOUS
<1>2. f \in [1..Len(list) -> 1..Len(list)]
  OBVIOUS
<1> HIDE DEF f
<1>3. Keeps(list, list, 1..Len(list), f)
  BY <1>1, <1>2 DEF Keeps
<1> QED BY <1>3 DEF f

Ascending(places, list) ==
  /\ \A i \in 1..Len(places) : places[i] \in 1..Len(list)
  /\ \A i, j \in 1..Len(places) : i < j => places[i] < places[j]
Outside(places, list) == (1..Len(list)) \ {places[i] : i \in 1..Len(places)}

\* Taking the places out from the last one back, each is still where it was
\* when its turn comes.
LEMMA IntoMessagesKeeps ==
  ASSUME NEW list \in Seq(Message), NEW places \in Seq(Nat), Ascending(places, list)
  PROVE  \E f : Keeps(IntoMessages(list, places), list, Outside(places, list), f)
<1> DEFINE N == Len(places)
           Rest(n) == (1..Len(list)) \ {places[i] : i \in (N - n + 1)..N}
           Still(g, f, n) == n < N => \A k \in 1..places[N - n] : k <= Len(g) /\ f[k] = k
<1>1. N \in Nat /\ Len(list) \in Nat
  OBVIOUS
<1>2. PICK less : less = TakenOut(less, list, places) /\ IntoMessages(list, places) = less[N]
  BY IntoMessagesIs
<1>3. /\ less[0] = list
      /\ \A n \in 0..(N - 1) : less[n + 1] = RemoveAt(less[n], places[N - n])
  <2>1. \A n \in 0..N : less[n] =
          IF n = 0 THEN list ELSE RemoveAt(less[n - 1], places[N - n + 1])
    BY <1>2 DEF TakenOut
  <2>2. less[0] = list
    BY <1>1, <2>1
  <2>3. ASSUME NEW n \in 0..(N - 1) PROVE less[n + 1] = RemoveAt(less[n], places[N - n])
    <3>1. n + 1 \in 0..N /\ n + 1 # 0 /\ (n + 1) - 1 = n /\ N - (n + 1) + 1 = N - n
      BY <1>1
    <3> QED BY <2>1, <3>1
  <2> QED BY <2>2, <2>3
<1> DEFINE S == {n \in 0..N : \E f : Keeps(less[n], list, Rest(n), f) /\ Still(less[n], f, n)}
<1>4. 0 \in S
  <2> DEFINE f == [i \in 1..Len(list) |-> i]
  <2>1. Keeps(list, list, 1..Len(list), f)
    BY KeepsAll
  <2>2. Rest(0) = 1..Len(list)
    BY <1>1
  <2>3. Still(list, f, 0)
    <3> SUFFICES ASSUME 0 < N, NEW k \in 1..places[N - 0]
                 PROVE  k <= Len(list) /\ f[k] = k
      OBVIOUS
    <3>1. places[N - 0] \in 1..Len(list)
      BY <1>1 DEF Ascending
    <3> QED BY <1>1, <3>1
  <2> HIDE DEF f, Rest, Still
  <2> QED BY <1>1, <1>3, <2>1, <2>2, <2>3
<1>5. ASSUME NEW n \in 0..(N - 1), n \in S PROVE n + 1 \in S
  <2> DEFINE p == places[N - n]
             g == less[n]
  <2>1. PICK f : Keeps(g, list, Rest(n), f) /\ Still(g, f, n)
    BY <1>5
  <2>2. N - n \in 1..N /\ n < N /\ p \in 1..Len(list) /\ p \in Nat
    <3>1. N - n \in 1..N /\ n < N
      BY <1>1
    <3> QED BY <1>1, <3>1 DEF Ascending
  <2>3. Len(g) \in Nat
    BY <2>1 DEF Keeps
  <2>4. \A k \in 1..p : k <= Len(g) /\ f[k] = k
    BY <2>1, <2>2
  <2>5. p \in 1..Len(g) /\ f[p] = p
    BY <2>2, <2>3, <2>4
  <2> DEFINE h == [k \in 1..(Len(g) - 1) |-> IF k < p THEN f[k] ELSE f[k + 1]]
  <2>6. Rest(n) \in SUBSET (1..Len(list))
    OBVIOUS
  <2>7. Rest(n + 1) = Rest(n) \ {p}
    <3>1. (N - (n + 1) + 1)..N = ((N - n + 1)..N) \cup {N - n}
      BY <1>1, <2>2
    <3> QED BY <3>1
  <2>8. less[n + 1] = RemoveAt(g, p)
    BY <1>3
  <2>9. Len(RemoveAt(g, p)) = Len(g) - 1
    BY <2>1, <2>5, RemoveAtType DEF Keeps
  <2>10. Still(RemoveAt(g, p), h, n + 1)
    <3> SUFFICES ASSUME n + 1 < N, NEW k \in 1..places[N - (n + 1)]
                 PROVE  k <= Len(g) - 1 /\ h[k] = k
      BY <2>9
    <3>1. N - (n + 1) \in 1..N /\ N - (n + 1) < N - n
      BY <1>1
    <3>2. places[N - (n + 1)] < p /\ places[N - (n + 1)] \in Nat
      <4>1. places[N - (n + 1)] < places[N - n]
        BY <2>2, <3>1, Zenon DEF Ascending
      <4>2. places[N - (n + 1)] \in Nat
        BY <3>1
      <4> QED BY <4>1, <4>2
    <3>3. k < p /\ k \in 1..p
      BY <2>2, <3>2
    <3>4. k \in 1..(Len(g) - 1)
      BY <2>3, <2>5, <3>3
    <3> QED BY <2>3, <2>4, <3>3, <3>4
  <2> HIDE DEF Rest, Still
  <2>11. Keeps(RemoveAt(g, p), list, Rest(n) \ {p}, h)
    <3> HIDE DEF h, g, p
    <3> QED BY <2>1, <2>5, <2>6, KeepsLess DEF h
  <2> HIDE DEF h, g, p
  <2>12. n + 1 \in 0..N
    BY <1>1, <2>2
  <2> QED BY <2>7, <2>8, <2>10, <2>11, <2>12
<1> HIDE DEF S
<1>6. N \in S
  <2>1. \A n \in 0..(N - 1) : n \in S => n + 1 \in S
    BY <1>5
  <2>2. 0..N \subseteq S
    <3> HIDE DEF N
    <3> QED BY <1>1, <1>4, <2>1, IntervalInduction, Zenon
  <2> QED BY <1>1, <2>2
<1>7. PICK f : Keeps(less[N], list, Rest(N), f)
  BY <1>6 DEF S
<1>8. Rest(N) = Outside(places, list)
  BY <1>1 DEF Outside
<1> QED BY <1>2, <1>7, <1>8


-----------------------------------------------------------------------------
(***************************************************************************)
(* The notices of a run.  Their places are remembered in the order they    *)
(* went in, which is the order of the list, and nothing else moves.        *)
(***************************************************************************)
NoticesKnown ==
  /\ Ascending(transient, messages)
  /\ \A i \in 1..Len(messages) :
       messages[i].kind \in Notices <=> \E k \in 1..Len(transient) : transient[k] = i

KeptIs == kept = IF Handed THEN IntoMessages(messages, transient) ELSE <<>>

NoticeInv == LoopInv /\ NoticesKnown /\ KeptIs

LEMMA PushedKnown == ASSUME NoticeInv, NoticesPushed PROVE NoticesKnown'
<1>1. /\ messages \in Seq(Message) /\ messages' \in Seq(Message)
      /\ transient \in Seq(Nat) /\ transient' \in Seq(Nat)
  BY DEF NoticeInv, LoopInv, LoopTypeOK, NoticesPushed
<1> DEFINE m == Len(messages)
           t == Len(transient)
           n == Len(messages')
           u == Len(transient')
<1>2. /\ m \in Nat /\ t \in Nat /\ n \in Nat /\ u \in Nat /\ n >= m /\ u = t + (n - m)
  BY <1>1 DEF NoticesPushed
<1>3. /\ \A i \in 1..m : messages'[i] = messages[i]
      /\ \A i \in (m + 1)..n : messages'[i].kind \in Notices
      /\ \A i \in 1..t : transient'[i] = transient[i]
      /\ \A i \in (t + 1)..u : transient'[i] = m + (i - t)
  BY DEF NoticesPushed
<1>4. /\ \A i \in 1..t : transient[i] \in 1..m
      /\ \A i, j \in 1..t : i < j => transient[i] < transient[j]
      /\ \A i \in 1..m :
           messages[i].kind \in Notices <=> \E k \in 1..t : transient[k] = i
  BY DEF NoticeInv, NoticesKnown, Ascending
<1> HIDE DEF m, t, n, u
<1>5. \A i \in 1..u : \/ i \in 1..t /\ transient'[i] \in 1..m
                      \/ i \in (t + 1)..u /\ transient'[i] \in (m + 1)..n
  <2> TAKE i \in 1..u
  <2>1. CASE i \in 1..t
    BY <1>3, <1>4, <2>1
  <2>2. CASE i \notin 1..t
    <3>1. i \in (t + 1)..u /\ m + (i - t) \in (m + 1)..n
      BY <1>2, <2>2
    <3> QED BY <1>3, <3>1
  <2> QED BY <2>1, <2>2
<1>6. \A i \in 1..u : transient'[i] \in 1..n
  BY <1>2, <1>5
<1>7. \A i, j \in 1..u : i < j => transient'[i] < transient'[j]
  <2> SUFFICES ASSUME NEW i \in 1..u, NEW j \in 1..u, i < j
               PROVE  transient'[i] < transient'[j]
    OBVIOUS
  <2>1. CASE j \in 1..t
    <3>1. i \in 1..t
      BY <1>2, <2>1
    <3> QED BY <1>3, <1>4, <2>1, <3>1
  <2>2. CASE j \notin 1..t /\ i \in 1..t
    BY <1>2, <1>5, <2>2
  <2>3. CASE j \notin 1..t /\ i \notin 1..t
    <3>1. i \in (t + 1)..u /\ j \in (t + 1)..u
      BY <1>2, <2>3
    <3>2. transient'[i] = m + (i - t) /\ transient'[j] = m + (j - t)
      BY <1>3, <3>1
    <3> QED BY <1>2, <3>2
  <2> QED BY <2>1, <2>2, <2>3
<1>8. ASSUME NEW i \in 1..n
      PROVE  messages'[i].kind \in Notices <=> \E k \in 1..u : transient'[k] = i
  <2>1. CASE i \in 1..m
    <3>1. messages'[i].kind \in Notices <=> \E k \in 1..t : transient[k] = i
      BY <1>3, <1>4, <2>1
    <3>2. \A k \in 1..t : k \in 1..u /\ transient'[k] = transient[k]
      BY <1>2, <1>3
    <3>3. \A k \in 1..u : transient'[k] = i => k \in 1..t
      BY <1>2, <1>5, <2>1
    <3> QED BY <3>1, <3>2, <3>3
  <2>2. CASE i \notin 1..m
    <3>1. i \in (m + 1)..n
      BY <1>2, <2>2
    <3>2. t + (i - m) \in (t + 1)..u /\ t + (i - m) \in 1..u
          /\ m + ((t + (i - m)) - t) = i
      BY <1>2, <3>1
    <3>3. transient'[t + (i - m)] = i
      BY <1>3, <3>2
    <3> QED BY <1>3, <3>1, <3>2, <3>3
  <2> QED BY <2>1, <2>2
<1> QED BY <1>6, <1>7, <1>8 DEF NoticesKnown, Ascending, n, u

\* What is no notice goes in and leaves the places as they are.
LEMMA GrownKnown ==
  ASSUME NoticeInv, NEW more \in Seq(Message), messages' = messages \o more,
         \A i \in 1..Len(more) : more[i].kind \notin Notices,
         transient' = transient
  PROVE  NoticesKnown'
<1>1. messages \in Seq(Message) /\ transient \in Seq(Nat)
  BY DEF NoticeInv, LoopInv, LoopTypeOK
<1> DEFINE m == Len(messages)
           n == Len(messages')
           t == Len(transient)
<1>2. /\ n = m + Len(more) /\ m \in Nat /\ n \in Nat
      /\ \A i \in 1..m : messages'[i] = messages[i]
      /\ \A i \in (m + 1)..n : messages'[i] = more[i - m]
  <2> DEFINE joined == messages \o more
  <2>1. /\ Len(joined) = m + Len(more) /\ Len(more) \in Nat /\ m \in Nat
        /\ \A i \in 1..m : joined[i] = messages[i]
        /\ \A i \in (m + 1)..(m + Len(more)) : joined[i] = more[i - m]
    BY <1>1, PushMore
  <2> HIDE DEF joined
  <2>2. messages' = joined
    BY DEF joined
  <2> QED BY <2>1, <2>2
<1>3. /\ \A i \in 1..t : transient[i] \in 1..m
      /\ \A i, j \in 1..t : i < j => transient[i] < transient[j]
      /\ \A i \in 1..m :
           messages[i].kind \in Notices <=> \E k \in 1..t : transient[k] = i
  BY DEF NoticeInv, NoticesKnown, Ascending
<1>4. Len(more) \in Nat /\ Len(transient') = t
  OBVIOUS
<1> HIDE DEF m, n, t
<1>5. \A i \in 1..t : transient'[i] \in 1..n
  BY <1>2, <1>3, <1>4
<1>6. ASSUME NEW i \in 1..n
      PROVE  messages'[i].kind \in Notices <=> \E k \in 1..t : transient'[k] = i
  <2>1. CASE i \in 1..m
    BY <1>2, <1>3, <2>1
  <2>2. CASE i \notin 1..m
    <3>1. i \in (m + 1)..n /\ i - m \in 1..Len(more)
      BY <1>2, <1>4, <2>2
    <3>2. messages'[i].kind \notin Notices
      BY <1>2, <3>1
    <3>3. \A k \in 1..t : transient'[k] # i
      BY <1>3, <2>2
    <3> QED BY <3>2, <3>3
  <2> QED BY <2>1, <2>2
<1> QED BY <1>3, <1>4, <1>5, <1>6 DEF NoticesKnown, Ascending, n

\* The steps that take the list further.
LEMMA ResultIsNoNotice ==
  ASSUME step \in Nat, NEW image \in BOOLEAN
  PROVE  \A i \in 1..Len(Result(image)) :
           Result(image)[i].kind \in {"result", "image"} /\ Result(image)[i].step = step + 1
<1>1. /\ Len(Result(image)) = IF image THEN 2 ELSE 1
      /\ Result(image)[1] = Note("result", step + 1)
      /\ image => Result(image)[2] = Note("image", step + 1)
  BY ResultType
<1>2. \A kind : Note(kind, step + 1).kind = kind /\ Note(kind, step + 1).step = step + 1
  BY DEF Note
<1> SUFFICES ASSUME NEW i \in 1..Len(Result(image))
             PROVE  /\ Result(image)[i].kind \in {"result", "image"}
                    /\ Result(image)[i].step = step + 1
  OBVIOUS
<1>3. CASE image
  <2>1. i = 1 \/ i = 2
    BY <1>1, <1>3
  <2> QED BY <1>1, <1>2, <1>3, <2>1
<1>4. CASE ~image
  <2>1. i = 1
    BY <1>1, <1>4
  <2> QED BY <1>1, <1>2, <2>1
<1> QED BY <1>3, <1>4

Asked(n) == [Note("assistant", step + 1) EXCEPT !.calls = n]

LEMMA AskedType ==
  ASSUME step \in Nat, NEW n \in Nat
  PROVE  Asked(n) \in Message /\ Asked(n) = [kind |-> "assistant", step |-> step + 1, calls |-> n]
<1>1. Asked(n) = [kind |-> "assistant", step |-> step + 1, calls |-> n]
  BY DEF Asked, Note
<1> QED BY <1>1 DEF Message, Kinds

LEMMA NoticeStep == NoticeInv /\ [RunNext]_runVars => NoticeInv'
<1> SUFFICES ASSUME NoticeInv, [RunNext]_runVars PROVE NoticesKnown' /\ KeptIs'
  BY LoopStep DEF NoticeInv
<1>1. /\ LoopInv /\ NoticesKnown /\ KeptIs
      /\ messages \in Seq(Message) /\ step \in Nat
      /\ ended # "running" => pc = "over"
  BY DEF NoticeInv, LoopInv, LoopTypeOK, LoopShape
<1>2. CASE AskModel
  <2>1. NoticesKnown'
    BY <1>1, <1>2, AskModelPushes, PushedKnown
  <2>2. ended = "running" /\ ended' = ended /\ kept' = kept
    BY <1>1, <1>2 DEF AskModel
  <2> QED BY <1>1, <2>1, <2>2 DEF KeptIs, Handed
<1>3. CASE EndStep
  <2>1. NoticesKnown'
    BY <1>1, <1>3, EndStepPushes, PushedKnown
  <2>2. ended = "running"
    BY <1>1, <1>3 DEF EndStep
  <2>3. \/ ended' \in {"stop", "truncated", "steered"}
           /\ kept' = IntoMessages(messages', transient')
        \/ ended' = ended /\ kept' = kept
    BY <1>3 DEF EndStep, End, HandBack
  <2> QED BY <1>1, <2>1, <2>2, <2>3 DEF KeptIs, Handed
<1>4. CASE ModelAnswers
  <2>1. PICK cs \in Answers :
          /\ messages' = Append(messages, Asked(Len(cs)))
          /\ pc = "model" /\ UNCHANGED <<transient, ended, kept>>
    BY <1>4 DEF ModelAnswers, Asked
  <2>2. Len(cs) \in Nat
    BY AnswerTypes
  <2>3. Asked(Len(cs)) \in Message /\ Asked(Len(cs)).kind = "assistant"
    BY <1>1, <2>2, AskedType
  <2> DEFINE asked == Asked(Len(cs))
             more == <<asked>>
  <2>4. messages' = messages \o more
    <3> HIDE DEF asked
    <3> QED BY <1>1, <2>1, <2>3, PushOne DEF asked
  <2>5. more \in Seq(Message) /\ \A i \in 1..Len(more) : more[i].kind \notin Notices
    <3> HIDE DEF asked
    <3>1. asked \in Message /\ asked.kind \notin Notices
      BY <2>3 DEF asked, Notices
    <3> QED BY <3>1
  <2> HIDE DEF more
  <2>6. NoticesKnown'
    BY <2>1, <2>4, <2>5, GrownKnown
  <2> QED BY <1>1, <2>1, <2>6 DEF KeptIs, Handed
<1>5. CASE RefuseCall \/ RunCall \/ EndSpeaking
  <2>1. PICK tool \in Tools, success \in BOOLEAN, image \in BOOLEAN :
          /\ Answered(tool, success, image)
          /\ (pc = "tools" /\ at <= Len(called)) \/ pc = "send"
    BY <1>1, <1>5, CallAnswered
  <2>2. messages' = messages \o Result(image) /\ Result(image) \in Seq(Message)
    BY <1>1, <2>1, AnsweredLoop, ResultType
  <2>3. \A i \in 1..Len(Result(image)) : Result(image)[i].kind \notin Notices
    BY <1>1, ResultIsNoNotice DEF Notices
  <2>4. pc # "over" /\ UNCHANGED <<transient, ended, kept>>
    BY <2>1 DEF Answered
  <2>5. NoticesKnown'
    BY <2>2, <2>3, <2>4, GrownKnown
  <2> QED BY <1>1, <2>4, <2>5 DEF KeptIs, Handed
<1>6. CASE ModelRetries \/ BeginSpeaking \/ Speaking \/ Arrive \/ UNCHANGED runVars
  <2>1. UNCHANGED <<messages, transient, ended, kept>>
    BY <1>6 DEF ModelRetries, BeginSpeaking, Speaking, Arrive, runVars, loop
  <2> QED BY <1>1, <2>1 DEF NoticesKnown, Ascending, KeptIs, Handed
<1>7. CASE ModelFails \/ Shutdown
  <2>1. /\ UNCHANGED <<messages, transient, kept>> /\ pc # "over"
        /\ ended' \in {"failed", "cancelled"}
    BY <1>7 DEF ModelFails, Shutdown, End
  <2> QED BY <1>1, <2>1 DEF NoticesKnown, Ascending, KeptIs, Handed
<1> QED BY <1>2, <1>3, <1>4, <1>5, <1>6, <1>7 DEF RunNext

LEMMA NoticeInit == RunInit => NoticeInv
<1> SUFFICES ASSUME RunInit PROVE NoticesKnown /\ KeptIs
  BY LoopInit DEF NoticeInv
<1> DEFINE seed == [kind |-> "seed", step |-> 0, calls |-> 0]
<1>1. messages = <<seed>> /\ seed.kind = "seed"
  BY DEF RunInit
<1> HIDE DEF seed
<1>2. Len(messages) = 1 /\ messages[1].kind = "seed"
  BY <1>1
<1>3. Len(transient) = 0 /\ ended = "running" /\ kept = <<>>
  BY DEF RunInit
<1>4. NoticesKnown
  BY <1>2, <1>3 DEF NoticesKnown, Ascending, Notices
<1> QED BY <1>3, <1>4 DEF KeptIs, Handed

LEMMA CountsUp ==
  ASSUME NEW n \in Nat, NEW S, NEW f \in [1..n -> S],
         \A i, j \in 1..n : i < j => f[i] # f[j],
         \A s \in S : \E i \in 1..n : f[i] = s
  PROVE  IsFiniteSet(S) /\ Cardinality(S) = n
<1>1. f \in Injection(1..n, S)
  <2>1. \A i, j \in 1..n : f[i] = f[j] => i = j
    <3> SUFFICES ASSUME NEW i \in 1..n, NEW j \in 1..n, f[i] = f[j], i # j PROVE FALSE
      OBVIOUS
    <3>1. i < j \/ j < i
      OBVIOUS
    <3> QED BY <3>1, Zenon
  <2> QED BY <2>1 DEF Injection, IsInjective
<1>2. f \in Surjection(1..n, S)
  BY DEF Surjection
<1>3. ExistsBijection(1..n, S)
  BY <1>1, <1>2 DEF Bijection, ExistsBijection
<1>4. IsFiniteSet(1..n) /\ Cardinality(1..n) = n
  BY FS_Interval
<1> QED BY <1>3, <1>4, FS_Bijection

Upto(W, i) == {j \in W : j <= i}

\* What list kept is, counted: its i-th message is the one that stood at the
\* i-th place of W.
LEMMA KeepsCounts ==
  ASSUME NEW list \in Seq(Message), NEW W \in SUBSET (1..Len(list)),
         NEW g, NEW f, Keeps(g, list, W, f)
  PROVE  /\ Len(g) = Cardinality(W)
         /\ \A i \in W : g[Cardinality(Upto(W, i))] = list[i]
<1>1. /\ g \in Seq(Message) /\ f \in [1..Len(g) -> W] /\ Len(g) \in Nat
      /\ \A i, j \in 1..Len(g) : i < j => f[i] < f[j]
      /\ \A w \in W : \E i \in 1..Len(g) : f[i] = w
      /\ \A i \in 1..Len(g) : g[i] = list[f[i]]
  <2>1. g \in Seq(Message) /\ f \in [1..Len(g) -> W]
    BY DEF Keeps
  <2>2. Len(g) \in Nat
    BY <2>1
  <2> QED BY <2>1, <2>2 DEF Keeps
<1> DEFINE n == Len(g)
<1> HIDE DEF n
<1>2. \A i \in 1..n : f[i] \in W /\ f[i] \in Nat
  <2>1. \A i \in 1..n : f[i] \in W
    BY <1>1, Zenon DEF n
  <2>2. \A w \in W : w \in Nat
    OBVIOUS
  <2> QED BY <2>1, <2>2
<1>3. \A i, j \in 1..n : i < j => f[i] # f[j]
  BY <1>1, <1>2 DEF n
<1>4. n = Cardinality(W)
  BY <1>1, <1>3, CountsUp DEF n
<1>5. ASSUME NEW i \in W PROVE g[Cardinality(Upto(W, i))] = list[i]
  <2>1. PICK k \in 1..n : f[k] = i
    BY <1>1 DEF n
  <2> DEFINE T == {j \in W : j <= i}
             h == [m \in 1..k |-> f[m]]
  <2>2. k \in Nat /\ n \in Nat /\ \A m \in 1..k : m \in 1..n
    BY <1>1 DEF n
  <2>3. ASSUME NEW m \in 1..k PROVE f[m] \in T
    <3>1. m \in 1..n /\ (m = k \/ m < k)
      BY <2>2
    <3>2. f[m] <= f[k]
      BY <1>1, <1>2, <3>1 DEF n
    <3> QED BY <1>2, <2>1, <3>1, <3>2
  <2>4. ASSUME NEW t \in T PROVE \E m \in 1..k : f[m] = t
    <3>1. PICK m \in 1..n : f[m] = t
      BY <1>1 DEF n
    <3>2. ~ (k < m)
      <4>1. k < m => f[k] < f[m]
        BY <1>1, <3>1 DEF n
      <4> QED BY <1>2, <2>1, <3>1, <4>1
    <3>3. m \in 1..k
      BY <2>2, <3>1, <3>2
    <3> QED BY <3>1, <3>3
  <2>5. /\ h \in [1..k -> T]
        /\ \A m \in 1..k : h[m] = f[m]
    BY <2>3
  <2> HIDE DEF T, h
  <2>6. \A p, q \in 1..k : p < q => h[p] # h[q]
    BY <1>3, <2>2, <2>5
  <2>7. \A t \in T : \E m \in 1..k : h[m] = t
    BY <2>4, <2>5
  <2>8. Cardinality(T) = k
    BY <2>2, <2>5, <2>6, <2>7, CountsUp
  <2>9. g[k] = list[i]
    BY <1>1, <2>1 DEF n
  <2> QED BY <2>8, <2>9 DEF T, Upto
<1> QED BY <1>4, <1>5 DEF n

LEMMA NoticesAreOutside ==
  ASSUME NoticesKnown, messages \in Seq(Message), transient \in Seq(Nat)
  PROVE  /\ Outside(transient, messages) = Lasting
         /\ Lasting \in SUBSET (1..Len(messages))
<1>1. DOMAIN messages = 1..Len(messages)
  OBVIOUS
<1>2. \A i \in 1..Len(messages) :
        messages[i].kind \in Notices <=> i \in {transient[k] : k \in 1..Len(transient)}
  BY DEF NoticesKnown
<1> QED BY <1>1, <1>2 DEF Outside, Lasting

(***************************************************************************)
(* StepLoop::into_messages gives back what the run read and wrote, in      *)
(* order and without the notices it gave itself, although it takes them    *)
(* out of the list by the places they once went in at.                     *)
(***************************************************************************)
THEOREM NoticesEndWithTheRun == RunSpec => []NoticesNeverOutliveTheRun
<1>1. NoticeInv => NoticesNeverOutliveTheRun
  <2> SUFFICES ASSUME NoticeInv, Handed
               PROVE  /\ Len(kept) = Cardinality(Lasting)
                      /\ \A i \in Lasting :
                           kept[Cardinality({j \in Lasting : j <= i})] = messages[i]
    BY DEF NoticesNeverOutliveTheRun
  <2>1. /\ messages \in Seq(Message) /\ transient \in Seq(Nat)
        /\ NoticesKnown /\ Ascending(transient, messages)
        /\ kept = IntoMessages(messages, transient)
    BY DEF NoticeInv, LoopInv, LoopTypeOK, NoticesKnown, KeptIs
  <2>2. PICK f : Keeps(kept, messages, Outside(transient, messages), f)
    BY <2>1, IntoMessagesKeeps
  <2>3. /\ Keeps(kept, messages, Lasting, f)
        /\ Lasting \in SUBSET (1..Len(messages))
    BY <2>1, <2>2, NoticesAreOutside
  <2>4. \A i \in Lasting : Upto(Lasting, i) = {j \in Lasting : j <= i}
    BY DEF Upto
  <2>5. /\ Len(kept) = Cardinality(Lasting)
        /\ \A i \in Lasting : kept[Cardinality(Upto(Lasting, i))] = messages[i]
    BY <2>1, <2>3, KeepsCounts
  <2> QED BY <2>4, <2>5
<1> QED BY <1>1, NoticeInit, NoticeStep, PTL DEF RunSpec

(***************************************************************************)
(* Everything a run holds keeps its type: the counters stay within the     *)
(* retries the code allows, and what it hands back is a message list.      *)
(***************************************************************************)
THEOREM RunTypes == RunSpec => []RunTypeOK
<1>1. RunInit => NoticeInv /\ OutInv
  BY NoticeInit, OutInit0 DEF RunInit
<1>2. NoticeInv /\ OutInv /\ [RunNext]_runVars => NoticeInv' /\ OutInv'
  <2> SUFFICES ASSUME NoticeInv, OutInv, [RunNext]_runVars PROVE OutInv'
    BY NoticeStep
  <2>1. UNCHANGED out => OutInv'
    BY DEF out, OutInv, OutTypeOK, OutShape
  <2> QED BY <2>1, StepOut, OutStepType DEF NoticeInv
<1>3. NoticeInv /\ OutInv => RunTypeOK
  <2> SUFFICES ASSUME NoticeInv, OutInv PROVE kept \in Seq(Message)
    BY DEF NoticeInv, LoopInv, LoopTypeOK, OutInv, RunTypeOK
  <2>1. CASE Handed
    <3>1. /\ messages \in Seq(Message) /\ transient \in Seq(Nat)
          /\ Ascending(transient, messages)
          /\ kept = IntoMessages(messages, transient)
      BY <2>1 DEF NoticeInv, LoopInv, LoopTypeOK, NoticesKnown, KeptIs
    <3>2. PICK f : Keeps(kept, messages, Outside(transient, messages), f)
      BY <3>1, IntoMessagesKeeps
    <3> QED BY <3>2 DEF Keeps
  <2>2. CASE ~Handed
    BY <2>2, Nothing DEF NoticeInv, KeptIs
  <2> QED BY <2>1, <2>2
<1> QED BY <1>1, <1>2, <1>3, PTL DEF RunSpec

-----------------------------------------------------------------------------
(***************************************************************************)
(* The calls and their results.  A Step asks once and is answered call by  *)
(* call before anything else is said; what goes in afterwards is no result *)
(* of it.                                                                  *)
(***************************************************************************)
Settled(list, i) ==
  /\ Cardinality(AnswersOf(list, i)) = list[i].calls
  /\ \A j \in AnswersOf(list, i) :
       j > i /\ \A k \in (i + 1)..(j - 1) : list[k].kind \in {"result", "image"}
Complete(list) == \A i \in DOMAIN list : list[i].kind = "assistant" => Settled(list, i)
UpToStep(list, n) ==
  \A i \in DOMAIN list : list[i].kind \in {"assistant", "result"} => list[i].step <= n

\* The answer at hand: everything after it answers its calls, one by one.
Pending(list, a, n, answered) ==
  /\ a \in DOMAIN list /\ list[a].kind = "assistant" /\ list[a].step = n
  /\ \A k \in (a + 1)..Len(list) :
       list[k].kind \in {"result", "image"} /\ list[k].step = n
  /\ Cardinality(AnswersOf(list, a)) = answered
  /\ \A i \in 1..(a - 1) :
       /\ list[i].kind = "assistant" => Settled(list, i)
       /\ list[i].kind \in {"assistant", "result"} => list[i].step < n

Extends(list, more) ==
  /\ list \in Seq(Message) /\ more \in Seq(Message) /\ Len(more) >= Len(list)
  /\ \A i \in 1..Len(list) : more[i] = list[i]

LEMMA AnswersFinite ==
  ASSUME NEW list \in Seq(Message), NEW i
  PROVE  IsFiniteSet(AnswersOf(list, i)) /\ Cardinality(AnswersOf(list, i)) \in Nat
<1>1. Len(list) \in Nat /\ AnswersOf(list, i) \in SUBSET (1..Len(list))
  BY DEF AnswersOf
<1>2. IsFiniteSet(1..Len(list))
  BY <1>1, FS_Interval
<1> QED BY <1>1, <1>2, FS_Subset, FS_CardinalityType

\* What is said later settles and unsettles nothing of an earlier Step.
LEMMA SettledStays ==
  ASSUME NEW list, NEW more, Extends(list, more), NEW i \in 1..Len(list),
         Settled(list, i),
         \A k \in (Len(list) + 1)..Len(more) :
           more[k].kind = "result" => more[k].step # list[i].step
  PROVE  Settled(more, i)
<1>1. /\ Len(list) \in Nat /\ Len(more) \in Nat /\ Len(more) >= Len(list)
      /\ DOMAIN list = 1..Len(list) /\ DOMAIN more = 1..Len(more)
      /\ \A k \in 1..Len(list) : more[k] = list[k]
  BY DEF Extends
<1>2. AnswersOf(more, i) = AnswersOf(list, i)
  <2>1. \A j \in DOMAIN more : j \in 1..Len(list) \/ j \in (Len(list) + 1)..Len(more)
    BY <1>1
  <2>2. \A j \in DOMAIN list : j \in DOMAIN more
    BY <1>1
  <2> QED BY <1>1, <2>1, <2>2 DEF AnswersOf
<1>3. \A j \in AnswersOf(list, i) : j \in 1..Len(list)
  BY <1>1 DEF AnswersOf
<1>4. \A j \in AnswersOf(list, i) : \A k \in (i + 1)..(j - 1) : more[k] = list[k]
  BY <1>1, <1>3
<1> QED BY <1>1, <1>2, <1>4 DEF Settled

LEMMA CompleteStays ==
  ASSUME NEW list, NEW more, Extends(list, more), Complete(list),
         NEW n \in Nat, UpToStep(list, n),
         \A k \in (Len(list) + 1)..Len(more) : more[k].kind \in Notices
  PROVE  Complete(more) /\ UpToStep(more, n)
<1>1. /\ Len(list) \in Nat /\ Len(more) \in Nat /\ Len(more) >= Len(list)
      /\ DOMAIN list = 1..Len(list) /\ DOMAIN more = 1..Len(more)
      /\ \A k \in 1..Len(list) : more[k] = list[k]
  BY DEF Extends
<1>2. \A k \in (Len(list) + 1)..Len(more) : more[k].kind \notin {"assistant", "result"}
  BY DEF Notices
<1>3. \A j \in DOMAIN more : j \in 1..Len(list) \/ j \in (Len(list) + 1)..Len(more)
  BY <1>1
<1>4. ASSUME NEW i \in DOMAIN more, more[i].kind = "assistant" PROVE Settled(more, i)
  <2>1. i \in 1..Len(list)
    BY <1>2, <1>3, <1>4
  <2>2. Settled(list, i)
    BY <1>1, <1>4, <2>1 DEF Complete
  <2> QED BY <1>2, <2>1, <2>2, SettledStays
<1>5. UpToStep(more, n)
  BY <1>1, <1>2, <1>3 DEF UpToStep
<1> QED BY <1>4, <1>5 DEF Complete

\* The model answers: nothing of its Step is in the list yet.
LEMMA PendingBegins ==
  ASSUME NEW list \in Seq(Message), Complete(list), NEW n \in Nat, UpToStep(list, n),
         NEW e \in Message, e.kind = "assistant", e.step = n + 1
  PROVE  Pending(Append(list, e), Len(list) + 1, n + 1, 0)
<1> DEFINE more == Append(list, e)
           a == Len(list) + 1
<1>1. /\ more \in Seq(Message) /\ Len(more) = a /\ Len(list) \in Nat
      /\ more[a] = e /\ \A i \in 1..Len(list) : more[i] = list[i]
  OBVIOUS
<1>2. Extends(list, more)
  BY <1>1 DEF Extends
<1> HIDE DEF more
<1>3. DOMAIN more = 1..a /\ DOMAIN list = 1..Len(list) /\ a \in DOMAIN more
      /\ \A i \in 1..a : i = a \/ i \in 1..Len(list)
  BY <1>1
<1>4. ASSUME NEW i \in 1..Len(list)
      PROVE  /\ more[i].kind = "assistant" => Settled(more, i)
             /\ more[i].kind \in {"assistant", "result"} => more[i].step < n + 1
  <2>0. list[i] \in Message
    OBVIOUS
  <2>1. more[i] = list[i] /\ i \in DOMAIN list /\ list[i].step \in Nat
    BY <1>1, <1>3, <2>0 DEF Message
  <2>2. more[i].kind \in {"assistant", "result"} => more[i].step < n + 1
    BY <2>1 DEF UpToStep
  <2>3. \A k \in (Len(list) + 1)..Len(more) : more[k].kind # "result"
    BY <1>1
  <2>4. more[i].kind = "assistant" => Settled(list, i)
    BY <2>1 DEF Complete
  <2> QED BY <1>2, <2>2, <2>3, <2>4, SettledStays
<1>5. AnswersOf(more, a) = {}
  <2>1. \A i \in DOMAIN more : more[i].kind = "result" => more[i].step # n + 1
    BY <1>1, <1>3, <1>4
  <2> QED BY <1>1, <2>1 DEF AnswersOf
<1>6. Cardinality(AnswersOf(more, a)) = 0
  BY <1>5, FS_EmptySet
<1>7. 1..(a - 1) = 1..Len(list) /\ (a + 1)..Len(more) = {}
  BY <1>1
<1> HIDE DEF a
<1>8. Pending(more, a, n + 1, 0)
  BY <1>1, <1>3, <1>4, <1>6, <1>7 DEF Pending
<1> QED BY <1>8 DEF more, a

\* One more call is answered.
LEMMA PendingGoesOn ==
  ASSUME NEW list, NEW more, Extends(list, more), NEW a, NEW n \in Nat, NEW c \in Nat,
         Pending(list, a, n, c), Len(more) > Len(list),
         \A k \in (Len(list) + 1)..Len(more) :
           /\ more[k].kind = IF k = Len(list) + 1 THEN "result" ELSE "image"
           /\ more[k].step = n
  PROVE  Pending(more, a, n, c + 1)
<1> DEFINE m == Len(list) + 1
<1>1. /\ Len(list) \in Nat /\ Len(more) \in Nat /\ Len(more) >= Len(list)
      /\ DOMAIN list = 1..Len(list) /\ DOMAIN more = 1..Len(more)
      /\ \A k \in 1..Len(list) : more[k] = list[k]
      /\ list \in Seq(Message) /\ more \in Seq(Message)
  BY DEF Extends
<1>2. /\ a \in DOMAIN list /\ list[a].kind = "assistant" /\ list[a].step = n
      /\ \A k \in (a + 1)..Len(list) :
           list[k].kind \in {"result", "image"} /\ list[k].step = n
      /\ Cardinality(AnswersOf(list, a)) = c
      /\ \A i \in 1..(a - 1) :
           /\ list[i].kind = "assistant" => Settled(list, i)
           /\ list[i].kind \in {"assistant", "result"} => list[i].step < n
  BY DEF Pending
<1>3. a \in DOMAIN more /\ more[a] = list[a] /\ a \in 1..Len(list)
  BY <1>1, <1>2
<1>4. \A j \in DOMAIN more : j \in 1..Len(list) \/ j \in (Len(list) + 1)..Len(more)
  BY <1>1
<1>5. m \in DOMAIN more /\ m \notin DOMAIN list /\ more[m].kind = "result"
      /\ more[m].step = n
  BY <1>1
<1>6. \A j \in (Len(list) + 1)..Len(more) : j # m => more[j].kind = "image"
  OBVIOUS
<1>7. AnswersOf(more, a) = AnswersOf(list, a) \cup {m}
  <2>1. \A j \in DOMAIN list : j \in DOMAIN more /\ more[j] = list[j]
    BY <1>1
  <2>2. \A j \in DOMAIN more : j \in DOMAIN list \/ j = m \/ more[j].kind = "image"
    BY <1>1, <1>4, <1>6
  <2> HIDE DEF m
  <2> QED BY <1>2, <1>3, <1>5, <2>1, <2>2 DEF AnswersOf
<1>8. m \notin AnswersOf(list, a)
  BY <1>5 DEF AnswersOf
<1>9. Cardinality(AnswersOf(more, a)) = c + 1
  <2> DEFINE T == AnswersOf(list, a)
  <2>1. IsFiniteSet(T) /\ Cardinality(T) = c /\ m \notin T
    BY <1>1, <1>2, <1>8, AnswersFinite
  <2> HIDE DEF m, T
  <2>2. Cardinality(T \cup {m}) = c + 1
    BY <2>1, FS_AddElement
  <2> QED BY <1>7, <2>2 DEF T
<1>10. \A k \in (a + 1)..Len(more) :
         more[k].kind \in {"result", "image"} /\ more[k].step = n
  <2> TAKE k \in (a + 1)..Len(more)
  <2>1. k \in (a + 1)..Len(list) \/ k \in (Len(list) + 1)..Len(more)
    BY <1>1, <1>3
  <2>2. k \in (a + 1)..Len(list) => k \in 1..Len(list)
    BY <1>3
  <2> QED BY <1>1, <1>2, <2>1, <2>2
<1>11. ASSUME NEW i \in 1..(a - 1)
       PROVE  /\ more[i].kind = "assistant" => Settled(more, i)
              /\ more[i].kind \in {"assistant", "result"} => more[i].step < n
  <2>1. i \in 1..Len(list) /\ more[i] = list[i] /\ list[i] \in Message
    BY <1>1, <1>3
  <2>2. list[i].kind = "assistant" => Settled(more, i)
    <3> SUFFICES ASSUME list[i].kind = "assistant" PROVE Settled(more, i)
      OBVIOUS
    <3>1. Settled(list, i) /\ list[i].step < n /\ list[i].step \in Nat
      BY <1>2, <2>1 DEF Message
    <3>2. \A k \in (Len(list) + 1)..Len(more) : more[k].step # list[i].step
      BY <3>1
    <3> QED BY <2>1, <3>1, <3>2, SettledStays
  <2> QED BY <1>2, <2>1, <2>2
<1> QED BY <1>3, <1>2, <1>9, <1>10, <1>11 DEF Pending

\* Every call is answered.
LEMMA PendingEnds ==
  ASSUME NEW list \in Seq(Message), NEW a, NEW n \in Nat,
         Pending(list, a, n, list[a].calls)
  PROVE  Complete(list) /\ UpToStep(list, n)
<1>1. /\ a \in DOMAIN list /\ list[a].kind = "assistant" /\ list[a].step = n
      /\ \A k \in (a + 1)..Len(list) :
           list[k].kind \in {"result", "image"} /\ list[k].step = n
      /\ Cardinality(AnswersOf(list, a)) = list[a].calls
      /\ \A i \in 1..(a - 1) :
           /\ list[i].kind = "assistant" => Settled(list, i)
           /\ list[i].kind \in {"assistant", "result"} => list[i].step < n
  BY DEF Pending
<1>0. \A i \in DOMAIN list : list[i] \in Message
  OBVIOUS
<1>2. DOMAIN list = 1..Len(list) /\ Len(list) \in Nat /\ a \in 1..Len(list)
      /\ \A i \in DOMAIN list : list[i].step \in Nat
  BY <1>0, <1>1 DEF Message
<1>3. \A i \in DOMAIN list : i \in 1..(a - 1) \/ i = a \/ i \in (a + 1)..Len(list)
  BY <1>2
<1>4. ASSUME NEW j \in AnswersOf(list, a)
      PROVE  j > a /\ \A k \in (a + 1)..(j - 1) : list[k].kind \in {"result", "image"}
  <2>1. j \in DOMAIN list /\ list[j].kind = "result" /\ list[j].step = n
    BY <1>1 DEF AnswersOf
  <2>2. j \in (a + 1)..Len(list)
    BY <1>1, <1>2, <1>3, <2>1
  <2>3. \A k \in (a + 1)..(j - 1) : k \in (a + 1)..Len(list)
    BY <1>2, <2>2
  <2> QED BY <1>1, <1>2, <2>2, <2>3
<1>5. Settled(list, a)
  BY <1>1, <1>4 DEF Settled
<1> QED BY <1>1, <1>5, <1>2, <1>3 DEF Complete, UpToStep

\* A list without its notices has its calls answered as before.
LEMMA KeepsComplete ==
  ASSUME NEW list \in Seq(Message), NEW W \in SUBSET (1..Len(list)),
         \A i \in 1..Len(list) : list[i].kind \notin Notices => i \in W,
         NEW g, NEW f, Keeps(g, list, W, f), Complete(list)
  PROVE  Complete(g)
<1>1. /\ g \in Seq(Message) /\ f \in [1..Len(g) -> W] /\ Len(g) \in Nat
      /\ \A i, j \in 1..Len(g) : i < j => f[i] < f[j]
      /\ \A w \in W : \E i \in 1..Len(g) : f[i] = w
      /\ \A i \in 1..Len(g) : g[i] = list[f[i]]
  <2>1. g \in Seq(Message) /\ f \in [1..Len(g) -> W]
    BY DEF Keeps
  <2>2. Len(g) \in Nat
    BY <2>1
  <2> QED BY <2>1, <2>2 DEF Keeps
<1>2. \A i \in 1..Len(g) : f[i] \in W
  BY <1>1, Zenon
<1>3. DOMAIN list = 1..Len(list) /\ DOMAIN g = 1..Len(g) /\ Len(list) \in Nat
      /\ \A w \in W : w \in 1..Len(list)
  BY <1>1
<1>4. \A i \in 1..Len(g) : f[i] \in DOMAIN list /\ f[i] \in Nat
  <2>1. \A w \in W : w \in DOMAIN list /\ w \in Nat
    BY <1>3
  <2> QED BY <1>2, <2>1, Zenon
<1>5. ASSUME NEW i \in 1..Len(g), g[i].kind = "assistant" PROVE Settled(g, i)
  <2> DEFINE S == AnswersOf(g, i)
             T == AnswersOf(list, f[i])
  <2>1. list[f[i]].kind = "assistant" /\ f[i] \in DOMAIN list /\ g[i] = list[f[i]]
    BY <1>1, <1>4, <1>5
  <2>2. /\ Cardinality(T) = g[i].calls
        /\ \A j \in T : /\ j > f[i]
                        /\ \A k \in (f[i] + 1)..(j - 1) : list[k].kind \in {"result", "image"}
    BY <2>1 DEF Complete, Settled
  <2>3. \A j \in S : j \in 1..Len(g) /\ g[j].kind = "result" /\ g[j].step = g[i].step
    BY <1>3 DEF AnswersOf
  <2>4. \A j \in S : f[j] \in T
    BY <1>1, <1>4, <2>1, <2>3 DEF AnswersOf
  <2>5. \A t \in T : \E j \in S : f[j] = t
    <3> SUFFICES ASSUME NEW t \in T PROVE \E j \in S : f[j] = t
      OBVIOUS
    <3>1. t \in 1..Len(list) /\ list[t].kind = "result" /\ list[t].step = g[i].step
      BY <1>3, <2>1 DEF AnswersOf
    <3>2. t \in W
      BY <3>1 DEF Notices
    <3>3. PICK j \in 1..Len(g) : f[j] = t
      BY <1>1, <3>2
    <3>4. j \in S
      BY <1>1, <1>3, <3>1, <3>3 DEF AnswersOf
    <3> QED BY <3>3, <3>4
  <2>6. \A j, k \in S : f[j] = f[k] => j = k
    <3> SUFFICES ASSUME NEW j \in S, NEW k \in S, f[j] = f[k], j # k PROVE FALSE
      OBVIOUS
    <3>1. j \in 1..Len(g) /\ k \in 1..Len(g)
      BY <2>3
    <3>2. j < k \/ k < j
      BY <3>1
    <3>3. f[j] < f[k] \/ f[k] < f[j]
      BY <1>1, <3>1, <3>2
    <3> QED BY <1>4, <3>1, <3>3
  <2> DEFINE h == [j \in S |-> f[j]]
  <2>7. h \in Bijection(S, T)
    <3>1. h \in [S -> T]
      BY <2>4
    <3>2. \A t \in T : \E j \in S : h[j] = t
      BY <2>5
    <3>3. \A j, k \in S : h[j] = h[k] => j = k
      BY <2>6
    <3>4. DOMAIN h = S
      OBVIOUS
    <3> HIDE DEF h, S, T
    <3> QED BY <3>1, <3>2, <3>3, <3>4 DEF Bijection, Injection, Surjection, IsInjective
  <2>8. Cardinality(S) = g[i].calls
    <3>1. IsFiniteSet(S)
      BY <1>1, AnswersFinite
    <3> HIDE DEF h, S, T
    <3>2. ExistsBijection(S, T)
      BY <2>7 DEF ExistsBijection
    <3>3. Cardinality(T) = Cardinality(S)
      BY <3>1, <3>2, FS_Bijection
    <3> QED BY <2>2, <3>3
  <2>9. ASSUME NEW j \in S
        PROVE  j > i /\ \A k \in (i + 1)..(j - 1) : g[k].kind \in {"result", "image"}
    <3>1. j \in 1..Len(g) /\ f[j] \in T
      BY <2>3, <2>4, <2>9
    <3>2. f[i] < f[j] /\ \A k \in (f[i] + 1)..(f[j] - 1) : list[k].kind \in {"result", "image"}
      BY <1>4, <2>2, <3>1
    <3>3. i < j
      <4>1. j < i => f[j] < f[i]
        BY <1>1, <3>1
      <4> QED BY <1>4, <3>1, <3>2, <4>1
    <3>4. ASSUME NEW k \in (i + 1)..(j - 1) PROVE g[k].kind \in {"result", "image"}
      <4>1. k \in 1..Len(g) /\ i < k /\ k < j
        BY <3>1, <3>3
      <4>2. f[i] < f[k] /\ f[k] < f[j]
        BY <1>1, <3>1, <4>1
      <4>3. f[k] \in (f[i] + 1)..(f[j] - 1)
        BY <1>4, <3>1, <4>1, <4>2
      <4> QED BY <1>1, <3>2, <4>1, <4>3
    <3> QED BY <3>3, <3>4
  <2> QED BY <2>8, <2>9 DEF Settled
<1> QED BY <1>3, <1>5 DEF Complete

CallsInv ==
  /\ NoticeInv
  /\ pc \in {"head", "model"} => Complete(messages) /\ UpToStep(messages, step)
  /\ pc \in {"tools", "send"} =>
       \E a \in DOMAIN messages :
         Pending(messages, a, step + 1, at - 1) /\ messages[a].calls = Len(called)
  /\ Handed => Complete(messages)

LEMMA CallsEndStep ==
  ASSUME CallsInv, EndStep
  PROVE  Complete(messages') /\ UpToStep(messages', step')
<1>1. /\ LoopInv /\ pc = "tools" /\ at > Len(called) /\ step' = step + 1
      /\ messages \in Seq(Message) /\ step \in Nat
      /\ called \in Seq(Tools) /\ at \in 1..(Len(called) + 1)
  BY DEF CallsInv, NoticeInv, LoopInv, LoopTypeOK, LoopShape, EndStep
<1>2. at - 1 = Len(called)
  BY <1>1
<1>3. PICK a \in DOMAIN messages :
        Pending(messages, a, step + 1, at - 1) /\ messages[a].calls = Len(called)
  BY <1>1 DEF CallsInv
<1>4. Complete(messages) /\ UpToStep(messages, step + 1)
  BY <1>1, <1>2, <1>3, PendingEnds
<1>5. Extends(messages, messages')
  BY <1>1, EndStepPushes DEF NoticesPushed, Extends
<1>6. \A i \in (Len(messages) + 1)..Len(messages') : messages'[i].kind \in Notices
  BY <1>1, EndStepPushes DEF NoticesPushed
<1>7. step + 1 \in Nat
  BY <1>1
<1> QED BY <1>1, <1>4, <1>5, <1>6, <1>7, CompleteStays

LEMMA CallsStep == CallsInv /\ [RunNext]_runVars => CallsInv'
<1> SUFFICES ASSUME CallsInv, [RunNext]_runVars
             PROVE  /\ pc' \in {"head", "model"} =>
                         Complete(messages') /\ UpToStep(messages', step')
                    /\ pc' \in {"tools", "send"} =>
                         \E a \in DOMAIN messages' :
                           /\ Pending(messages', a, step' + 1, at' - 1)
                           /\ messages'[a].calls = Len(called')
                    /\ Handed' => Complete(messages')
  BY NoticeStep DEF CallsInv, Complete, UpToStep, Pending, Settled, AnswersOf
<1>1. /\ LoopInv /\ NoticeInv /\ messages \in Seq(Message) /\ step \in Nat
      /\ ended # "running" => pc = "over"
      /\ at \in Nat
  BY DEF CallsInv, NoticeInv, LoopInv, LoopTypeOK, LoopShape
<1>2. CASE AskModel
  <2>1. /\ pc = "head" /\ pc' = "model" /\ step' = step /\ ended' = ended
    BY <1>2 DEF AskModel
  <2>2. /\ Extends(messages, messages')
        /\ \A i \in (Len(messages) + 1)..Len(messages') : messages'[i].kind \in Notices
    BY <1>1, <1>2, AskModelPushes DEF NoticesPushed, Extends
  <2>3. Complete(messages) /\ UpToStep(messages, step)
    BY <2>1 DEF CallsInv
  <2>4. Complete(messages') /\ UpToStep(messages', step')
    BY <1>1, <2>1, <2>2, <2>3, CompleteStays
  <2> QED BY <2>1, <2>4
<1>3. CASE EndStep
  <2>1. pc' \in {"head", "over"}
    BY <1>3 DEF EndStep, End
  <2> QED BY <1>3, <2>1, CallsEndStep
<1>4. CASE ModelAnswers
  <2>1. PICK cs \in Answers :
          /\ messages' = Append(messages, Asked(Len(cs)))
          /\ pc = "model" /\ pc' = "tools" /\ called' = cs
          /\ UNCHANGED <<step, at, ended>>
    BY <1>4 DEF ModelAnswers, Asked
  <2>2. Len(cs) \in Nat /\ at = 1
    BY <1>1, <2>1, AnswerTypes DEF LoopInv, LoopShape
  <2>3. /\ Asked(Len(cs)) \in Message
        /\ Asked(Len(cs)) = [kind |-> "assistant", step |-> step + 1, calls |-> Len(cs)]
    BY <1>1, <2>2, AskedType
  <2> DEFINE asked == Asked(Len(cs))
             a == Len(messages) + 1
  <2>4. asked \in Message /\ asked.kind = "assistant" /\ asked.step = step + 1
        /\ asked.calls = Len(cs)
    BY <2>3
  <2>5. Complete(messages) /\ UpToStep(messages, step)
    BY <2>1 DEF CallsInv
  <2>6. messages' = Append(messages, asked)
    BY <2>1
  <2> HIDE DEF asked
  <2>7. Pending(messages', a, step + 1, 0)
    BY <1>1, <2>4, <2>5, <2>6, PendingBegins
  <2>8. a \in DOMAIN messages' /\ messages'[a].calls = Len(cs)
    BY <1>1, <2>4, <2>6
  <2>9. at' - 1 = 0 /\ step' + 1 = step + 1
    BY <2>1, <2>2
  <2>10. ~Handed'
    BY <1>1, <2>1 DEF Handed
  <2> HIDE DEF a
  <2> QED BY <2>1, <2>7, <2>8, <2>9, <2>10
<1>5. CASE RefuseCall \/ RunCall \/ EndSpeaking
  <2>1. PICK tool \in Tools, success \in BOOLEAN, image \in BOOLEAN :
          /\ Answered(tool, success, image)
          /\ (pc = "tools" /\ at <= Len(called)) \/ pc = "send"
    BY <1>1, <1>5, CallAnswered
  <2>2. messages' = messages \o Result(image) /\ Result(image) \in Seq(Message)
    BY <1>1, <2>1, AnsweredLoop, ResultType
  <2>3. pc' = "tools" /\ at' = at + 1 /\ UNCHANGED <<step, called, ended>>
    BY <2>1 DEF Answered
  <2>4. PICK a \in DOMAIN messages :
          Pending(messages, a, step + 1, at - 1) /\ messages[a].calls = Len(called)
    BY <2>1 DEF CallsInv
  <2> DEFINE more == Result(image)
             joined == messages \o more
             m == Len(messages)
  <2>5. /\ more \in Seq(Message) /\ Len(more) = IF image THEN 2 ELSE 1
        /\ more[1] = Note("result", step + 1)
        /\ image => more[2] = Note("image", step + 1)
    BY <1>1, ResultType
  <2> HIDE DEF more
  <2>6. /\ joined \in Seq(Message) /\ Len(joined) = m + Len(more) /\ m \in Nat
        /\ \A i \in 1..m : joined[i] = messages[i]
        /\ \A i \in (m + 1)..(m + Len(more)) : joined[i] = more[i - m]
    <3>1. /\ joined \in Seq(Message) /\ Len(joined) = Len(messages) + Len(more)
          /\ \A i \in 1..Len(messages) : joined[i] = messages[i]
          /\ \A i \in (Len(messages) + 1)..(Len(messages) + Len(more)) :
               joined[i] = more[i - Len(messages)]
      BY <1>1, <2>5, PushMore
    <3> HIDE DEF joined
    <3> QED BY <1>1, <3>1
  <2> HIDE DEF joined
  <2>7. Extends(messages, joined) /\ Len(joined) > Len(messages)
    BY <1>1, <2>5, <2>6 DEF Extends
  <2>8. \A k \in (m + 1)..Len(joined) :
          /\ joined[k].kind = IF k = m + 1 THEN "result" ELSE "image"
          /\ joined[k].step = step + 1
    <3> TAKE k \in (m + 1)..Len(joined)
    <3>1. \A kind : Note(kind, step + 1).kind = kind /\ Note(kind, step + 1).step = step + 1
      BY DEF Note
    <3>2. joined[k] = more[k - m]
      BY <2>6
    <3>3. CASE k = m + 1
      <4>1. k - m = 1
        BY <2>6, <3>3
      <4> QED BY <2>5, <3>1, <3>2, <3>3, <4>1
    <3>4. CASE k # m + 1
      <4>1. Len(more) >= 2 /\ Len(more) \in Nat
        <5>1. k \in (m + 1)..(m + Len(more)) /\ Len(more) \in Nat
          BY <2>5, <2>6
        <5> QED BY <2>6, <3>4, <5>1
      <4>2. image /\ Len(more) = 2
        BY <2>5, <4>1
      <4>3. k - m = 2
        BY <2>6, <3>4, <4>2
      <4> QED BY <2>5, <3>1, <3>2, <3>4, <4>2, <4>3
    <3> QED BY <3>3, <3>4
  <2>9. at - 1 \in Nat
    <3>1. Cardinality(AnswersOf(messages, a)) = at - 1
      BY <2>4 DEF Pending
    <3> QED BY <1>1, <3>1, AnswersFinite
  <2>10. Pending(joined, a, step + 1, (at - 1) + 1)
    <3>1. step + 1 \in Nat
      BY <1>1
    <3> QED BY <2>4, <2>7, <2>8, <2>9, <3>1, PendingGoesOn DEF m
  <2>11. a \in DOMAIN joined /\ joined[a].calls = Len(called)
    <3>1. a \in 1..Len(messages)
      BY <1>1
    <3>2. joined[a] = messages[a]
      BY <2>7, <3>1 DEF Extends
    <3>3. joined \in Seq(Message) /\ Len(joined) >= Len(messages)
      BY <2>7 DEF Extends
    <3>4. a \in DOMAIN joined
      BY <1>1, <3>1, <3>3
    <3> QED BY <2>4, <3>2, <3>4
  <2>12. messages' = joined
    BY <2>2 DEF joined, more
  <2>13. (at - 1) + 1 = at' - 1 /\ ~Handed'
    BY <1>1, <2>1, <2>3 DEF Handed
  <2> QED BY <2>3, <2>10, <2>11, <2>12, <2>13
<1>6. CASE ModelRetries \/ BeginSpeaking \/ Speaking \/ Arrive \/ UNCHANGED runVars
  <2>1. /\ UNCHANGED <<messages, ended, step, at, called>>
        /\ pc' = pc \/ (pc = "tools" /\ pc' = "send")
    BY <1>6 DEF ModelRetries, BeginSpeaking, Speaking, Arrive, runVars, loop, Running
  <2> QED BY <2>1 DEF CallsInv, Handed
<1>7. CASE ModelFails \/ Shutdown
  <2>1. pc' = "over" /\ ~Handed'
    BY <1>7 DEF ModelFails, Shutdown, End, Handed
  <2> QED BY <2>1
<1> QED BY <1>2, <1>3, <1>4, <1>5, <1>6, <1>7 DEF RunNext

LEMMA CallsInit == RunInit => CallsInv
<1> SUFFICES ASSUME RunInit PROVE CallsInv
  OBVIOUS
<1> DEFINE seed == [kind |-> "seed", step |-> 0, calls |-> 0]
<1>1. messages = <<seed>> /\ seed.kind = "seed"
  BY DEF RunInit
<1> HIDE DEF seed
<1>2. \A i \in DOMAIN messages : messages[i].kind = "seed"
  BY <1>1
<1>3. pc = "head" /\ ~Handed
  BY DEF RunInit, Handed
<1> QED BY <1>2, <1>3, NoticeInit DEF CallsInv, Complete, UpToStep

(***************************************************************************)
(* No model is handed a history with an unanswered call: whenever it is    *)
(* asked, and in what a run hands back with its notices taken out, every   *)
(* call an answer made has its result before anything else is said.        *)
(***************************************************************************)
THEOREM EveryCallIsAnswered == RunSpec => []AnswersFollowTheirCalls
<1>1. CallsInv => AnswersFollowTheirCalls
  <2> SUFFICES ASSUME CallsInv
               PROVE  \A list \in {IF pc = "model" THEN messages ELSE <<>>, kept} :
                        Complete(list)
    BY DEF AnswersFollowTheirCalls, Complete, Settled
  <2>1. Complete(<<>>)
    BY DEF Complete
  <2>2. pc = "model" => Complete(messages)
    BY DEF CallsInv
  <2>3. Complete(kept)
    <3>1. CASE Handed
      <4>1. /\ messages \in Seq(Message) /\ transient \in Seq(Nat)
            /\ NoticesKnown /\ Ascending(transient, messages)
            /\ kept = IntoMessages(messages, transient) /\ Complete(messages)
        BY <3>1 DEF CallsInv, NoticeInv, LoopInv, LoopTypeOK, NoticesKnown, KeptIs
      <4>2. PICK f : Keeps(kept, messages, Outside(transient, messages), f)
        BY <4>1, IntoMessagesKeeps
      <4>3. /\ Keeps(kept, messages, Lasting, f)
            /\ Lasting \in SUBSET (1..Len(messages))
        BY <4>1, <4>2, NoticesAreOutside
      <4>4. \A i \in 1..Len(messages) : messages[i].kind \notin Notices => i \in Lasting
        BY <4>1 DEF Lasting
      <4> QED BY <4>1, <4>3, <4>4, KeepsComplete
    <3>2. CASE ~Handed
      BY <2>1, <3>2 DEF CallsInv, NoticeInv, KeptIs
    <3> QED BY <3>1, <3>2
  <2> QED BY <2>1, <2>2, <2>3
<1> QED BY <1>1, CallsInit, CallsStep, PTL DEF RunSpec
=============================================================================
