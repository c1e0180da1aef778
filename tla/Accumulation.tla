---------------------------- MODULE Accumulation ----------------------------
(***************************************************************************)
(* What one conversation row promises to everybody who writes to it: a     *)
(* change appended to the accumulation leaves it exactly once, in the step *)
(* that puts it into the stored context or in the step that carries out    *)
(* the request it stands for.  Neither half ever happens alone.            *)
(*                                                                         *)
(* This is the contract the documentation states for the row ("a context   *)
(* and the changes it read can never disagree"); ConversationAgent is the  *)
(* program that has to keep it.                                            *)
(***************************************************************************)
CONSTANTS Changes,   \* every change that may be appended
          Requests,  \* the changes a pass carries out: they are never told
          AnswersMayBeLost  \* a write may be carried out and go unanswered

VARIABLES sent,      \* the changes appended so far
          pending,   \* the changes nobody consumed yet
          told,      \* the changes the stored chapter tells of
          retired    \* the changes an earlier chapter told, or a pass carried out

vars == <<sent, pending, told, retired>>

TypeOK ==
  /\ sent \subseteq Changes
  /\ pending \subseteq Changes
  /\ told \subseteq Changes
  /\ retired \subseteq Changes

Init ==
  /\ sent = {}
  /\ pending = {}
  /\ told = {}
  /\ retired = {}

Append(c) ==
  /\ c \notin sent
  /\ sent' = sent \cup {c}
  /\ pending' = pending \cup {c}
  /\ UNCHANGED <<told, retired>>

\* What the stored chapter may tell again.  An agent whose closing write was
\* carried out and went unanswered still holds the chapter it closed: the next
\* pass that leaves the chapter alone stores that one.
Resumed(T) ==
  IF AnswersMayBeLost THEN {T \cup R : R \in SUBSET (retired \ Requests)} ELSE {T}

\* A Turn ends: what it consumed is what the stored chapter now tells.
Answer(S) ==
  /\ S # {}
  /\ S \subseteq pending \ Requests
  /\ pending' = pending \ S
  /\ told' \in Resumed(told \cup S)
  /\ UNCHANGED <<sent, retired>>

\* A pass ends that leaves the chapter alone: it spent its own request.
Spend(S) ==
  /\ S # {}
  /\ S \subseteq pending \cap Requests
  /\ pending' = pending \ S
  /\ retired' = retired \cup S
  /\ told' \in Resumed(told)
  /\ UNCHANGED sent

\* The chapter closes, by a wrap-up or by a purge: the next one tells nothing.
\* A purge takes the changes its deletes made meaningless along.
Close(S) ==
  /\ S \subseteq pending
  /\ pending' = pending \ S
  /\ told' = {}
  /\ retired' = retired \cup told \cup S
  /\ UNCHANGED sent

Next ==
  \/ \E c \in Changes : Append(c)
  \/ \E S \in SUBSET Changes : Answer(S) \/ Spend(S) \/ Close(S)

Spec == Init /\ [][Next]_vars

-----------------------------------------------------------------------------
(***************************************************************************)
(* Every change ever appended is still pending, told by the stored chapter *)
(* or retired: the row loses nothing.                                      *)
(***************************************************************************)
NothingIsLost == sent = pending \cup told \cup retired

(***************************************************************************)
(* A change the stored chapter tells has left the accumulation, so no      *)
(* later Turn can read it a second time.                                   *)
(***************************************************************************)
NothingIsToldAndPending == told \cap pending = {}
=============================================================================
