---------------------------- MODULE MCMembership ----------------------------
(***************************************************************************)
(* Instances of Membership: the Chats, the Conversations they begin in,    *)
(* and what happens in them.                                               *)
(***************************************************************************)
EXTENDS Membership, TLC

CONSTANTS A, B, P, Q

\* Each Chat has a Conversation of its own, or both share one.
Apart == (A :> 1) @@ (B :> 2)
Shared == (A :> 1) @@ (B :> 1)

\* A message and a purge of one Chat, a message and a setting of the other.
EveryChatOf == <<A, B, B>>
EveryKindOf == <<"message", "purge", "setting">>

\* Two messages of one Chat.
SpeakChatOf == <<A, A>>
SpeakKindOf == <<"message", "message">>

\* Which of two operators is which does not matter.
OperatorSymmetry == Permutations({P, Q})
=============================================================================
