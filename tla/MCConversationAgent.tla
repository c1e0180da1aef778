----------------------- MODULE MCConversationAgent -----------------------
(***************************************************************************)
(* Instances of ConversationAgent: which changes may be appended, in which *)
(* of two Chats.                                                           *)
(***************************************************************************)
EXTENDS ConversationAgent

CONSTANTS A, B

\* Two Chats with a reason, a setting of one of them and a purge.
SettingKindOf == <<"addressed", "overheard", "host", "purge">>
SettingChatOf == <<A, B, A, B>>

\* Two Chats with a reason of different strength, and a purge.
PurgeKindOf == <<"instruct", "overheard", "purge">>
PurgeChatOf == <<A, B, A>>

\* A change, a purge that spares the chapter, and a stricter policy.
RequestKindOf == <<"addressed", "sweep", "policy">>
RequestChatOf == <<A, A, B>>

\* One Chat speaks twice, and a setting of the other one changes.
SpeakKindOf == <<"addressed", "overheard", "host">>
SpeakChatOf == <<A, A, B>>
=============================================================================
