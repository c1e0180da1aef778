------------------------------ MODULE Outbound ------------------------------
(***************************************************************************)
(* One message on its way out: the send tool (agent/tools/send), the       *)
(* recorder around the platform (platform/outbound.rs) and the Telegram    *)
(* send chain under it (platform/telegram), one send at a time as a Step   *)
(* runs its calls.                                                         *)
(*                                                                         *)
(* The platform either takes a wire call or refuses it, and its answer to  *)
(* a call it took may be lost: the caller cannot tell that from a refusal. *)
(* What a refused argument is (a form this build does not serve, a         *)
(* reference of another Chat, an excerpt nobody wrote, an unknown topic)   *)
(* makes no difference here: nothing has left yet.                         *)
(***************************************************************************)
EXTENDS Naturals, Sequences, FiniteSets

CONSTANTS
  Private,      \* the Chat is one-to-one
  RichMessage,  \* TelegramConfig::rich_message
  MaxThread,    \* bound: a person writes only in a Chat with fewer messages
  MaxLost       \* bound: answers lost and rows not written, in all

ASSUME OutboundAssumption ==
  Private \in BOOLEAN /\ RichMessage \in BOOLEAN /\ MaxThread \in Nat /\ MaxLost \in Nat

VARIABLES
  thread,   \* who wrote each stored message of the Chat, in id order
  calls,    \* sends begun so far
  sending,  \* where the send stands
  forms,    \* the wire calls it may still try
  target,   \* ReplyTo::reference: a message id, 0 for none
  linked,   \* the wire message carries the reference
  left,     \* the copies the platform took, in order: the send each is of
  rows,     \* the copies the store has a row of, as positions in left
  lost      \* answers lost and rows not written so far

out == <<thread, calls, sending, forms, target, linked, left, rows, lost>>

OutTypeOK ==
  /\ thread \in Seq({"user", "agent"})
  /\ calls \in Nat /\ target \in Nat
  /\ sending \in {"idle", "resolve", "wire", "record", "sent", "refused"}
  /\ forms \in Seq({"rich", "markdown", "plain", "media"})
  /\ linked \in BOOLEAN /\ lost \in 0..MaxLost
  /\ left \in Seq(Nat) /\ rows \subseteq DOMAIN left

OutInit ==
  /\ thread = <<"user">> /\ calls = 0 /\ sending = "idle" /\ forms = <<>>
  /\ target = 0 /\ linked = FALSE
  /\ left = <<>> /\ rows = {} /\ lost = 0

\* Text is tried in ever plainer forms; media has one call and no other form.
TextForms  == IF RichMessage THEN <<"rich", "markdown", "plain">>
                             ELSE <<"markdown", "plain">>
MediaForms == <<"media">>

\* The call is over: what it worked with is gone.
Over(how) ==
  /\ sending' = how
  /\ forms' = <<>> /\ target' = 0 /\ linked' = FALSE

\* MessageRepo::has_newer_from_user
HasNewerFromUser(id) == \E i \in DOMAIN thread : i > id /\ thread[i] = "user"

\* SendMessage::execute: the arguments are read and the payload is built.
BeginSend(kind, reference) ==
  /\ sending \in {"idle", "sent", "refused"}
  /\ sending' = "resolve" /\ calls' = calls + 1
  /\ forms' = IF kind = "text" THEN TextForms ELSE MediaForms
  /\ target' = reference
  /\ UNCHANGED <<thread, linked, left, rows, lost>>

RefuseSend ==
  /\ sending = "resolve"
  /\ Over("refused")
  /\ UNCHANGED <<thread, calls, left, rows, lost>>

\* In a one-to-one chat a bare reference with nothing newer from the person
\* is dropped; an excerpt always travels.
CarriesLink(quoting) ==
  target # 0 /\ (quoting \/ ~Private \/ HasNewerFromUser(target))
ResolveSend ==
  \E quoting \in BOOLEAN :
    /\ sending = "resolve"
    /\ quoting => target # 0
    /\ sending' = "wire"
    /\ linked' = CarriesLink(quoting)
    /\ UNCHANGED <<thread, calls, forms, target, left, rows, lost>>

\* The platform takes the message: one more copy of the send at hand is out.
Taken == left' = Append(left, calls)

WireTakes ==
  /\ sending = "wire"
  /\ Taken
  /\ sending' = "record"
  /\ UNCHANGED <<thread, calls, forms, target, linked, rows, lost>>

\* A wire call that errors leaves the next plainer form, or the tool's error.
NextForm ==
  IF Len(forms) > 1
  THEN forms' = Tail(forms) /\ UNCHANGED <<sending, target, linked>>
  ELSE Over("refused")

WireRefuses ==
  /\ sending = "wire"
  /\ NextForm
  /\ UNCHANGED <<thread, calls, left, rows, lost>>

WireAnswerLost ==
  /\ sending = "wire" /\ lost < MaxLost
  /\ lost' = lost + 1
  /\ Taken
  /\ NextForm
  /\ UNCHANGED <<thread, calls, rows>>

RecordSendMutant ==                 \* EverySendIsAccountedFor
  /\ sending = "record"
  /\ rows' = rows \cup {calls}
  /\ thread' = Append(thread, "agent")
  /\ Over("sent")
  /\ UNCHANGED <<calls, left, lost>>

\* The receipt of the copy whose answer came back becomes the one row.
RecordSend ==
  /\ sending = "record"
  /\ rows' = rows \cup {Len(left)}
  /\ thread' = Append(thread, "agent")
  /\ Over("sent")
  /\ UNCHANGED <<calls, left, lost>>
RecordFails ==
  /\ sending = "record" /\ lost < MaxLost
  /\ lost' = lost + 1
  /\ Over("refused")
  /\ UNCHANGED <<thread, calls, left, rows>>

\* External: a person writes in the Chat.
PersonWrites ==
  /\ Len(thread) < MaxThread
  /\ thread' = Append(thread, "user")
  /\ UNCHANGED <<calls, sending, forms, target, linked, left, rows, lost>>

SendStep == \/ RefuseSend \/ ResolveSend \/ WireTakes \/ WireRefuses
            \/ WireAnswerLost \/ RecordSend \/ RecordFails

-----------------------------------------------------------------------------
CopiesOf(n) == {i \in DOMAIN left : left[i] = n}

(* A send the tool reports as done has exactly one row, the row of the     *)
(* last copy that left; a send reported as failed has none, and its stray  *)
(* copies are no more than the answers and rows that were lost.            *)
EverySendIsAccountedFor ==
  /\ sending = "sent" => rows \cap CopiesOf(calls) = {Len(left)}
  /\ sending = "refused" => rows \cap CopiesOf(calls) = {}
  /\ Cardinality(DOMAIN left \ rows) <= lost + (IF sending = "record" THEN 1 ELSE 0)

(* platform/outbound.rs:104: a reference is dropped where it is to the     *)
(* newest thing the person said, when the reply leaves.                    *)
ADroppedLinkIsToTheLastWords ==
  sending = "wire" /\ target # 0 /\ ~linked =>
    thread[target] = "user" /\ ~HasNewerFromUser(target)
=============================================================================
