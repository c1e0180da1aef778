--------------------------------- MODULE Run ---------------------------------
(***************************************************************************)
(* One run of the model (agent/run): the Step loop over a message list,    *)
(* the model calls it retries, the tools it runs one after the other, and  *)
(* the role that decides when it is over. A speaking call goes out through *)
(* Outbound, step by step.                                                 *)
(*                                                                         *)
(* What a model writes, which tools it calls and what they return is free; *)
(* a message is the kind of thing it is and the Step it belongs to.        *)
(* A definition named ...Mutant is a variant no action uses: with it in    *)
(* place of the definition below it, the property it names fails.          *)
(***************************************************************************)
EXTENDS Outbound, SequencesExt

CONSTANTS
  Roles,      \* the roles this instance may run
  Steering,   \* [agent.context] steering
  Budget,     \* [agent] max-steps
  MaxCalls,   \* bound: calls of the model in the whole run
  MaxSends,   \* bound: those among them that speak
  Toolbox     \* bound: the tools it calls

ASSUME RunAssumption ==
  /\ Roles \subseteq {"default", "wrapup", "digest"}
  /\ Steering \in BOOLEAN /\ Budget \in Nat /\ MaxCalls \in Nat /\ MaxSends \in Nat
  /\ Toolbox \subseteq {"send", "skip", "generate", "read", "act", "unknown"}

MAX_LLM_RETRIES      == 2
BUDGET_NOTICE_AT     == 2
STALL_REPEATS        == 3
MAX_CONTRACT_RETRIES == 1

\* A tool by what its metadata says; "unknown" is a name nothing mounts.
Tools    == {"send", "skip", "generate", "read", "act", "unknown"}
Speaks   == {"send"}
EndsTurn == {"skip"}
Produces == {"generate"}
ReadOnly == {"read"}

VARIABLES
  role, pc,
  step,        \* steps finished
  attempt,     \* model calls that failed in this Step
  messages,    \* Messages
  transient,   \* StepLoop::transient
  warned,      \* StepLoop::warned
  lastCall,    \* StallGuard::last, the call and its result
  repeats,     \* StallGuard::repeats
  spoke,       \* StepLoop::spoke
  violations,  \* RoleSpec::contract_violations
  words,       \* what the last answer wrote besides its calls
  called,      \* the calls of the answer at hand
  at,          \* the next of them to run
  stalled,     \* one of them repeated itself
  arrived,     \* Doorbell::steered: the origin Chat rang since the run began
  ended,       \* how the run ended
  kept         \* the messages it handed back

loop == <<role, pc, step, attempt, messages, transient, warned, lastCall, repeats,
          spoke, violations, words, called, at, stalled, arrived, ended, kept>>
runVars == <<loop, out>>

Notices  == {"budget", "stall", "guide"}
Kinds    == {"seed", "assistant", "result", "image"} \cup Notices
Message  == [kind : Kinds, step : Nat, calls : Nat]
Texts    == {"none", "words"}
Endings  == {"running", "stop", "truncated", "steered", "failed", "cancelled"}

RunTypeOK ==
  /\ OutTypeOK
  /\ role \in Roles /\ pc \in {"head", "model", "tools", "send", "over"}
  /\ step \in Nat /\ attempt \in 0..MAX_LLM_RETRIES
  /\ messages \in Seq(Message) /\ kept \in Seq(Message)
  /\ transient \in Seq(Nat) /\ warned \in BOOLEAN /\ spoke \in BOOLEAN
  /\ repeats \in 0..(STALL_REPEATS - 1) /\ violations \in 0..2
  /\ words \in Texts /\ called \in Seq(Tools) /\ at \in Nat
  /\ stalled \in BOOLEAN /\ arrived \in BOOLEAN /\ ended \in Endings
  /\ lastCall \in {<<>>} \cup (Tools \X BOOLEAN)

RunInit ==
  /\ OutInit
  /\ role \in Roles /\ pc = "head" /\ step = 0 /\ attempt = 0
  /\ messages = <<[kind |-> "seed", step |-> 0, calls |-> 0]>> /\ transient = <<>>
  /\ warned = FALSE /\ lastCall = <<>> /\ repeats = 0 /\ spoke = FALSE
  /\ violations = 0 /\ words = "none" /\ called = <<>> /\ at = 1
  /\ stalled = FALSE /\ arrived = FALSE /\ ended = "running" /\ kept = <<>>

-----------------------------------------------------------------------------
(***************************************************************************)
(* Roles                                                                   *)
(***************************************************************************)
\* A digest is handed only the tools that read.
Mounted == IF role = "digest" THEN ReadOnly ELSE Tools \ {"unknown"}

RejectsMutant(tool) ==                       \* QuietPassesStaySilent
  CASE role = "default" -> FALSE
    [] role = "wrapup"  -> tool \in EndsTurn \cup Produces
    [] role = "digest"  -> tool \notin ReadOnly

Rejects(tool) ==
  CASE role = "default" -> FALSE
    [] role = "wrapup"  -> tool \in Speaks \cup EndsTurn \cup Produces
    [] role = "digest"  -> tool \notin ReadOnly
Skipped      == \E i \in DOMAIN called : called[i] \in EndsTurn \cap Mounted
NonSkipCalls == {i \in DOMAIN called : called[i] \notin EndsTurn \cap Mounted}

\* Only a run that has not spoken can have left its reply in the text.
Violating == ~spoke /\ words # "none" /\ NonSkipCalls = {}

DecisionMutant ==                            \* UnsentTextIsAskedAbout
  IF role # "default"
  THEN IF called = <<>> THEN "stop" ELSE "continue"
  ELSE IF Skipped \/ NonSkipCalls = {} THEN "stop"
  ELSE IF Violating /\ violations < MAX_CONTRACT_RETRIES THEN "retry" ELSE "continue"

\* RoleSpec::decide_step: what the answer at hand makes of the run.
Decision ==
  IF role # "default"
  THEN IF called = <<>> THEN "stop" ELSE "continue"
  ELSE IF Violating /\ violations < MAX_CONTRACT_RETRIES THEN "retry"
  ELSE IF Skipped \/ NonSkipCalls = {} THEN "stop" ELSE "continue"
-----------------------------------------------------------------------------
(***************************************************************************)
(* The message list                                                        *)
(***************************************************************************)
Note(kind, n) == [kind |-> kind, step |-> n, calls |-> 0]

\* StepLoop::notice: the kinds pushed, in order, with their places remembered.
Noticed(kinds) ==
  /\ messages' = messages \o [i \in DOMAIN kinds |-> Note(kinds[i], step)]
  /\ transient' = transient \o [i \in DOMAIN kinds |-> Len(messages) + i]

IntoMessagesMutant(list, places) ==          \* NoticesNeverOutliveTheRun
  LET less[n \in 0..Len(places)] ==
        IF n = 0 THEN list ELSE RemoveAt(less[n - 1], places[n])
  IN  less[Len(places)]

\* StepLoop::into_messages: the notices are taken out from the last one back;
\* less[n] is the list without those at the last n places.
IntoMessages(list, places) ==
  LET less[n \in 0..Len(places)] ==
        IF n = 0 THEN list
        ELSE RemoveAt(less[n - 1], places[Len(places) - n + 1])
  IN  less[Len(places)]

-----------------------------------------------------------------------------
(***************************************************************************)
(* The loop                                                                *)
(***************************************************************************)
\* The head of an iteration: the budget notice, then the request goes out.
AskModel ==
  /\ pc = "head"
  /\ LET due == ~warned /\ step + BUDGET_NOTICE_AT >= Budget IN
       /\ warned' = (warned \/ due)
       /\ Noticed(IF due THEN <<"budget">> ELSE <<>>)
  /\ pc' = "model" /\ called' = <<>> /\ at' = 1 /\ stalled' = FALSE
  /\ UNCHANGED <<role, step, attempt, lastCall, repeats, spoke, violations, words,
                 arrived, ended, kept, out>>

ModelRetriesMutant ==                        \* RunEndsIfAnswered
  /\ pc = "model"
  /\ attempt' = (attempt + 1) % MAX_LLM_RETRIES
  /\ UNCHANGED <<role, pc, step, messages, transient, warned, lastCall, repeats, spoke,
                 violations, words, called, at, stalled, arrived, ended, kept, out>>

\* A transient failure is slept out and the request goes out again.
ModelRetries ==
  /\ pc = "model" /\ attempt < MAX_LLM_RETRIES
  /\ attempt' = attempt + 1
  /\ UNCHANGED <<role, pc, step, messages, transient, warned, lastCall, repeats, spoke,
                 violations, words, called, at, stalled, arrived, ended, kept, out>>

End(how) ==
  /\ pc' = "over" /\ ended' = how

ModelFails ==
  /\ pc = "model"
  /\ End("failed")
  /\ UNCHANGED <<role, step, attempt, messages, transient, warned, lastCall, repeats,
                 spoke, violations, words, called, at, stalled, arrived, kept, out>>

CallsMade == Cardinality({i \in DOMAIN messages : messages[i].kind = "result"})
Answers   == UNION {[1..n -> Toolbox] : n \in 0..(MaxCalls - CallsMade)}

ModelAnswers ==
  \E text \in Texts, cs \in Answers :
    /\ pc = "model"
    /\ calls + Cardinality({i \in DOMAIN cs : cs[i] = "send"}) <= MaxSends
    /\ pc' = "tools" /\ called' = cs
    /\ words' = text
    /\ messages' = Append(messages, [Note("assistant", step + 1) EXCEPT !.calls = Len(cs)])
    /\ attempt' = 0
    /\ UNCHANGED <<role, step, transient, warned, lastCall, repeats, spoke,
                   violations, at, stalled, arrived, ended, kept, out>>

Running(tool) == pc = "tools" /\ at <= Len(called) /\ called[at] = tool

ObserveMutant(tool, success, same) ==        \* RunTypeOK
  /\ same => lastCall = <<tool, success>>
  /\ lastCall' = <<tool, success>>
  /\ repeats' = IF same THEN repeats + 1 ELSE 1
  /\ stalled' = (stalled \/ repeats' >= STALL_REPEATS)

\* StallGuard::observe: the same call with the same result, once more. What a
\* call asks and returns beyond its tool and its success is the choice of same.
Observe(tool, success, same) ==
  /\ same => lastCall = <<tool, success>>
  /\ IF same /\ repeats + 1 >= STALL_REPEATS
     THEN stalled' = TRUE /\ lastCall' = <<>> /\ repeats' = 0
     ELSE /\ lastCall' = <<tool, success>>
          /\ repeats' = IF same THEN repeats + 1 ELSE 1
          /\ UNCHANGED stalled

\* One call is answered: its result, and the image it may have brought along.
Answered(tool, success, image) ==
  /\ pc' = "tools" /\ at' = at + 1
  /\ spoke' = (spoke \/ (success /\ tool \in Speaks \cap Mounted))
  /\ \E same \in BOOLEAN : Observe(tool, success, same)
  /\ messages' = messages \o <<Note("result", step + 1)>>
                          \o (IF image THEN <<Note("image", step + 1)>> ELSE <<>>)
  /\ UNCHANGED <<role, step, attempt, transient, warned, violations, words, called,
                 arrived, ended, kept>>

Unserved(tool) == tool \notin Mounted \/ Rejects(tool)

RefuseCallMutant ==                          \* AnswersFollowTheirCalls
  \E tool \in Tools :
    /\ Running(tool) /\ Unserved(tool)
    /\ at' = at + 1
    /\ UNCHANGED <<role, pc, step, attempt, messages, transient, warned, lastCall, repeats,
                   spoke, violations, words, called, stalled, arrived, ended, kept, out>>

RefuseCall ==
  \E tool \in Tools :
    /\ Running(tool) /\ Unserved(tool)
    /\ Answered(tool, FALSE, FALSE)
    /\ UNCHANGED out
\* Every tool but the speaking one: skip cannot fail, and only a read may
\* bring an image.
RunCall ==
  \E tool \in Tools \ Speaks, success, image \in BOOLEAN :
    /\ Running(tool) /\ ~Unserved(tool)
    /\ tool = "skip" => success
    /\ image => success /\ tool = "read"
    /\ Answered(tool, success, image)
    /\ UNCHANGED out

BeginSpeaking ==
  \E kind \in {"text", "media"}, reference \in 0..Len(thread) :
    /\ Running("send") /\ ~Unserved("send")
    /\ BeginSend(kind, reference)
    /\ pc' = "send"
    /\ UNCHANGED <<role, step, attempt, messages, transient, warned, lastCall, repeats,
                   spoke, violations, words, called, at, stalled, arrived, ended, kept>>

Speaking == pc = "send" /\ SendStep /\ UNCHANGED loop

EndSpeakingMutant ==                         \* TheRunKnowsWhatItSaid
  /\ pc = "send" /\ sending \in {"sent", "refused"}
  /\ Answered("send", TRUE, FALSE)
  /\ UNCHANGED out

EndSpeaking ==
  /\ pc = "send" /\ sending \in {"sent", "refused"}
  /\ Answered("send", sending = "sent", FALSE)
  /\ UNCHANGED out

Limit == step + 1 >= Budget
HandBack == kept' = IntoMessages(messages', transient')

\* The end of a Step: the role decides, the notices go in, and the run stops,
\* is truncated, is steered, or goes round again.
EndStep ==
  /\ pc = "tools" /\ at > Len(called)
  /\ step' = step + 1
  /\ violations' = IF role = "default" /\ Violating THEN violations + 1 ELSE 0
  /\ messages' = messages
       \o (IF Decision = "retry" THEN <<Note("guide", step + 1)>> ELSE <<>>)
       \o (IF stalled THEN <<Note("stall", step + 1)>> ELSE <<>>)
  /\ transient' = transient \o [i \in 1..(Len(messages') - Len(messages)) |->
                                   Len(messages) + i]
  /\ \/ Decision = "stop" /\ End("stop") /\ HandBack
     \/ Decision # "stop" /\ Limit /\ End("truncated") /\ HandBack
     \/ /\ Decision # "stop" /\ ~Limit
        /\ IF Steering /\ role = "default" /\ arrived
           THEN End("steered") /\ HandBack
           ELSE pc' = "head" /\ UNCHANGED <<ended, kept>>
  /\ UNCHANGED <<role, attempt, warned, lastCall, repeats, spoke, words, called, at,
                 stalled, arrived, out>>

\* A change of the origin Chat rings while the run is on its way.
Arrive ==
  /\ pc # "over" /\ ~arrived
  /\ arrived' = TRUE /\ PersonWrites
  /\ UNCHANGED <<role, pc, step, attempt, messages, transient, warned, lastCall, repeats,
                 spoke, violations, words, called, at, stalled, ended, kept>>

\* The process stops: the run is dropped at whatever it waits for.
Shutdown ==
  /\ pc \in {"model", "tools", "send"}
  /\ End("cancelled")
  /\ UNCHANGED <<role, step, attempt, messages, transient, warned, lastCall, repeats, spoke,
                 violations, words, called, at, stalled, arrived, kept, out>>

RunNext ==
  \/ AskModel \/ ModelRetries \/ ModelFails \/ ModelAnswers
  \/ RefuseCall \/ RunCall \/ BeginSpeaking \/ Speaking \/ EndSpeaking
  \/ EndStep \/ Arrive \/ Shutdown

RunSpec == RunInit /\ [][RunNext]_runVars

\* What a run waits for, and the code need not limit: the model's answer, a
\* tool's, a wire call's, the store's.
Awaiting == \/ pc = "model"
            \/ pc = "tools" /\ at <= Len(called) /\ called[at] # "send" /\ ~Unserved(called[at])
            \/ pc = "send" /\ sending \in {"resolve", "wire", "record"}
Answer == ModelRetries \/ ModelFails \/ ModelAnswers \/ RunCall \/ Speaking

\* What it does of itself; nothing outside has to go on.
Internal == AskModel \/ RefuseCall \/ BeginSpeaking \/ EndSpeaking \/ EndStep
RunFairSpec == RunSpec /\ WF_runVars(Internal)

-----------------------------------------------------------------------------
Handed == ended \in {"stop", "truncated", "steered"}

Lasting == {i \in DOMAIN messages : messages[i].kind \notin Notices}

(* The messages a run hands back are those it read and wrote, in order:    *)
(* none of the notices it gave itself is among them, whatever was pushed   *)
(* between them, so the next Turn does not read a spent budget's warning.  *)
NoticesNeverOutliveTheRun ==
  Handed =>
    /\ Len(kept) = Cardinality(Lasting)
    /\ \A i \in Lasting : kept[Cardinality({j \in Lasting : j <= i})] = messages[i]

AnswersOf(list, i) ==
  {j \in DOMAIN list : list[j].kind = "result" /\ list[j].step = list[i].step}

(* Whenever the model is asked, and in what a run hands back, every call   *)
(* an answer made has its result before anything else is said: between a   *)
(* call and its results only results and the images they brought stand. A  *)
(* model refuses a history with an unanswered call.                        *)
AnswersFollowTheirCalls ==
  \A list \in {IF pc = "model" THEN messages ELSE <<>>, kept} :
    \A i \in DOMAIN list :
      list[i].kind = "assistant" =>
        /\ Cardinality(AnswersOf(list, i)) = list[i].calls
        /\ \A j \in AnswersOf(list, i) :
             j > i /\ \A k \in (i + 1)..(j - 1) : list[k].kind \in {"result", "image"}

(* A default run that stops having written text and sent nothing was asked *)
(* for it once: at the Step before, by a guide in the list it then read.   *)
UnsentTextIsAskedAbout ==
  ended = "stop" /\ role = "default" /\ ~spoke /\ words # "none"
    /\ NonSkipCalls = {} =>
      \E i \in DOMAIN messages : messages[i] = Note("guide", step - 1)

(* A wrap-up and a digest reach nobody: nothing of theirs leaves for the   *)
(* Chat, whatever the model calls.                                         *)
QuietPassesStaySilent == role # "default" => left = <<>>

(* A run says it spoke exactly when the store has a row of something it    *)
(* sent: the contract, the attention window and the next Turn go by that.  *)
TheRunKnowsWhatItSaid ==
  pc # "send" /\ ended # "cancelled" => (spoke <=> rows # {})

(* A run that does not end stands for good in one wait for the outside: no *)
(* further answer comes. However often a model fails, repeats itself or    *)
(* asks for more, and whatever a send meets, the run ends if it is         *)
(* answered each time.                                                     *)
RunEndsIfAnswered ==
  <>(pc = "over") \/ (<>[]Awaiting /\ <>[][~Answer]_runVars)
=============================================================================
