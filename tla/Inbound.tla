------------------------------- MODULE Inbound -------------------------------
(***************************************************************************)
(* The inbound path of one chat (agent/inbound/mod.rs): its updates in the *)
(* order the platform has them, what each one stores, and what its         *)
(* commands and its buttons set going. Updates are handled one at a time;  *)
(* the platform forgets those a poll has confirmed, and gives the others   *)
(* again to the next process. A digest runs beside all this and comes back *)
(* to the page it was started from.                                        *)
(*                                                                         *)
(* Left out: a creation that carries an edited_at, arrivals of people      *)
(* without access and the cooldown of what they are told, attachments,     *)
(* joins, the commands that only answer (greeting, help, status, language, *)
(* persona), and other chats.                                              *)
(***************************************************************************)
EXTENDS Pages

CONSTANTS
  Messages,     \* what people write
  Lines,        \* the command lines they send, and who sends them
  DefaultLevel, \* the content policy of the configuration
  MaxUpdates,   \* bound: the updates of one chat
  MaxLines,     \* bound: command lines among them
  MaxAhead      \* bound: those that wait for the one being handled

ASSUME InboundAssumption ==
  DefaultLevel \in Levels /\ {MaxUpdates, MaxLines, MaxAhead} \subseteq Nat

VARIABLES
  log,       \* external: the chat's updates, in order
  confirmed, \* external: how many the platform did not give to this process
  handled,   \* how many this process, and those before it, are through with
  rows,      \* the message rows
  queue,     \* every entry appended to conversation.pending, in order
  level,     \* the conversation's content policy
  jobs       \* the digests asked for, and what became of their reports

chatvars == <<log, confirmed>>
storevars == <<rows, queue, level>>
vars == <<pagevars, chatvars, storevars, handled, jobs>>

\* A command line: what it named. "yes" stands for --yes, or for a level.
NoLine == [of |-> "none", by |-> Nobody, range |-> NoRange, everything |-> FALSE, yes |-> FALSE,
           delivery |-> NoDelivery, level |-> 0]
NoUpdate == [kind |-> "none", by |-> Nobody, message |-> 0, at |-> 0, text |-> 0,
             token |-> [draw |-> 0, button |-> Button("none")], on |-> 0, line |-> NoLine]
Entry(kind) == [kind |-> kind, message |-> 0, at |-> 0, range |-> NoRange,
                everything |-> FALSE, cause |-> 0]

InboundInit ==
  /\ PagesInit /\ log = <<>> /\ confirmed = 0 /\ handled = 0
  /\ rows = [m \in Messages |-> [stored |-> FALSE, text |-> 0, edited |-> 0]]
  /\ queue = <<>> /\ level = DefaultLevel /\ jobs = <<>>

-----------------------------------------------------------------------------
(***************************************************************************)
(* What people do. A button is pressed while the chat shows it; what the   *)
(* press finds when it is read is another matter.                          *)
(***************************************************************************)
Sends(update) == /\ Len(log) < MaxUpdates /\ Len(log) <= handled + MaxAhead
                 /\ log' = Append(log, update)
                 /\ UNCHANGED <<pagevars, storevars, confirmed, handled, jobs>>

About(m) == {log[i] : i \in {j \in DOMAIN log : log[j].message = m}}

Write(p, m) == /\ About(m) = {} /\ p # Nobody
               /\ Sends([NoUpdate EXCEPT !.kind = "message", !.by = p, !.message = m])

\* An edit's time is in whole seconds: two edits may carry the same one.
Rewrite(m) ==
  LET last == Max({u.at : u \in About(m)})
  IN  /\ About(m) # {}
      /\ \E at \in {last, last + 1} \ {0} :
           Sends([NoUpdate EXCEPT !.kind = "edit", !.message = m, !.at = at,
                               !.text = Cardinality(About(m))])

Command(l) == /\ Cardinality({i \in DOMAIN log : log[i].kind = "command"}) < MaxLines
              /\ Sends([NoUpdate EXCEPT !.kind = "command", !.by = l.by, !.line = l])

Press(p, m) == \E t \in screen[m].buttons :
  Sends([NoUpdate EXCEPT !.kind = "press", !.by = p, !.token = t, !.on = m])

-----------------------------------------------------------------------------
(***************************************************************************)
(* The handlers                                                            *)
(***************************************************************************)
Update == log[handled + 1]
Handling(kind) == handled < Len(log) /\ Update.kind = kind /\ handled' = handled + 1

Queued(more) == queue' = queue \o more
Caused(kind) == [Entry(kind) EXCEPT !.cause = handled + 1]

\* Any query of a handler that fails ends it: the update is logged and gone.
Fails == /\ handled < Len(log) /\ handled' = handled + 1
         /\ Costs(1)
         /\ UNCHANGED <<drawn, entries, aged, screen, chatvars, storevars, jobs>>

KnownMutant(m) == FALSE                                  \* OneEntryPerChange
Known(m) == rows[m].stored

\* IngestRepo::apply for a creation: a message that is there is refreshed in
\* place and keeps its own edit time.
StoreMessage ==
  /\ Handling("message")
  /\ LET m == Update.message
     IN  IF Known(m)
         THEN /\ rows' = [rows EXCEPT ![m].text = Update.text]
              /\ UNCHANGED queue
         ELSE /\ rows' = [rows EXCEPT ![m].stored = TRUE, ![m].text = Update.text]
              /\ Queued(<<[Entry("created") EXCEPT !.message = m]>>)
  /\ UNCHANGED <<pagevars, chatvars, level, jobs>>

NewerMutant(u) == rows[u.message].edited <= u.at         \* OneEntryPerChange
Newer(u) == rows[u.message].edited < u.at

\* and for an edit: one of a message nobody stored is an error, one that is not
\* newer is dropped whole.
StoreEdit ==
  /\ Handling("edit")
  /\ LET m == Update.message
     IN  IF Known(m) /\ Newer(Update)
         THEN /\ rows' = [rows EXCEPT ![m].text = Update.text, ![m].edited = Update.at]
              /\ Queued(<<[Entry("edited") EXCEPT !.message = m, !.at = Update.at]>>)
         ELSE UNCHANGED <<rows, queue>>
  /\ UNCHANGED <<pagevars, chatvars, level, jobs>>

-----------------------------------------------------------------------------
\* purge::queue: the entry, for the Conversation's agent to carry out.
PurgeEntry(range, everything) ==
  [Caused("purge") EXCEPT !.range = range, !.everything = everything]

\* content_policy: the level is read, written, and only then a reopening is
\* queued; what was changed is recorded last, and may go unrecorded.
SetPolicy(new) ==
  LET reopening == IF new > level THEN <<Caused("policy")>> ELSE <<>>
  IN  /\ level' = new
      /\ \E recorded \in {<<>>, <<Caused("host")>>} : Queued(reopening \o recorded)

\* The write went through and the reopening did not: the command fails.
HalfSetPolicy(new) ==
  /\ level' = new /\ new > level /\ Costs(1)
  /\ UNCHANGED queue

\* digest::start once the request is accepted: its report is for the page m it
\* was started from, or for nobody but the chat.
Job(m, range, delivery) == [on |-> m, range |-> range, delivery |-> delivery, state |-> "running"]
Accepted(m, range, delivery) == jobs' = Append(jobs, Job(m, range, delivery))

-----------------------------------------------------------------------------
(***************************************************************************)
(* Command lines                                                           *)
(***************************************************************************)
Opener == Update.by

\* /purge: complete with a stretch and --yes, or a page for what is missing.
PurgeLine ==
  /\ Handling("command") /\ Update.line.of = "purge"
  /\ LET line == Update.line
     IN  IF line.range # NoRange /\ line.yes
         THEN /\ Queued(<<PurgeEntry(line.range, line.everything)>>)
              /\ UNCHANGED pagevars
         ELSE /\ Open(Purge(IF line.range = NoRange THEN "menu" ELSE "confirm",
                            line.range, line.everything), Opener)
              /\ UNCHANGED <<aged, queue>>
  /\ UNCHANGED <<chatvars, rows, level, jobs>>

\* /digest: complete with a stretch; nobody can be written to privately.
DigestLine ==
  /\ Handling("command") /\ Update.line.of = "digest"
  /\ LET line == Update.line
         to == ForChat(IF line.delivery = NoDelivery THEN "chat" ELSE line.delivery)
     IN  IF line.range = NoRange
         THEN /\ Open(Digest("stretch", NoRange, ForChat(line.delivery)), Anybody)
              /\ UNCHANGED <<aged, jobs>>
         ELSE /\ UNCHANGED pagevars
              /\ \/ ~(to = "person" /\ Update.by = Nobody) /\ Accepted(0, line.range, to)
                 \/ UNCHANGED jobs  \* refused, or the agent is gone
  /\ UNCHANGED <<chatvars, storevars>>

\* /content-policy: a level, or the picker.
PolicyLine ==
  /\ Handling("command") /\ Update.line.of = "policy"
  /\ LET line == Update.line
     IN  \/ line.yes /\ UNCHANGED pagevars /\ SetPolicy(line.level)
         \/ line.yes /\ UNCHANGED <<drawn, entries, aged, screen>> /\ HalfSetPolicy(line.level)
         \/ ~line.yes /\ Open(Picker, Opener) /\ UNCHANGED <<aged, level, queue>>
  /\ UNCHANGED <<chatvars, rows, jobs>>

-----------------------------------------------------------------------------
(***************************************************************************)
(* Presses                                                                 *)
(***************************************************************************)
Spent == Spends(Update.token, Update.by)
LeftMutant == entries                                    \* APurgeIsAskedForOnce
Left == entries \ Spent
Pressed(of) == Handling("press") /\ Spent # {} /\ PageOf(Update.token).of = of
State == PageOf(Update.token)
Does(do) == Update.token.button.do = do
Turns(page) == Redraw(Update.on, page, Buttons(page), drawn[Update.token.draw].audience, Left, 0)

\* A press that is stale or foreign gets a toast, and nothing else happens.
Missed == /\ Handling("press") /\ Spent = {}
          /\ UNCHANGED <<pagevars, chatvars, storevars, jobs>>

\* The page a purge's button turns to; a page never loses what it was told.
NextPurge(page, button) ==
  CASE button.do = "take"     -> [page EXCEPT !.stage = "confirm", !.range = button.range]
    [] button.do = "toggle"   -> [page EXCEPT !.everything = ~@]
    [] button.do = "back"     -> [page EXCEPT !.stage = "menu", !.range = NoRange]
    [] OTHER                  -> [page EXCEPT !.stage = button.do]

PressPurge ==
  /\ Pressed("purge")
  /\ LET ended(stage) == Settle(Update.on, Says(stage, State.range, State.everything), Left)
     IN  \/ Does("cancel") /\ ended("cancelled") /\ UNCHANGED queue
         \/ Does("confirm") /\ Queued(<<PurgeEntry(State.range, State.everything)>>)
                            /\ ended("started")
         \* It could not be queued: an alert, and the page stays as it is.
         \/ Does("confirm") /\ Costs(1) /\ entries' = Left /\ UNCHANGED <<drawn, screen, queue>>
         \/ Update.token.button.do \notin {"cancel", "confirm"}
            /\ Turns(NextPurge(State, Update.token.button)) /\ UNCHANGED queue
  /\ UNCHANGED <<aged, chatvars, rows, level, jobs>>

PressPolicy ==
  /\ Pressed("policy")
  /\ LET new == IF Does("reset") THEN DefaultLevel ELSE Update.token.button.level
     IN  \/ SetPolicy(new) /\ Settle(Update.on, Says("set", NoRange, FALSE), Left)
         \/ HalfSetPolicy(new) /\ entries' = Left /\ UNCHANGED <<drawn, screen>>
         \* The old level could not be read; the button is spent all the same.
         \/ Costs(1) /\ entries' = Left /\ UNCHANGED <<drawn, screen, level, queue>>
  /\ UNCHANGED <<aged, chatvars, rows, jobs>>

\* What the buttons of a digest's page start a pass for, if they do.
Asks == CASE Does("take") /\ State.delivery # NoDelivery ->
               [range |-> Update.token.button.range, delivery |-> State.delivery]
          [] Does("start") -> [range |-> State.range, delivery |-> Update.token.button.delivery]
          [] Does("retry") -> [range |-> State.range, delivery |-> State.delivery]
          [] OTHER -> [range |-> NoRange, delivery |-> NoDelivery]

Turning ==
  \/ Does("close") /\ Settle(Update.on, Says("closed", NoRange, FALSE), Left)
  \* The advice is a page of its own buttons, over the state it came from.
  \/ Does("custom") /\ Redraw(Update.on, State, Bare(<<"back", "close">>), Anybody, Left, 0)
  \/ Does("back") /\ Turns(Digest("stretch", NoRange, State.delivery))
  \/ Does("take") /\ State.delivery = NoDelivery
     /\ Turns(Digest("confirm", Update.token.button.range, NoDelivery))

\* start: the page says it runs, unless the platform refuses, and the request is
\* handed to the agent. An agent that is gone refuses it, which fails the page.
Submit(to) ==
  LET running == [screen EXCEPT ![Update.on] =
                    Shows(Digest("running", Asks.range, to), {})]
  IN  \/ /\ Accepted(Update.on, Asks.range, to)
         /\ \/ screen[Update.on] # Gone /\ screen' = running /\ Costs(0)
            \/ screen' = screen /\ Costs(IF screen[Update.on] = Gone THEN 0 ELSE 1)
         /\ entries' = Left /\ UNCHANGED drawn
      \/ Turns(Digest("failed", Asks.range, to)) /\ UNCHANGED jobs

PressDigest ==
  /\ Pressed("digest") /\ ~Does("deliver")
  /\ LET to == ForChat(Asks.delivery)
     IN  \/ Asks.delivery = NoDelivery /\ Turning /\ UNCHANGED jobs
         \/ Asks.delivery # NoDelivery /\ to = "person" /\ Update.by = Nobody
            /\ Turns(State) /\ UNCHANGED jobs
         \/ Asks.delivery # NoDelivery /\ ~(to = "person" /\ Update.by = Nobody) /\ Submit(to)
  /\ UNCHANGED <<aged, chatvars, storevars>>

-----------------------------------------------------------------------------
(***************************************************************************)
(* Reports                                                                 *)
(***************************************************************************)
HoldsReport(t, i) == t.button.do = "deliver" /\ PageOf(t).report = i
UndeliveredMutant(i, to) ==                              \* ARefusedReportCanBeAskedForAgain
  [Digest("failed", jobs[i].range, to) EXCEPT !.report = i]
\* The page a refused delivery turns into keeps the report.
Undelivered(i, to) == [Digest("undelivered", jobs[i].range, to) EXCEPT !.report = i]

\* A refused report waits in the table; with no room there, it waits nowhere.
Refused(i, live) ==
  jobs' = [jobs EXCEPT ![i].state =
    IF @ = "delivered" THEN @
    ELSE IF Room(live) > 0 \/ \E t \in live : HoldsReport(t, i) THEN "refused" ELSE "lost"]

\* DeliveryJob::send: the document, and then its page is taken away, or a page
\* that keeps the report. Whatever page the message shows by now is the one.
Send(i, m, to, live) ==
  \/ /\ jobs' = [jobs EXCEPT ![i].state = "delivered"]
     /\ \/ screen' = [screen EXCEPT ![m] = Gone] /\ Costs(0)
        \/ screen[m] # Gone /\ screen' = screen /\ Costs(1)
     /\ entries' = live /\ UNCHANGED drawn
  \/ /\ Refused(i, live)
     /\ Redraw(m, Undelivered(i, to), Buttons(Undelivered(i, to)), Anybody, live, 1)

PressDeliver ==
  /\ Pressed("digest") /\ Does("deliver")
  /\ LET to == ForChat(Update.token.button.delivery)
     IN  IF to = "person" /\ Update.by = Nobody
         THEN Turns(State) /\ Refused(State.report, Left)
         ELSE Send(State.report, Update.on, to, Left)
  /\ UNCHANGED <<aged, chatvars, storevars>>

Running(i) == i \in DOMAIN jobs /\ jobs[i].state = "running"
FromPage(i) == jobs[i].on # 0

\* The pass wrote its report: a page's is delivered for it; a line's that is
\* refused leaves a notice.
Report(i) ==
  /\ Running(i)
  /\ \/ FromPage(i) /\ Send(i, jobs[i].on, jobs[i].delivery, entries)
     \/ /\ ~FromPage(i)
        /\ \/ jobs' = [jobs EXCEPT ![i].state = "delivered"] /\ Costs(0)
           \/ jobs' = [jobs EXCEPT ![i].state = "lost"] /\ Costs(1)
        /\ UNCHANGED <<drawn, entries, screen>>
  /\ UNCHANGED <<aged, chatvars, storevars, handled>>

\* The pass failed, or its agent dropped the request.
FailReport(i) ==
  /\ Running(i)
  /\ jobs' = [jobs EXCEPT ![i].state = "failed"]
  /\ IF FromPage(i)
     THEN LET page == Digest("failed", jobs[i].range, jobs[i].delivery)
          IN  Redraw(jobs[i].on, page, Buttons(page), Anybody, entries, 0)
     ELSE UNCHANGED <<drawn, entries, screen, faults>>
  /\ UNCHANGED <<aged, chatvars, storevars, handled>>

-----------------------------------------------------------------------------
Ending(ends(_)) == [i \in DOMAIN jobs |-> IF ends(i) THEN [jobs[i] EXCEPT !.state = "lost"]
                                                   ELSE jobs[i]]

Expire == \E n \in DOMAIN drawn :
  /\ Outlived(n)
  /\ jobs' = Ending(LAMBDA i : jobs[i].state = "refused"
                               /\ ~\E t \in entries : t.draw > n /\ HoldsReport(t, i))
  /\ UNCHANGED <<chatvars, storevars, handled>>

\* The pages, the digests and what was being handled go with the process. The
\* next one is given what no poll had confirmed, handled or not; what a poll had
\* confirmed and nobody handled is not given again.
Crash == /\ Costs(1)
         /\ confirmed' \in confirmed..Len(log) /\ handled' = confirmed'
         /\ entries' = {} /\ aged' = Len(drawn)
         /\ jobs' = Ending(LAMBDA i : jobs[i].state \in {"running", "refused"})
         /\ UNCHANGED <<drawn, screen, log, storevars>>

Act == \/ \E p \in People :
                \/ \E m \in Messages : Write(p, m)
                \/ \E m \in DOMAIN screen : Press(p, m)
           \/ \E m \in Messages : Rewrite(m)
           \/ \E l \in Lines : Command(l)

Handle == \/ Fails \/ StoreMessage \/ StoreEdit
          \/ PurgeLine \/ DigestLine \/ PolicyLine
          \/ Missed \/ PressPurge \/ PressPolicy \/ PressDigest \/ PressDeliver

InboundNext == \/ Act \/ Handle \/ Expire \/ Crash
               \/ \E i \in DOMAIN jobs : Report(i) \/ FailReport(i)

InboundSpec == InboundInit /\ [][InboundNext]_vars

-----------------------------------------------------------------------------
Purges == {i \in DOMAIN queue : queue[i].kind = "purge"}
Cause(i) == log[queue[i].cause]
Toggled == \E i \in DOMAIN log : log[i].token.button.do = "toggle"
PurgeLines == {log[i].line : i \in {j \in DOMAIN log : log[j].line.of = "purge"}}

(* A purge that was queued was asked for by a complete line, or by the one *)
(* press that confirmed a page drawn for the person who opened it, with    *)
(* the stretch that page named and the surfaces the dialog began with,     *)
(* unless somebody changed them. No page queues two, however its buttons   *)
(* are pressed and whatever the platform gives again.                      *)
APurgeIsAskedForOnce ==
  \A i \in Purges :
    /\ \/ Cause(i).kind = "command" /\ Cause(i).line.yes /\ queue[i].range = Cause(i).line.range
       \/ /\ Cause(i).kind = "press" /\ Cause(i).token.button.do = "confirm"
          /\ Admits(Cause(i).token, Cause(i).by)
          /\ queue[i].range = PageOf(Cause(i).token).range
          /\ \A j \in Purges : Cause(j).token = Cause(i).token => j = i
    /\ ~Toggled => \E line \in PurgeLines : line.everything = queue[i].everything

PressedBy(n, t) == log[n].kind = "press" /\ log[n].token = t /\ Admits(t, log[n].by)

(* A button the chat shows works until somebody it admits presses it, it   *)
(* is half an hour old, or the process is a new one: nobody else's press,  *)
(* no other page and no full table takes it away.                          *)
ShownButtonsWork ==
  \A m \in DOMAIN screen : \A t \in screen[m].buttons :
    t.draw > aged /\ ~(\E n \in 1..handled : PressedBy(n, t)) => t \in entries

(* A report whose delivery the platform refused can be asked for again, by *)
(* a button that is still good, for as long as the page it was put on is   *)
(* young enough, the process lives and the table had room for it.          *)
ARefusedReportCanBeAskedForAgain ==
  \A i \in DOMAIN jobs : jobs[i].state = "refused" => \E t \in entries : HoldsReport(t, i)

Told(kind, m) == {i \in DOMAIN queue : queue[i].kind = kind /\ queue[i].message = m}

(* The rows and the accumulation agree: a message has one entry for its    *)
(* creation when there is a row of it, and none otherwise; each edit the   *)
(* row went through has one entry, in the order of their times, and the    *)
(* last is the row's. What the platform gives again adds none.             *)
OneEntryPerChange ==
  \A m \in Messages :
    /\ Cardinality(Told("created", m)) = IF rows[m].stored THEN 1 ELSE 0
    /\ \A i, j \in Told("edited", m) : i < j => queue[i].at < queue[j].at
    /\ rows[m].edited = Max({0} \cup {queue[i].at : i \in Told("edited", m)})

(* "A redelivery is not a change" (docs/topics/domain.md): a row that was  *)
(* edited shows the wording of an edit of that time.                       *)
ARedeliveryIsNotAChange ==
  \A m \in Messages : rows[m].edited # 0 =>
    \E i \in DOMAIN log : /\ log[i].kind = "edit" /\ log[i].message = m
                          /\ log[i].at = rows[m].edited /\ log[i].text = rows[m].text

(* "A delivery the platform refuses keeps the report on the page"          *)
(* (docs/topics/chat-agent.md): while a button for it is good, the chat    *)
(* shows one.                                                              *)
AKeptReportIsOnThePage ==
  \A i \in DOMAIN jobs : jobs[i].state = "refused" =>
    \E m \in DOMAIN screen : \E t \in screen[m].buttons : HoldsReport(t, i)
=============================================================================
