-------------------------------- MODULE Pages --------------------------------
(***************************************************************************)
(* The dialog engine (agent/command/dialog.rs) and the pages the commands  *)
(* draw through it: what a page is, which buttons it carries, what the     *)
(* table of pending buttons does, and what the chat is left showing when a *)
(* page is rewritten.                                                      *)
(*                                                                         *)
(* A page is drawn once and its buttons are pressed later, one at a time.  *)
(* A token is a draw and a button of it: the state its entry carries is    *)
(* the page that was drawn. Words, labels and layout are left out.         *)
(***************************************************************************)
EXTENDS Integers, Sequences, FiniteSets, SequencesExt

CONSTANTS
  People,   \* who may press; a platform may report nobody, who is one of them
  Nobody,
  Ranges,   \* the stretches a page offers
  Levels,   \* content policies, stricter upwards
  Private,  \* whether the chat is a private one
  Capacity, \* MAX_PENDING_CHOICES
  MaxFaults \* bound: refusals, failures and crashes

ASSUME PagesAssumption ==
  /\ Nobody \in People /\ Private \in BOOLEAN
  /\ IsFiniteSet(Ranges) /\ Levels \subseteq Nat /\ IsFiniteSet(Levels)
  /\ Capacity \in Nat /\ MaxFaults \in Nat

NoRange == "none"
Deliveries == {"chat", "person"}
NoDelivery == "none"

VARIABLES
  drawn,   \* every page drawn, in order, with who may press it
  entries, \* Pages::entries, the tokens that are still good
  aged,    \* the last draw whose buttons ran out, or ended with the process
  screen,  \* the messages the host put out, as the chat shows them
  faults

pagevars == <<drawn, entries, aged, screen, faults>>

\* One page of any dialog. What a page does not carry is left at its default.
Blank == [of |-> "text", stage |-> "none", range |-> NoRange, everything |-> FALSE,
          delivery |-> NoDelivery, report |-> 0]
Purge(stage, range, everything) ==
  [Blank EXCEPT !.of = "purge", !.stage = stage, !.range = range, !.everything = everything]
Digest(stage, range, delivery) ==
  [Blank EXCEPT !.of = "digest", !.stage = stage, !.range = range, !.delivery = delivery]
Picker == [Blank EXCEPT !.of = "policy", !.stage = "picker"]
\* A page that only says something: its text, and no button.
Says(stage, range, everything) == [Blank EXCEPT !.stage = stage, !.range = range,
                                                !.everything = everything]

Button(do) == [do |-> do, range |-> NoRange, delivery |-> NoDelivery, level |-> 0]
Take(r) == [Button("take") EXCEPT !.range = r]
Start(d) == [Button("start") EXCEPT !.delivery = d]
Deliver(d) == [Button("deliver") EXCEPT !.delivery = d]
Choose(l) == [Button("set") EXCEPT !.level = l]

Bare(names) == [i \in DOMAIN names |-> Button(names[i])]
Takes == SetToSeq({Take(r) : r \in Ranges})

\* purge/dialog.rs options. One surface stands for the four there are.
PurgeButtons(page) ==
  CASE page.stage = "menu"     -> Bare(<<"stretch", "surfaces", "cancel">>)
    [] page.stage = "stretch"  -> Takes \o Bare(<<"back", "cancel">>)
    [] page.stage = "surfaces" -> Bare(<<"toggle", "back", "cancel">>)
    [] page.stage = "confirm"  -> Bare(<<"confirm", "cancel">>)

\* digest/dialog.rs options.
DigestButtons(page) ==
  CASE page.stage = "stretch" -> Takes \o Bare(<<"custom", "close">>)
    [] page.stage = "confirm" ->
         (IF page.delivery # NoDelivery THEN <<Start(page.delivery)>>
          ELSE IF Private THEN <<Start("chat")>> ELSE <<Start("person"), Start("chat")>>)
         \o Bare(<<"back", "close">>)
    [] page.stage = "undelivered" ->
         (IF page.delivery = "person" THEN <<Deliver("person"), Deliver("chat")>>
                                      ELSE <<Deliver("chat")>>) \o Bare(<<"close">>)
    [] page.stage = "failed" -> Bare(<<"retry", "close">>)
    [] OTHER -> <<>>

\* content_policy/dialog.rs options.
PolicyButtons == SetToSeq({Choose(l) : l \in Levels}) \o Bare(<<"reset">>)

Buttons(page) == CASE page.of = "purge"  -> PurgeButtons(page)
                   [] page.of = "digest" -> DigestButtons(page)
                   [] page.of = "policy" -> PolicyButtons
                   [] OTHER              -> <<>>

\* Delivery::for_chat: a private chat is already the person.
ForChat(delivery) == IF Private /\ delivery = "person" THEN "chat" ELSE delivery

-----------------------------------------------------------------------------
(***************************************************************************)
(* The table of pending buttons                                            *)
(***************************************************************************)
Token(n, button) == [draw |-> n, button |-> button]
PageOf(token) == drawn[token.draw].page
Anybody == "anybody"

\* Registration stops at the cap: a page drawn at capacity has fewer buttons.
Room(live) == Capacity - Cardinality(live)
Tokens(buttons, live) ==
  {Token(Len(drawn) + 1, buttons[i]) : i \in {j \in DOMAIN buttons : j <= Room(live)}}

Admits(token, person) == drawn[token.draw].audience \in {Anybody, person}

SpendsMutant(token, person) == IF token \in entries THEN {token} ELSE {}  \* ShownButtonsWork
\* Pages::take: what a press spends. A stale or a foreign one spends nothing.
Spends(token, person) == IF token \in entries /\ Admits(token, person) THEN {token} ELSE {}

PagesInit == drawn = <<>> /\ entries = {} /\ aged = 0 /\ screen = <<>> /\ faults = 0

\* Half an hour passes: every page up to the n-th draw is too old.
Outlived(n) == /\ n \in (aged + 1)..Len(drawn)
               /\ aged' = n
               /\ entries' = {t \in entries : t.draw > n}
               /\ UNCHANGED <<drawn, screen, faults>>

-----------------------------------------------------------------------------
(***************************************************************************)
(* The chat the pages are in. A message may be gone.                       *)
(***************************************************************************)
Gone == [page |-> Blank, buttons |-> {}]
Shows(page, tokens) == [page |-> page, buttons |-> tokens]

Costs(n) == faults + n <= MaxFaults /\ faults' = faults + n

\* The platform rewrites the message the page stands in, or refuses and is asked
\* for a fresh one, or refuses that too: a page is best effort.
RewriteOrAsk(m, what, spent) ==
  \/ screen[m] # Gone /\ screen' = [screen EXCEPT ![m] = what] /\ Costs(spent)
  \/ screen' = Append(screen, what) /\ Costs(spent + IF screen[m] = Gone THEN 0 ELSE 1)
  \/ screen' = screen /\ Costs(spent + IF screen[m] = Gone THEN 1 ELSE 2)

\* draw and settle: the next page, its buttons fresh, where the pressed one stood.
Redraw(m, page, buttons, audience, live, spent) ==
  LET tokens == Tokens(buttons, live)
  IN  /\ drawn' = Append(drawn, [page |-> page, audience |-> audience])
      /\ entries' = live \cup tokens
      /\ RewriteOrAsk(m, Shows(page, tokens), spent)

\* A page with no buttons is not drawn through the table.
Settle(m, page, live) == /\ RewriteOrAsk(m, Shows(page, {}), 0)
                         /\ entries' = live /\ UNCHANGED drawn

\* A command puts its first page out; refused, its buttons wait for nobody.
Open(page, audience) ==
  LET tokens == Tokens(Buttons(page), entries)
  IN  /\ drawn' = Append(drawn, [page |-> page, audience |-> audience])
      /\ entries' = entries \cup tokens
      /\ \/ screen' = Append(screen, Shows(page, tokens)) /\ Costs(0)
         \/ screen' = screen /\ Costs(1)
=============================================================================
