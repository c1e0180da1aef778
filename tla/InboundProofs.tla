---------------------------- MODULE InboundProofs ----------------------------
(***************************************************************************)
(* Proofs about the inbound path of one chat (Pages, Inbound), for every   *)
(* set of people, messages and lines, every order of their updates, and    *)
(* every refusal and crash.                                                *)
(***************************************************************************)
EXTENDS Inbound, FiniteSetTheorems, TLAPS

-----------------------------------------------------------------------------
(***************************************************************************)
(* Lists                                                                   *)
(***************************************************************************)
IsSeq(s) == \E S : s \in Seq(S)

LEMMA SeqShape ==
  ASSUME NEW s, IsSeq(s)
  PROVE  Len(s) \in Nat /\ DOMAIN s = 1..Len(s)
BY DEF IsSeq

LEMMA Pushed ==
  ASSUME NEW s, IsSeq(s), NEW e
  PROVE  /\ IsSeq(Append(s, e)) /\ Len(Append(s, e)) = Len(s) + 1
         /\ DOMAIN Append(s, e) = 1..(Len(s) + 1)
         /\ \A i \in 1..Len(s) : Append(s, e)[i] = s[i]
         /\ Append(s, e)[Len(s) + 1] = e
<1>1. PICK S : s \in Seq(S)
  BY DEF IsSeq
<1>2. s \in Seq(S \cup {e}) /\ e \in S \cup {e}
  BY <1>1
<1> DEFINE T == S \cup {e}
<1> HIDE DEF T
<1>3. Append(s, e) \in Seq(T)
  BY <1>2 DEF T
<1> QED BY <1>2, <1>3 DEF IsSeq, T

LEMMA Joined ==
  ASSUME NEW s, IsSeq(s), NEW t, IsSeq(t)
  PROVE  /\ IsSeq(s \o t) /\ Len(s \o t) = Len(s) + Len(t)
         /\ \A i \in 1..Len(s) : (s \o t)[i] = s[i]
         /\ \A i \in (Len(s) + 1)..(Len(s) + Len(t)) : (s \o t)[i] = t[i - Len(s)]
<1>1. PICK S : s \in Seq(S)
  BY DEF IsSeq
<1>2. PICK T : t \in Seq(T)
  BY DEF IsSeq
<1> DEFINE U == S \cup T
<1>3. s \in Seq(U) /\ t \in Seq(U)
  BY <1>1, <1>2
<1> HIDE DEF U
<1>4. s \o t \in Seq(U)
  BY <1>3
<1> QED BY <1>3, <1>4 DEF IsSeq

LEMMA Rewritten ==
  ASSUME NEW s, IsSeq(s), NEW m, NEW e
  PROVE  /\ IsSeq([s EXCEPT ![m] = e]) /\ Len([s EXCEPT ![m] = e]) = Len(s)
         /\ \A k \in DOMAIN [s EXCEPT ![m] = e] :
              k \in DOMAIN s /\ [s EXCEPT ![m] = e][k] = IF k = m THEN e ELSE s[k]
<1>1. PICK S : s \in Seq(S)
  BY DEF IsSeq
<1> DEFINE T == S \cup {e}
           r == [s EXCEPT ![m] = e]
<1>2. s \in Seq(T) /\ e \in T
  BY <1>1
<1> HIDE DEF T
<1>3. Len(s) \in Nat /\ s \in [1..Len(s) -> T]
  BY <1>2
<1>4. r \in [1..Len(s) -> T]
  BY <1>2, <1>3
<1>5. r \in Seq(T) /\ Len(r) = Len(s)
  BY <1>3, <1>4
<1>6. \A k \in DOMAIN r : k \in DOMAIN s /\ r[k] = IF k = m THEN e ELSE s[k]
  OBVIOUS
<1> HIDE DEF r
<1>7. IsSeq(r) /\ Len(r) = Len(s)
  BY <1>5 DEF IsSeq
<1> QED BY <1>6, <1>7 DEF r

LEMMA Empty == IsSeq(<<>>) /\ Len(<<>>) = 0
<1>1. <<>> \in Seq({})
  OBVIOUS
<1> QED BY <1>1 DEF IsSeq

LEMMA One == \A e : IsSeq(<<e>>) /\ Len(<<e>>) = 1 /\ <<e>>[1] = e
<1> TAKE e
<1>1. <<e>> \in Seq({e})
  OBVIOUS
<1> QED BY <1>1 DEF IsSeq

\* A list only ever gets longer.
Grows(s, t) == /\ IsSeq(s) /\ IsSeq(t) /\ Len(t) >= Len(s)
               /\ \A i \in 1..Len(s) : t[i] = s[i]

LEMMA GrowsByNothing == ASSUME NEW s, IsSeq(s) PROVE Grows(s, s)
<1>1. Len(s) \in Nat
  BY SeqShape
<1> QED BY <1>1 DEF Grows

LEMMA GrowsByOne == ASSUME NEW s, IsSeq(s), NEW e PROVE Grows(s, Append(s, e))
<1>1. Len(s) \in Nat
  BY SeqShape
<1> QED BY <1>1, Pushed DEF Grows

LEMMA GrowsByMore == ASSUME NEW s, IsSeq(s), NEW t, IsSeq(t) PROVE Grows(s, s \o t)
<1>1. Len(s) \in Nat /\ Len(t) \in Nat
  BY SeqShape
<1> DEFINE joined == s \o t
<1>2. IsSeq(joined) /\ Len(joined) = Len(s) + Len(t)
      /\ \A i \in 1..Len(s) : joined[i] = s[i]
  BY Joined
<1> HIDE DEF joined
<1>3. Grows(s, joined)
  BY <1>1, <1>2 DEF Grows
<1> QED BY <1>3 DEF joined

LEMMA GrownPlaces ==
  ASSUME NEW s, NEW t, Grows(s, t)
  PROVE  /\ \A i \in DOMAIN s : i \in DOMAIN t /\ t[i] = s[i]
         /\ \A i \in DOMAIN t : i \in DOMAIN s \/ i \in (Len(s) + 1)..Len(t)
<1>1. /\ DOMAIN s = 1..Len(s) /\ DOMAIN t = 1..Len(t) /\ Len(s) \in Nat /\ Len(t) \in Nat
      /\ Len(t) >= Len(s) /\ \A i \in 1..Len(s) : t[i] = s[i]
  BY SeqShape DEF Grows
<1> QED BY <1>1

-----------------------------------------------------------------------------
(***************************************************************************)
(* The pages and their buttons                                             *)
(***************************************************************************)
LEMMA ListOfSet ==
  ASSUME NEW S, IsFiniteSet(S)
  PROVE  IsSeq(SetToSeq(S)) /\ \A i \in DOMAIN SetToSeq(S) : SetToSeq(S)[i] \in S
<1>1. PICK n \in Nat : ExistsBijection(1..n, S)
  BY FS_NatBijection
<1>2. Cardinality(S) = n
  BY <1>1, FS_CountingElements
<1>3. \E f \in [1..Cardinality(S) -> S] : IsInjective(f)
  BY <1>1, <1>2 DEF ExistsBijection, Bijection, Injection
<1> DEFINE f == SetToSeq(S)
<1>4. f \in [1..Cardinality(S) -> S]
  BY <1>3 DEF SetToSeq
<1> HIDE DEF f
<1>5. f \in Seq(S) /\ \A i \in DOMAIN f : f[i] \in S
  BY <1>2, <1>4
<1>6. IsSeq(f) /\ \A i \in DOMAIN f : f[i] \in S
  BY <1>5 DEF IsSeq
<1> QED BY <1>6 DEF f

LEMMA TakesDo == IsSeq(Takes) /\ \A i \in DOMAIN Takes : Takes[i].do = "take"
<1> DEFINE T == {Take(r) : r \in Ranges}
           g == [r \in Ranges |-> Take(r)]
<1>1. g \in Surjection(Ranges, T)
  BY DEF Surjection
<1>2. IsFiniteSet(T)
  BY <1>1, PagesAssumption, FS_Surjection
<1>3. \A b \in T : b.do = "take"
  BY DEF Take, Button
<1> HIDE DEF T, g
<1>4. Takes = SetToSeq(T)
  BY DEF Takes, T
<1>5. IsSeq(SetToSeq(T)) /\ \A i \in DOMAIN SetToSeq(T) : SetToSeq(T)[i] \in T
  BY <1>2, ListOfSet
<1> QED BY <1>3, <1>4, <1>5

LEMMA ChoicesDo ==
  LET choices == SetToSeq({Choose(l) : l \in Levels})
  IN  IsSeq(choices) /\ \A i \in DOMAIN choices : choices[i].do = "set"
<1> DEFINE T == {Choose(l) : l \in Levels}
           g == [l \in Levels |-> Choose(l)]
<1>1. g \in Surjection(Levels, T)
  BY DEF Surjection
<1>2. IsFiniteSet(T)
  BY <1>1, PagesAssumption, FS_Surjection
<1>3. \A b \in T : b.do = "set"
  BY DEF Choose, Button
<1> HIDE DEF T, g
<1>5. IsSeq(SetToSeq(T)) /\ \A i \in DOMAIN SetToSeq(T) : SetToSeq(T)[i] \in T
  BY <1>2, ListOfSet
<1>6. IsSeq(SetToSeq(T)) /\ \A i \in DOMAIN SetToSeq(T) : SetToSeq(T)[i].do = "set"
  BY <1>3, <1>5
<1> QED BY <1>6 DEF T

\* Every button of a list does one of these things.
Do(buttons, dos) == IsSeq(buttons) /\ \A i \in DOMAIN buttons : buttons[i].do \in dos

LEMMA DoJoined ==
  ASSUME NEW a, NEW b, NEW dos, Do(a, dos), Do(b, dos)
  PROVE  Do(a \o b, dos) /\ (Len(a) > 0 => Len(a \o b) > 0 /\ (a \o b)[1] = a[1])
<1> DEFINE joined == a \o b
<1>1. /\ IsSeq(joined) /\ Len(joined) = Len(a) + Len(b) /\ Len(a) \in Nat /\ Len(b) \in Nat
      /\ \A i \in 1..Len(a) : joined[i] = a[i]
      /\ \A i \in (Len(a) + 1)..(Len(a) + Len(b)) : joined[i] = b[i - Len(a)]
      /\ DOMAIN a = 1..Len(a) /\ DOMAIN b = 1..Len(b)
  BY Joined, SeqShape DEF Do
<1> HIDE DEF joined
<1>2. DOMAIN joined = 1..Len(joined)
  BY <1>1, SeqShape
<1>3. ASSUME NEW i \in DOMAIN joined PROVE joined[i].do \in dos
  <2>1. i \in 1..Len(a) \/ (i \in (Len(a) + 1)..(Len(a) + Len(b)) /\ i - Len(a) \in 1..Len(b))
    BY <1>1, <1>2
  <2> QED BY <1>1, <2>1 DEF Do
<1>4. Do(joined, dos) /\ (Len(a) > 0 => Len(joined) > 0 /\ joined[1] = a[1])
  BY <1>1, <1>3 DEF Do
<1> QED BY <1>4 DEF joined

LEMMA DoBare ==
  ASSUME NEW names, IsSeq(names), NEW dos, \A i \in DOMAIN names : names[i] \in dos
  PROVE  Do(Bare(names), dos)
<1> DEFINE b == Bare(names)
<1>1. DOMAIN names = 1..Len(names) /\ Len(names) \in Nat
  BY SeqShape
<1>2. DOMAIN b = 1..Len(names) /\ \A i \in DOMAIN b : b[i] = Button(names[i])
  BY <1>1 DEF Bare
<1>3. b \in [1..Len(names) -> {Button(d) : d \in dos}]
  BY <1>1, <1>2 DEF Bare
<1>4. \A d : Button(d).do = d
  BY DEF Button
<1> HIDE DEF b
<1>5. b \in Seq({Button(d) : d \in dos})
  BY <1>1, <1>3
<1>6. Do(b, dos)
  BY <1>1, <1>2, <1>4, <1>5 DEF Do, IsSeq
<1> QED BY <1>6 DEF b

PurgeStages == {"menu", "stretch", "surfaces", "confirm"}
PurgeDos    == {"stretch", "surfaces", "cancel", "back", "take", "toggle", "confirm"}

LEMMA PurgeDo ==
  ASSUME NEW page, page.of = "purge", page.stage \in PurgeStages
  PROVE  Do(Buttons(page), PurgeDos)
<1> DEFINE menu == <<"stretch", "surfaces", "cancel">>
           stretch == <<"back", "cancel">>
           surfaces == <<"toggle", "back", "cancel">>
           confirm == <<"confirm", "cancel">>
<1>1. Do(Bare(menu), PurgeDos)
  <2>1. IsSeq(menu) /\ \A i \in DOMAIN menu : menu[i] \in PurgeDos
    <3>1. menu \in Seq(PurgeDos)
      BY DEF PurgeDos
    <3> QED BY <3>1 DEF IsSeq
  <2> QED BY <2>1, DoBare
<1>2. Do(Bare(stretch), PurgeDos)
  <2>1. IsSeq(stretch) /\ \A i \in DOMAIN stretch : stretch[i] \in PurgeDos
    <3>1. stretch \in Seq(PurgeDos)
      BY DEF PurgeDos
    <3> QED BY <3>1 DEF IsSeq
  <2> QED BY <2>1, DoBare
<1>3. Do(Bare(surfaces), PurgeDos)
  <2>1. IsSeq(surfaces) /\ \A i \in DOMAIN surfaces : surfaces[i] \in PurgeDos
    <3>1. surfaces \in Seq(PurgeDos)
      BY DEF PurgeDos
    <3> QED BY <3>1 DEF IsSeq
  <2> QED BY <2>1, DoBare
<1>4. Do(Bare(confirm), PurgeDos)
  <2>1. IsSeq(confirm) /\ \A i \in DOMAIN confirm : confirm[i] \in PurgeDos
    <3>1. confirm \in Seq(PurgeDos)
      BY DEF PurgeDos
    <3> QED BY <3>1 DEF IsSeq
  <2> QED BY <2>1, DoBare
<1>5. Do(Takes, PurgeDos)
  BY TakesDo DEF Do, PurgeDos
<1>6. Do(Takes \o Bare(stretch), PurgeDos)
  <2> HIDE DEF stretch
  <2> QED BY <1>2, <1>5, DoJoined
<1> QED BY <1>1, <1>3, <1>4, <1>6 DEF Buttons, PurgeButtons, PurgeStages

OtherDos == {"take", "custom", "close", "start", "back", "retry", "set", "reset"}

LEMMA PolicyDo ==
  ASSUME NEW page, page.of = "policy"
  PROVE  Do(Buttons(page), OtherDos)
<1> DEFINE choices == SetToSeq({Choose(l) : l \in Levels})
           reset == <<"reset">>
<1>1. Do(choices, OtherDos)
  BY ChoicesDo DEF Do, OtherDos
<1>2. Do(Bare(reset), OtherDos)
  <2>1. IsSeq(reset) /\ \A i \in DOMAIN reset : reset[i] \in OtherDos
    <3>1. reset \in Seq(OtherDos)
      BY DEF OtherDos
    <3> QED BY <3>1 DEF IsSeq
  <2> QED BY <2>1, DoBare
<1> HIDE DEF choices, reset
<1>3. Do(choices \o Bare(reset), OtherDos)
  BY <1>1, <1>2, DoJoined
<1> QED BY <1>3 DEF Buttons, PolicyButtons, choices, reset

\* Only a page that keeps a report has buttons that deliver, and its first does.
LEMMA DigestDo ==
  ASSUME NEW page, page.of = "digest"
  PROVE  /\ page.stage # "undelivered" => Do(Buttons(page), OtherDos)
         /\ page.stage = "undelivered" =>
              /\ Do(Buttons(page), OtherDos \cup {"deliver"})
              /\ Len(Buttons(page)) > 0 /\ Buttons(page)[1].do = "deliver"
<1>1. Buttons(page) = DigestButtons(page)
  BY DEF Buttons
<1>2. \A d : Start(d).do = "start" /\ Deliver(d).do = "deliver"
  BY DEF Start, Deliver, Button
<1>3. \A a, b : \A dos : a \in dos /\ b \in dos => IsSeq(<<a, b>>)
                   /\ \A i \in DOMAIN (<<a, b>>) : <<a, b>>[i] \in dos
  <2> TAKE a, b
  <2> TAKE dos
  <2> HAVE a \in dos /\ b \in dos
  <2>1. <<a, b>> \in Seq(dos)
    OBVIOUS
  <2> QED BY <2>1 DEF IsSeq
<1>4. CASE page.stage = "stretch"
  <2> DEFINE more == <<"custom", "close">>
  <2>1. Do(Takes, OtherDos)
    BY TakesDo DEF Do, OtherDos
  <2>2. IsSeq(more) /\ \A i \in DOMAIN more : more[i] \in OtherDos
    BY <1>3 DEF OtherDos
  <2> HIDE DEF more
  <2>3. Do(Takes \o Bare(more), OtherDos)
    BY <2>1, <2>2, DoBare, DoJoined
  <2> QED BY <1>1, <1>4, <2>3 DEF DigestButtons, more
<1>5. CASE page.stage = "confirm"
  <2> DEFINE more == <<"back", "close">>
             starts == IF page.delivery # NoDelivery THEN <<Start(page.delivery)>>
                       ELSE IF Private THEN <<Start("chat")>>
                       ELSE <<Start("person"), Start("chat")>>
  <2>1. Do(starts, OtherDos)
    <3>1. \A d : Do(<<Start(d)>>, OtherDos)
      <4> TAKE d
      <4>1. Start(d).do \in OtherDos
        BY <1>2 DEF OtherDos
      <4>2. IsSeq(<<Start(d)>>) /\ DOMAIN <<Start(d)>> = {1} /\ <<Start(d)>>[1] = Start(d)
        BY One, SeqShape
      <4> QED BY <4>1, <4>2 DEF Do
    <3>2. Do(<<Start("person"), Start("chat")>>, OtherDos)
      <4> DEFINE a == Start("person")
                 b == Start("chat")
      <4>1. a.do \in OtherDos /\ b.do \in OtherDos
        BY <1>2 DEF OtherDos
      <4> HIDE DEF a, b
      <4>2. /\ <<a, b>> \in Seq({a, b})
            /\ \A i \in DOMAIN (<<a, b>>) : <<a, b>>[i] = a \/ <<a, b>>[i] = b
        OBVIOUS
      <4>3. Do(<<a, b>>, OtherDos)
        BY <4>1, <4>2 DEF Do, IsSeq
      <4> QED BY <4>3 DEF a, b
    <3> QED BY <3>1, <3>2
  <2>2. IsSeq(more) /\ \A i \in DOMAIN more : more[i] \in OtherDos
    BY <1>3 DEF OtherDos
  <2> HIDE DEF more, starts
  <2>3. Do(starts \o Bare(more), OtherDos)
    BY <2>1, <2>2, DoBare, DoJoined
  <2> QED BY <1>1, <1>5, <2>3 DEF DigestButtons, more, starts
<1>6. CASE page.stage = "undelivered"
  <2> DEFINE dos == OtherDos \cup {"deliver"}
             more == <<"close">>
             delivers == IF page.delivery = "person" THEN <<Deliver("person"), Deliver("chat")>>
                                                     ELSE <<Deliver("chat")>>
  <2>1. Do(delivers, dos) /\ Len(delivers) > 0 /\ delivers[1].do = "deliver"
    <3> DEFINE a == Deliver("person")
               b == Deliver("chat")
    <3>1. a.do = "deliver" /\ b.do = "deliver"
      BY <1>2
    <3> HIDE DEF a, b
    <3>2. /\ <<a, b>> \in Seq({a, b}) /\ <<b>> \in Seq({a, b})
          /\ Len(<<a, b>>) = 2 /\ Len(<<b>>) = 1 /\ <<a, b>>[1] = a /\ <<b>>[1] = b
          /\ \A i \in DOMAIN (<<a, b>>) : <<a, b>>[i] = a \/ <<a, b>>[i] = b
          /\ \A i \in DOMAIN (<<b>>) : <<b>>[i] = b
      OBVIOUS
    <3>3. Do(<<a, b>>, dos) /\ Do(<<b>>, dos)
      BY <3>1, <3>2 DEF Do, IsSeq
    <3> QED BY <3>1, <3>2, <3>3 DEF a, b
  <2>2. IsSeq(more) /\ \A i \in DOMAIN more : more[i] \in dos
    <3>1. more \in Seq(dos)
      BY DEF OtherDos
    <3> QED BY <3>1 DEF IsSeq
  <2>3. Do(Bare(more), dos)
    BY <2>2, DoBare
  <2> HIDE DEF more, delivers, dos
  <2>4. /\ Do(delivers \o Bare(more), dos)
        /\ Len(delivers \o Bare(more)) > 0 /\ (delivers \o Bare(more))[1].do = "deliver"
    BY <2>1, <2>3, DoJoined
  <2> QED BY <1>1, <1>6, <2>4 DEF DigestButtons, more, delivers, dos
<1>7. CASE page.stage = "failed"
  <2> DEFINE names == <<"retry", "close">>
  <2>1. IsSeq(names) /\ \A i \in DOMAIN names : names[i] \in OtherDos
    BY <1>3 DEF OtherDos
  <2> HIDE DEF names
  <2>2. Do(Bare(names), OtherDos)
    BY <2>1, DoBare
  <2> QED BY <1>1, <1>7, <2>2 DEF DigestButtons, names
<1>8. CASE page.stage \notin {"stretch", "confirm", "undelivered", "failed"}
  <2>1. Buttons(page) = <<>>
    BY <1>1, <1>8 DEF DigestButtons
  <2>2. Do(<<>>, OtherDos)
    BY Empty DEF Do
  <2> QED BY <1>8, <2>1, <2>2
<1> QED BY <1>4, <1>5, <1>6, <1>7, <1>8

-----------------------------------------------------------------------------
(***************************************************************************)
(* How the pages move.  A step leaves them alone, rewrites a message to    *)
(* one without buttons, draws one page more, lets some grow too old, or    *)
(* loses them with the process.                                            *)
(***************************************************************************)
BaseInv ==
  /\ IsSeq(log) /\ IsSeq(drawn) /\ IsSeq(screen) /\ IsSeq(queue) /\ IsSeq(jobs)
  /\ handled \in 0..Len(log) /\ confirmed \in 0..Len(log) /\ aged \in 0..Len(drawn)
  /\ IsFiniteSet(entries)

AskedFor(everything) ==
  Toggled \/ \E line \in PurgeLines : line.everything = everything

\* What an entry says of the page it is on.
Fits(t) ==
  /\ t.draw \in 1..Len(drawn)
  /\ t.button.do = "deliver" => PageOf(t).of = "digest" /\ PageOf(t).stage = "undelivered"
  /\ PageOf(t).of = "purge" => PageOf(t).stage \in PurgeStages /\ t.button.do \in PurgeDos

Asked(n) == drawn[n].page.of = "purge" => AskedFor(drawn[n].page.everything)

PageInv ==
  /\ BaseInv
  /\ \A t \in entries : Fits(t)
  /\ \A k \in DOMAIN screen : \A t \in screen[k].buttons : t.draw \in 1..Len(drawn)
  /\ \A n \in DOMAIN drawn : Asked(n)
  /\ \A n \in DOMAIN log :
       log[n].token.draw \in (IF log[n].kind = "press" THEN 1..Len(drawn) ELSE {0})

\* The entries a press leaves; only a delivery spends a button that delivers.
Spending ==
  /\ Handling("press") /\ Update.token \in entries /\ Admits(Update.token, Update.by)
  /\ PressDeliver \/ Update.token.button.do # "deliver"
LiveAfter(live) == live = entries \/ (Spending /\ live = entries \ {Update.token})

StayPage(live) ==
  /\ drawn' = drawn /\ entries' = live /\ IsSeq(screen')
  /\ \A k \in DOMAIN screen' : \/ screen'[k].buttons = {}
                               \/ k \in DOMAIN screen /\ screen'[k] = screen[k]

GoodPage(page, buttons) ==
  /\ IsSeq(buttons)
  /\ \A i \in DOMAIN buttons :
       buttons[i].do = "deliver" => page.of = "digest" /\ page.stage = "undelivered"
  /\ page.of = "purge" => /\ page.stage \in PurgeStages /\ AskedFor(page.everything)
                          /\ \A i \in DOMAIN buttons : buttons[i].do \in PurgeDos

NewPage(page, buttons, audience, live) ==
  /\ drawn' = Append(drawn, [page |-> page, audience |-> audience])
  /\ entries' = live \cup Tokens(buttons, live) /\ IsSeq(screen')
  /\ \A k \in DOMAIN screen' : \/ screen'[k].buttons = Tokens(buttons, live)
                               \/ screen'[k].buttons = {}
                               \/ k \in DOMAIN screen /\ screen'[k] = screen[k]

Drawing(live) ==
  \E page, buttons, audience :
    NewPage(page, buttons, audience, live) /\ GoodPage(page, buttons)

Moving ==
  \E live : LiveAfter(live) /\ aged' = aged /\ (StayPage(live) \/ Drawing(live))

LEMMA PageFields ==
  /\ \A stage, range, everything :
       LET page == Purge(stage, range, everything)
       IN  page.of = "purge" /\ page.stage = stage /\ page.everything = everything
  /\ \A stage, range, delivery :
       LET page == Digest(stage, range, delivery)
       IN  page.of = "digest" /\ page.stage = stage /\ page.range = range /\ page.report = 0
  /\ Picker.of = "policy"
  /\ \A page, tokens : Shows(page, tokens).buttons = tokens
  /\ Gone.buttons = {}
BY DEF Purge, Digest, Picker, Shows, Gone, Blank

LEMMA ScreenRewritten ==
  ASSUME BaseInv, NEW m, NEW what, NEW spent, RewriteOrAsk(m, what, spent)
  PROVE  /\ IsSeq(screen')
         /\ \A k \in DOMAIN screen' : \/ screen'[k] = what
                                      \/ k \in DOMAIN screen /\ screen'[k] = screen[k]
<1>1. IsSeq(screen)
  BY DEF BaseInv
<1>2. CASE screen' = [screen EXCEPT ![m] = what]
  BY <1>1, <1>2, Rewritten
<1>3. CASE screen' = Append(screen, what)
  <2>1. DOMAIN screen = 1..Len(screen) /\ Len(screen) \in Nat
    BY <1>1, SeqShape
  <2> QED BY <1>1, <1>3, <2>1, Pushed
<1>4. CASE screen' = screen
  BY <1>1, <1>4
<1> QED BY <1>2, <1>3, <1>4 DEF RewriteOrAsk

LEMMA SettleStays ==
  ASSUME BaseInv, NEW m, NEW page, NEW live, Settle(m, page, live)
  PROVE  StayPage(live)
<1>1. /\ IsSeq(screen')
      /\ \A k \in DOMAIN screen' : \/ screen'[k] = Shows(page, {})
                                   \/ k \in DOMAIN screen /\ screen'[k] = screen[k]
  BY ScreenRewritten DEF Settle
<1>2. Shows(page, {}).buttons = {}
  BY PageFields
<1> QED BY <1>1, <1>2 DEF Settle, StayPage

LEMMA RedrawDraws ==
  ASSUME BaseInv, NEW m, NEW page, NEW buttons, NEW audience, NEW live, NEW spent,
         Redraw(m, page, buttons, audience, live, spent)
  PROVE  NewPage(page, buttons, audience, live)
<1> DEFINE what == Shows(page, Tokens(buttons, live))
<1>1. /\ IsSeq(screen')
      /\ \A k \in DOMAIN screen' : \/ screen'[k] = what
                                   \/ k \in DOMAIN screen /\ screen'[k] = screen[k]
  BY ScreenRewritten DEF Redraw
<1>2. what.buttons = Tokens(buttons, live)
  BY PageFields
<1> HIDE DEF what
<1> QED BY <1>1, <1>2 DEF Redraw, NewPage

LEMMA OpenDraws ==
  ASSUME BaseInv, NEW page, NEW audience, Open(page, audience)
  PROVE  NewPage(page, Buttons(page), audience, entries)
<1> DEFINE tokens == Tokens(Buttons(page), entries)
           what == Shows(page, tokens)
<1>1. /\ drawn' = Append(drawn, [page |-> page, audience |-> audience])
      /\ entries' = entries \cup tokens
      /\ screen' = Append(screen, what) \/ screen' = screen
  BY DEF Open
<1>2. what.buttons = tokens
  BY PageFields
<1>3. IsSeq(screen) /\ DOMAIN screen = 1..Len(screen) /\ Len(screen) \in Nat
  BY SeqShape DEF BaseInv
<1> HIDE DEF what
<1>4. CASE screen' = Append(screen, what)
  <2>1. /\ IsSeq(screen') /\ DOMAIN screen' = 1..(Len(screen) + 1)
        /\ \A i \in 1..Len(screen) : screen'[i] = screen[i]
        /\ screen'[Len(screen) + 1] = what
    BY <1>3, <1>4, Pushed
  <2>2. \A i \in DOMAIN screen' : i = Len(screen) + 1 \/ i \in 1..Len(screen)
    BY <1>3, <2>1
  <2> QED BY <1>1, <1>2, <1>3, <2>1, <2>2 DEF NewPage
<1>5. CASE screen' = screen
  BY <1>1, <1>3, <1>5 DEF NewPage
<1> QED BY <1>1, <1>4, <1>5

\* Which pages are drawn.
LEMMA GoodPages ==
  /\ \A page : page.of = "purge" /\ page.stage \in PurgeStages /\ AskedFor(page.everything)
                 => GoodPage(page, Buttons(page))
  /\ \A page : page.of \in {"digest", "policy"} => GoodPage(page, Buttons(page))
  /\ \A page : page.of = "digest" => GoodPage(page, Bare(<<"back", "close">>))
<1>1. ASSUME NEW page, page.of = "purge", page.stage \in PurgeStages, AskedFor(page.everything)
      PROVE  GoodPage(page, Buttons(page))
  <2>1. Do(Buttons(page), PurgeDos)
    BY <1>1, PurgeDo
  <2>2. "deliver" \notin PurgeDos
    BY DEF PurgeDos
  <2> QED BY <1>1, <2>1, <2>2 DEF Do, GoodPage
<1>2. ASSUME NEW page, page.of = "digest"
      PROVE  GoodPage(page, Buttons(page))
  <2>1. "deliver" \notin OtherDos
    BY DEF OtherDos
  <2>2. CASE page.stage = "undelivered"
    BY <1>2, <2>2, DigestDo DEF Do, GoodPage
  <2>3. CASE page.stage # "undelivered"
    BY <1>2, <2>1, <2>3, DigestDo DEF Do, GoodPage
  <2> QED BY <2>2, <2>3
<1>3. ASSUME NEW page, page.of = "policy"
      PROVE  GoodPage(page, Buttons(page))
  <2>1. "deliver" \notin OtherDos
    BY DEF OtherDos
  <2> QED BY <1>3, <2>1, PolicyDo DEF Do, GoodPage
<1>4. ASSUME NEW page, page.of = "digest"
      PROVE  GoodPage(page, Bare(<<"back", "close">>))
  <2> DEFINE names == <<"back", "close">>
  <2>1. names \in Seq(OtherDos) /\ \A i \in DOMAIN names : names[i] \in OtherDos
    BY DEF OtherDos
  <2>2. IsSeq(names)
    BY <2>1 DEF IsSeq
  <2> HIDE DEF names
  <2>3. Do(Bare(names), OtherDos)
    BY <2>1, <2>2, DoBare
  <2>4. "deliver" \notin OtherDos
    BY DEF OtherDos
  <2>5. GoodPage(page, Bare(names))
    BY <1>4, <2>3, <2>4 DEF Do, GoodPage
  <2> QED BY <2>5 DEF names
<1> QED BY <1>1, <1>2, <1>3, <1>4

LEMMA PressedSpends ==
  ASSUME PageInv, NEW of, Pressed(of), PressDeliver \/ Update.token.button.do # "deliver"
  PROVE  LiveAfter(Left)
<1>1. /\ Handling("press") /\ Spends(Update.token, Update.by) # {}
      /\ Left = entries \ Spends(Update.token, Update.by)
  BY DEF Pressed, Spent, Left
<1>2. /\ Update.token \in entries /\ Admits(Update.token, Update.by)
      /\ Left = entries \ {Update.token}
  BY <1>1 DEF Spends
<1> QED BY <1>1, <1>2 DEF LiveAfter, Spending

LEMMA PressedPage ==
  ASSUME PageInv, NEW of, Pressed(of)
  PROVE  /\ State.of = of /\ Fits(Update.token) /\ Update.token \in entries
         /\ State = drawn[Update.token.draw].page
         /\ of = "purge" => /\ Update.token.button.do \in PurgeDos
                            /\ State.stage \in PurgeStages /\ AskedFor(State.everything)
         /\ Update.token.button.do = "deliver" => of = "digest" /\ State.stage = "undelivered"
<1>1. Update.token \in entries
  BY DEF Pressed, Spent, Spends
<1>2. Fits(Update.token)
  BY <1>1 DEF PageInv
<1>3. State.of = of /\ State = drawn[Update.token.draw].page
  BY DEF Pressed, State, PageOf
<1>4. Update.token.draw \in DOMAIN drawn
  BY <1>2, SeqShape DEF Fits, PageInv, BaseInv
<1> QED BY <1>1, <1>2, <1>3, <1>4 DEF Fits, PageInv, Asked, PageOf, State

LEMMA LiveHere == LiveAfter(entries)
BY DEF LiveAfter

LEMMA StayHere ==
  ASSUME PageInv, UNCHANGED <<drawn, entries, aged, screen>> PROVE Moving
<1>1. StayPage(entries)
  BY DEF StayPage, PageInv, BaseInv
<1> QED BY <1>1, LiveHere DEF Moving

LEMMA StayWithout ==
  ASSUME PageInv, NEW live, LiveAfter(live), aged' = aged, StayPage(live) PROVE Moving
BY DEF Moving

LEMMA DrawsOn ==
  ASSUME PageInv, NEW live, LiveAfter(live), aged' = aged,
         NEW page, NEW buttons, NEW audience,
         NewPage(page, buttons, audience, live), GoodPage(page, buttons)
  PROVE  Moving
<1>1. Drawing(live)
  BY DEF Drawing
<1> QED BY <1>1 DEF Moving

LEMMA TurnsOn ==
  ASSUME PageInv, LiveAfter(Left), aged' = aged, NEW page, Turns(page),
         GoodPage(page, Buttons(page))
  PROVE  Moving
<1>1. NewPage(page, Buttons(page), drawn[Update.token.draw].audience, Left)
  BY RedrawDraws DEF Turns, PageInv
<1> QED BY <1>1, DrawsOn

\* The message rewritten by hand, as a digest's page that says it runs.
LEMMA ScreenStays ==
  ASSUME PageInv, NEW live, LiveAfter(live), UNCHANGED <<drawn, aged>>, entries' = live,
         NEW m, NEW what, what.buttons = {},
         screen' = screen \/ screen' = [screen EXCEPT ![m] = what]
  PROVE  Moving
<1>1. IsSeq(screen)
  BY DEF PageInv, BaseInv
<1>2. /\ IsSeq(screen')
      /\ \A k \in DOMAIN screen' : \/ screen'[k] = what
                                   \/ k \in DOMAIN screen /\ screen'[k] = screen[k]
  BY <1>1, Rewritten
<1>3. StayPage(live)
  BY <1>2 DEF StayPage
<1> QED BY <1>3, StayWithout

LEMMA PurgePages == ASSUME PageInv, PurgeLine \/ PressPurge PROVE Moving
<1>1. BaseInv
  BY DEF PageInv
<1>2. CASE PurgeLine
  <2> DEFINE line == Update.line
             page == Purge(IF line.range = NoRange THEN "menu" ELSE "confirm",
                           line.range, line.everything)
  <2>1. UNCHANGED pagevars \/ (Open(page, Opener) /\ UNCHANGED aged)
    BY <1>2 DEF PurgeLine
  <2>2. CASE UNCHANGED pagevars
    BY <2>2, StayHere DEF pagevars
  <2>3. CASE Open(page, Opener) /\ UNCHANGED aged
    <3>1. NewPage(page, Buttons(page), Opener, entries)
      BY <1>1, <2>3, OpenDraws
    <3>2. page.of = "purge" /\ page.stage \in PurgeStages /\ page.everything = line.everything
      BY PageFields DEF PurgeStages
    <3>3. handled + 1 \in DOMAIN log /\ Update = log[handled + 1] /\ line.of = "purge"
      <4>1. handled < Len(log) /\ handled \in Nat
        BY <1>1, <1>2 DEF PurgeLine, Handling, BaseInv
      <4>2. DOMAIN log = 1..Len(log) /\ Len(log) \in Nat
        BY <1>1, SeqShape DEF BaseInv
      <4> QED BY <1>2, <4>1, <4>2 DEF PurgeLine, Update
    <3>4. line \in PurgeLines
      BY <3>3 DEF PurgeLines
    <3>5. AskedFor(page.everything)
      BY <3>2, <3>4 DEF AskedFor
    <3>6. GoodPage(page, Buttons(page))
      BY <3>2, <3>5, GoodPages
    <3> HIDE DEF page
    <3> QED BY <2>3, <3>1, <3>6, LiveHere, DrawsOn
  <2> QED BY <2>1, <2>2, <2>3
<1>3. CASE PressPurge
  <2>1. Pressed("purge") /\ UNCHANGED aged
    BY <1>3 DEF PressPurge
  <2>2. /\ State.of = "purge" /\ Update.token.button.do \in PurgeDos
        /\ State.stage \in PurgeStages /\ AskedFor(State.everything)
        /\ Update.token.button.do # "deliver"
    BY <2>1, PressedPage DEF PurgeDos
  <2>3. LiveAfter(Left)
    BY <2>1, <2>2, PressedSpends
  <2>4. ASSUME NEW stage,
               Settle(Update.on, Says(stage, State.range, State.everything), Left)
        PROVE  Moving
    BY <1>1, <2>1, <2>3, <2>4, SettleStays, StayWithout
  <2>5. ASSUME entries' = Left, UNCHANGED <<drawn, screen>> PROVE Moving
    <3>1. StayPage(Left)
      BY <1>1, <2>5 DEF StayPage, BaseInv
    <3> QED BY <2>1, <2>3, <3>1, StayWithout
  <2>6. ASSUME Update.token.button.do \notin {"cancel", "confirm"},
               Turns(NextPurge(State, Update.token.button))
        PROVE  Moving
    <3> DEFINE button == Update.token.button
               page == NextPurge(State, button)
    <3>1. /\ page.of = State.of
          /\ page.stage \in PurgeStages
          /\ button.do = "toggle" \/ page.everything = State.everything
      <4>1. button.do \in {"stretch", "surfaces", "back", "take", "toggle"}
        BY <2>2, <2>6 DEF PurgeDos
      <4> HIDE DEF button
      <4>2. CASE button.do = "take"
        <5>1. page = [State EXCEPT !.stage = "confirm", !.range = button.range]
          BY <4>2 DEF NextPurge
        <5> QED BY <2>2, <5>1 DEF PurgeStages
      <4>3. CASE button.do = "toggle"
        <5>1. page = [State EXCEPT !.everything = ~@]
          BY <4>3 DEF NextPurge
        <5> QED BY <2>2, <4>3, <5>1 DEF PurgeStages
      <4>4. CASE button.do = "back"
        <5>1. page = [State EXCEPT !.stage = "menu", !.range = NoRange]
          BY <4>4 DEF NextPurge
        <5> QED BY <2>2, <5>1 DEF PurgeStages
      <4>5. CASE button.do \in {"stretch", "surfaces"}
        <5>1. page = [State EXCEPT !.stage = button.do]
          BY <4>5 DEF NextPurge
        <5> QED BY <4>5, <5>1 DEF PurgeStages
      <4> QED BY <4>1, <4>2, <4>3, <4>4, <4>5
    <3>2. AskedFor(page.everything)
      <4>1. CASE button.do = "toggle"
        <5>1. handled < Len(log) /\ handled \in Nat
          BY <1>1, <2>1 DEF Pressed, Handling, BaseInv
        <5>2. handled + 1 \in DOMAIN log
          BY <1>1, <5>1, SeqShape DEF BaseInv
        <5>3. Toggled
          BY <4>1, <5>2 DEF Toggled, Update
        <5> QED BY <5>3 DEF AskedFor
      <4>2. CASE page.everything = State.everything
        BY <2>2, <4>2
      <4> QED BY <3>1, <4>1, <4>2
    <3> HIDE DEF page
    <3>3. GoodPage(page, Buttons(page))
      BY <2>2, <3>1, <3>2, GoodPages
    <3>4. Turns(page)
      BY <2>6 DEF page
    <3> QED BY <2>1, <2>3, <3>3, <3>4, TurnsOn
  <2> QED BY <1>3, <2>4, <2>5, <2>6 DEF PressPurge
<1> QED BY <1>2, <1>3

LEMMA PolicyPages == ASSUME PageInv, PolicyLine \/ PressPolicy PROVE Moving
<1>1. BaseInv
  BY DEF PageInv
<1>2. CASE PolicyLine
  <2>1. UNCHANGED <<drawn, entries, aged, screen>> \/ (Open(Picker, Opener) /\ UNCHANGED aged)
    BY <1>2 DEF PolicyLine, pagevars
  <2>2. ASSUME Open(Picker, Opener), UNCHANGED aged PROVE Moving
    <3>1. NewPage(Picker, Buttons(Picker), Opener, entries)
      BY <1>1, <2>2, OpenDraws
    <3>2. Picker.of = "policy"
      BY PageFields
    <3>3. GoodPage(Picker, Buttons(Picker))
      BY <3>2, GoodPages
    <3> QED BY <2>2, <3>1, <3>3, LiveHere, DrawsOn
  <2> QED BY <2>1, <2>2, StayHere
<1>3. CASE PressPolicy
  <2>1. Pressed("policy") /\ UNCHANGED aged
    BY <1>3 DEF PressPolicy
  <2>2. Update.token.button.do # "deliver"
    BY <2>1, PressedPage
  <2>3. LiveAfter(Left)
    BY <2>1, <2>2, PressedSpends
  <2>4. ASSUME Settle(Update.on, Says("set", NoRange, FALSE), Left) PROVE Moving
    BY <1>1, <2>1, <2>3, <2>4, SettleStays, StayWithout
  <2>5. ASSUME entries' = Left, UNCHANGED <<drawn, screen>> PROVE Moving
    <3>1. StayPage(Left)
      BY <1>1, <2>5 DEF StayPage, BaseInv
    <3> QED BY <2>1, <2>3, <3>1, StayWithout
  <2> QED BY <1>3, <2>4, <2>5 DEF PressPolicy
<1> QED BY <1>2, <1>3

LEMMA DigestPages == ASSUME PageInv, DigestLine \/ PressDigest PROVE Moving
<1>1. BaseInv
  BY DEF PageInv
<1>2. CASE DigestLine
  <2> DEFINE page == Digest("stretch", NoRange, ForChat(Update.line.delivery))
  <2>1. UNCHANGED pagevars \/ (Open(page, Anybody) /\ UNCHANGED aged)
    BY <1>2 DEF DigestLine
  <2>2. page.of = "digest"
    BY PageFields
  <2> HIDE DEF page
  <2>3. ASSUME Open(page, Anybody), UNCHANGED aged PROVE Moving
    <3>1. NewPage(page, Buttons(page), Anybody, entries)
      BY <1>1, <2>3, OpenDraws
    <3>2. GoodPage(page, Buttons(page))
      BY <2>2, GoodPages
    <3> QED BY <2>3, <3>1, <3>2, LiveHere, DrawsOn
  <2>4. UNCHANGED pagevars => Moving
    BY StayHere DEF pagevars
  <2> QED BY <2>1, <2>3, <2>4
<1>3. CASE PressDigest
  <2>1. Pressed("digest") /\ UNCHANGED aged /\ Update.token.button.do # "deliver"
    BY <1>3 DEF PressDigest, Does
  <2>2. State.of = "digest"
    BY <2>1, PressedPage
  <2>3. LiveAfter(Left)
    BY <2>1, PressedSpends
  <2>4. ASSUME NEW page, page.of = "digest", Turns(page) PROVE Moving
    BY <2>1, <2>3, <2>4, GoodPages, TurnsOn
  <2>5. \A stage, range, delivery : Digest(stage, range, delivery).of = "digest"
    BY PageFields
  <2>6. CASE Turning
    <3>1. ASSUME Settle(Update.on, Says("closed", NoRange, FALSE), Left) PROVE Moving
      BY <1>1, <2>1, <2>3, <3>1, SettleStays, StayWithout
    <3>2. ASSUME Redraw(Update.on, State, Bare(<<"back", "close">>), Anybody, Left, 0)
          PROVE  Moving
      <4>1. NewPage(State, Bare(<<"back", "close">>), Anybody, Left)
        BY <1>1, <3>2, RedrawDraws
      <4>2. GoodPage(State, Bare(<<"back", "close">>))
        BY <2>2, GoodPages
      <4> QED BY <2>1, <2>3, <4>1, <4>2, DrawsOn
    <3> QED BY <2>4, <2>5, <2>6, <3>1, <3>2 DEF Turning
  <2>7. ASSUME NEW to, Submit(to) PROVE Moving
    <3> DEFINE what == Shows(Digest("running", Asks.range, to), {})
    <3>1. what.buttons = {}
      BY PageFields
    <3>2. \/ /\ screen' = screen \/ screen' = [screen EXCEPT ![Update.on] = what]
             /\ entries' = Left /\ UNCHANGED drawn
          \/ Turns(Digest("failed", Asks.range, to))
      BY <2>7 DEF Submit
    <3> HIDE DEF what
    <3> QED BY <2>1, <2>3, <2>4, <2>5, <3>1, <3>2, ScreenStays
  <2> QED BY <1>3, <2>2, <2>4, <2>6, <2>7 DEF PressDigest
<1> QED BY <1>2, <1>3

LEMMA SendPages ==
  ASSUME PageInv, UNCHANGED aged, NEW i, NEW m, NEW to, NEW live, LiveAfter(live),
         Send(i, m, to, live)
  PROVE  Moving
<1>1. CASE /\ screen' = [screen EXCEPT ![m] = Gone] \/ screen' = screen
           /\ entries' = live /\ UNCHANGED drawn
  BY <1>1, PageFields, ScreenStays
<1>2. CASE Redraw(m, Undelivered(i, to), Buttons(Undelivered(i, to)), Anybody, live, 1)
  <2>1. Undelivered(i, to).of = "digest"
    BY DEF Undelivered, Digest, Blank
  <2> DEFINE page == Undelivered(i, to)
  <2> HIDE DEF page
  <2>2. NewPage(page, Buttons(page), Anybody, live)
    BY <1>2, RedrawDraws DEF PageInv, page
  <2>3. GoodPage(page, Buttons(page))
    BY <2>1, GoodPages DEF page
  <2> QED BY <2>2, <2>3, DrawsOn
<1> QED BY <1>1, <1>2 DEF Send

LEMMA ReportPages ==
  ASSUME PageInv, PressDeliver \/ \E i \in DOMAIN jobs : Report(i) \/ FailReport(i)
  PROVE  Moving
<1>1. CASE PressDeliver
  <2>1. Pressed("digest") /\ UNCHANGED aged
    BY <1>1 DEF PressDeliver
  <2>2. State.of = "digest" /\ LiveAfter(Left)
    BY <1>1, <2>1, PressedPage, PressedSpends
  <2>3. Turns(State) \/ \E to : Send(State.report, Update.on, to, Left)
    BY <1>1 DEF PressDeliver
  <2>4. Turns(State) => Moving
    BY <2>1, <2>2, GoodPages, TurnsOn
  <2> QED BY <2>1, <2>2, <2>3, <2>4, SendPages
<1>2. ASSUME NEW i \in DOMAIN jobs, Report(i) PROVE Moving
  <2>1. UNCHANGED aged
    BY <1>2 DEF Report
  <2>2. \/ Send(i, jobs[i].on, jobs[i].delivery, entries)
        \/ UNCHANGED <<drawn, entries, screen>>
    BY <1>2 DEF Report
  <2> QED BY <2>1, <2>2, LiveHere, SendPages, StayHere
<1>3. ASSUME NEW i \in DOMAIN jobs, FailReport(i) PROVE Moving
  <2> DEFINE page == Digest("failed", jobs[i].range, jobs[i].delivery)
  <2>1. UNCHANGED aged
    BY <1>3 DEF FailReport
  <2>2. \/ Redraw(jobs[i].on, page, Buttons(page), Anybody, entries, 0)
        \/ UNCHANGED <<drawn, entries, screen>>
    BY <1>3 DEF FailReport
  <2>3. page.of = "digest"
    BY PageFields
  <2> HIDE DEF page
  <2>4. GoodPage(page, Buttons(page))
    BY <2>3, GoodPages
  <2>5. Redraw(jobs[i].on, page, Buttons(page), Anybody, entries, 0) => Moving
    BY <2>1, <2>4, LiveHere, RedrawDraws, DrawsOn DEF PageInv
  <2> QED BY <2>1, <2>2, <2>5, StayHere
<1> QED BY <1>1, <1>2, <1>3

LEMMA PagesMove ==
  ASSUME PageInv, [InboundNext]_vars
  PROVE  Moving \/ Expire \/ Crash
<1>1. CASE Act
  <2>1. UNCHANGED pagevars
    BY <1>1 DEF Act, Write, Rewrite, Command, Press, Sends
  <2> QED BY <2>1, StayHere DEF pagevars
<1>2. CASE Fails \/ StoreMessage \/ StoreEdit \/ Missed
  <2>1. UNCHANGED <<drawn, entries, aged, screen>>
    BY <1>2 DEF Fails, StoreMessage, StoreEdit, Missed, pagevars
  <2> QED BY <2>1, StayHere
<1>3. CASE UNCHANGED vars
  BY <1>3, StayHere DEF vars, pagevars
<1> QED BY <1>1, <1>2, <1>3, PurgePages, PolicyPages, DigestPages, ReportPages
        DEF InboundNext, Handle

-----------------------------------------------------------------------------
(***************************************************************************)
(* What is on record only grows: the updates, the entries, the pages.      *)
(***************************************************************************)
Fresh(u) ==
  /\ u.token.draw \in (IF u.kind = "press" THEN 1..Len(drawn) ELSE {0})
  /\ u.kind \in {"message", "edit"} => u.message \in Messages
  /\ u.kind = "edit" => \E last : last = Max({v.at : v \in About(u.message)})
                                  /\ About(u.message) # {} /\ u.at \in {last, last + 1} \ {0}
  /\ u.kind # "edit" => u.at = 0

Sent == \E u : /\ log' = Append(log, u) /\ Fresh(u)
               /\ UNCHANGED <<pagevars, storevars, confirmed, handled, jobs>>

LEMMA LogStep ==
  ASSUME PageInv, [InboundNext]_vars
  PROVE  log' = log \/ Sent
<1>1. CASE Act
  <2>1. ASSUME NEW p, NEW m \in Messages, Write(p, m) PROVE Sent
    <3> DEFINE u == [NoUpdate EXCEPT !.kind = "message", !.by = p, !.message = m]
    <3>1. u.kind = "message" /\ u.message = m /\ u.token.draw = 0 /\ u.at = 0
      BY DEF NoUpdate
    <3> HIDE DEF u
    <3>2. Sends(u)
      BY <2>1 DEF Write, u
    <3>3. Fresh(u)
      BY <3>1 DEF Fresh
    <3> QED BY <3>2, <3>3 DEF Sends, Sent
  <2>2. ASSUME NEW m \in Messages, Rewrite(m) PROVE Sent
    <3> DEFINE last == Max({v.at : v \in About(m)})
    <3>1. PICK at \in {last, last + 1} \ {0} :
            Sends([NoUpdate EXCEPT !.kind = "edit", !.message = m, !.at = at,
                                   !.text = Cardinality(About(m))])
      BY <2>2 DEF Rewrite
    <3> DEFINE u == [NoUpdate EXCEPT !.kind = "edit", !.message = m, !.at = at,
                                     !.text = Cardinality(About(m))]
    <3>2. u.kind = "edit" /\ u.message = m /\ u.token.draw = 0 /\ u.at = at
      BY DEF NoUpdate
    <3>3. Sends(u) /\ About(m) # {}
      BY <2>2, <3>1 DEF Rewrite
    <3> HIDE DEF u
    <3>4. Fresh(u)
      BY <3>2, <3>3 DEF Fresh
    <3> QED BY <3>3, <3>4 DEF Sends, Sent
  <2>3. ASSUME NEW l, Command(l) PROVE Sent
    <3> DEFINE u == [NoUpdate EXCEPT !.kind = "command", !.by = l.by, !.line = l]
    <3>1. u.kind = "command" /\ u.token.draw = 0 /\ u.at = 0
      BY DEF NoUpdate
    <3> HIDE DEF u
    <3>2. Sends(u)
      BY <2>3 DEF Command, u
    <3>3. Fresh(u)
      BY <3>1 DEF Fresh
    <3> QED BY <3>2, <3>3 DEF Sends, Sent
  <2>4. ASSUME NEW p, NEW m \in DOMAIN screen, Press(p, m) PROVE Sent
    <3>1. PICK t \in screen[m].buttons :
            Sends([NoUpdate EXCEPT !.kind = "press", !.by = p, !.token = t, !.on = m])
      BY <2>4 DEF Press
    <3> DEFINE u == [NoUpdate EXCEPT !.kind = "press", !.by = p, !.token = t, !.on = m]
    <3>2. u.kind = "press" /\ u.token = t /\ u.at = 0
      BY DEF NoUpdate
    <3>3. t.draw \in 1..Len(drawn)
      BY DEF PageInv
    <3> HIDE DEF u
    <3>4. Sends(u)
      BY <3>1 DEF u
    <3>5. Fresh(u)
      BY <3>2, <3>3 DEF Fresh
    <3> QED BY <3>4, <3>5 DEF Sends, Sent
  <2> QED BY <1>1, <2>1, <2>2, <2>3, <2>4 DEF Act
<1>2. CASE ~Act
  BY <1>2 DEF InboundNext, Handle, Fails, StoreMessage, StoreEdit, PurgeLine, DigestLine,
     PolicyLine, Missed, PressPurge, PressPolicy, PressDigest, PressDeliver, Expire, Crash,
     Report, FailReport, chatvars, vars
<1> QED BY <1>1, <1>2

LEMMA HandledStep ==
  ASSUME PageInv, [InboundNext]_vars
  PROVE  /\ handled' \in 0..Len(log') /\ confirmed' \in 0..Len(log')
         /\ handled' >= handled \/ Crash
         /\ Handle => handled' = handled + 1 /\ handled + 1 \in DOMAIN log
<1>1. /\ IsSeq(log) /\ Len(log) \in Nat /\ DOMAIN log = 1..Len(log)
      /\ handled \in 0..Len(log) /\ confirmed \in 0..Len(log)
  BY SeqShape DEF PageInv, BaseInv
<1>2. Len(log') \in Nat /\ Len(log') >= Len(log)
  BY <1>1, LogStep, Pushed DEF Sent
<1>3. CASE Act
  <2>1. UNCHANGED <<handled, confirmed>>
    BY <1>3 DEF Act, Write, Rewrite, Command, Press, Sends
  <2>2. ~Handle
    <3>1. log' # log
      <4>1. log' = log => FALSE
        <5> SUFFICES ASSUME log' = log PROVE FALSE
          OBVIOUS
        <5>1. \E u : log' = Append(log, u)
          BY <1>3 DEF Act, Write, Rewrite, Command, Press, Sends
        <5> QED BY <1>1, <5>1, Pushed
      <4> QED BY <4>1
    <3> QED BY <3>1 DEF Handle, Fails, StoreMessage, StoreEdit, PurgeLine, DigestLine,
           PolicyLine, Missed, PressPurge, PressPolicy, PressDigest, PressDeliver, chatvars
  <2> QED BY <1>1, <1>2, <2>1, <2>2
<1>4. CASE Handle
  <2>1. handled < Len(log) /\ handled' = handled + 1 /\ UNCHANGED confirmed
    BY <1>4 DEF Handle, Fails, StoreMessage, StoreEdit, PurgeLine, DigestLine,
       PolicyLine, Missed, PressPurge, PressPolicy, PressDigest, PressDeliver, Handling,
       Pressed, chatvars
  <2> QED BY <1>1, <1>2, <2>1
<1>5. CASE ~Act /\ ~Handle
  <2>1. CASE Crash
    BY <1>1, <1>2, <1>5, <2>1 DEF Crash
  <2>2. CASE ~Crash
    <3>1. UNCHANGED <<handled, confirmed>>
      BY <1>5, <2>2 DEF InboundNext, Expire, Report, FailReport, chatvars, vars
    <3> QED BY <1>1, <1>2, <1>5, <3>1
  <2> QED BY <2>1, <2>2
<1> QED BY <1>3, <1>4, <1>5

\* What a step adds to the accumulation, by kind.
Queues(kinds) ==
  /\ Grows(queue, queue')
  /\ \A i \in DOMAIN queue' : \/ i \in DOMAIN queue
                              \/ queue'[i].kind \in kinds

LEMMA QueuesNothing == ASSUME BaseInv, queue' = queue, NEW kinds PROVE Queues(kinds)
BY GrowsByNothing DEF BaseInv, Queues

LEMMA QueuesMore ==
  ASSUME BaseInv, NEW more, IsSeq(more), queue' = queue \o more, NEW kinds,
         \A i \in DOMAIN more : more[i].kind \in kinds
  PROVE  Queues(kinds)
<1>1. /\ IsSeq(queue) /\ Len(queue) \in Nat /\ DOMAIN queue = 1..Len(queue)
      /\ Len(more) \in Nat /\ DOMAIN more = 1..Len(more)
  BY SeqShape DEF BaseInv
<1> DEFINE joined == queue \o more
<1>2. /\ Grows(queue, joined) /\ IsSeq(joined) /\ Len(joined) = Len(queue) + Len(more)
      /\ \A i \in (Len(queue) + 1)..(Len(queue) + Len(more)) : joined[i] = more[i - Len(queue)]
  BY <1>1, GrowsByMore, Joined
<1> HIDE DEF joined
<1>3. DOMAIN joined = 1..Len(joined)
  BY <1>2, SeqShape
<1>4. ASSUME NEW i \in DOMAIN joined PROVE i \in DOMAIN queue \/ joined[i].kind \in kinds
  <2>1. i \in 1..Len(queue) \/ (i \in (Len(queue) + 1)..(Len(queue) + Len(more))
                                /\ i - Len(queue) \in 1..Len(more))
    BY <1>1, <1>2, <1>3
  <2> QED BY <1>1, <1>2, <2>1
<1>5. queue' = joined
  BY DEF joined
<1> QED BY <1>2, <1>4, <1>5 DEF Queues

LEMMA EntryFields ==
  /\ \A kind : LET e == Entry(kind) IN e.kind = kind
  /\ \A kind : LET e == Caused(kind) IN e.kind = kind /\ e.cause = handled + 1
  /\ \A range, everything :
       LET e == PurgeEntry(range, everything)
       IN  /\ e.kind = "purge" /\ e.cause = handled + 1
           /\ e.range = range /\ e.everything = everything
BY DEF Caused, PurgeEntry, Entry

LEMMA PolicyQueues ==
  ASSUME BaseInv, NEW new, SetPolicy(new) \/ HalfSetPolicy(new)
  PROVE  Queues({"policy", "host"})
<1>1. CASE HalfSetPolicy(new)
  BY <1>1, QueuesNothing DEF HalfSetPolicy
<1>2. CASE SetPolicy(new)
  <2> DEFINE reopening == IF new > level THEN <<Caused("policy")>> ELSE <<>>
             kinds == {"policy", "host"}
             a == Caused("policy")
             b == Caused("host")
  <2>1. PICK recorded \in {<<>>, <<b>>} : queue' = queue \o (reopening \o recorded)
    BY <1>2 DEF SetPolicy, Queued
  <2>2. a.kind \in kinds /\ b.kind \in kinds
    BY EntryFields
  <2>3. reopening = <<a>> \/ reopening = <<>>
    OBVIOUS
  <2> HIDE DEF a, b, reopening
  <2>4. \A e : e.kind \in kinds =>
          /\ IsSeq(<<e>>)
          /\ \A i \in DOMAIN (<<e>>) : <<e>>[i].kind \in kinds
    <3> TAKE e
    <3>1. IsSeq(<<e>>) /\ DOMAIN (<<e>>) = {1} /\ <<e>>[1] = e
      BY One, SeqShape
    <3> QED BY <3>1
  <2>5. IsSeq(<<>>) /\ \A i \in DOMAIN <<>> : <<>>[i].kind \in kinds
    BY Empty
  <2>6. IsSeq(reopening) /\ \A i \in DOMAIN reopening : reopening[i].kind \in kinds
    <3> HIDE DEF kinds
    <3> QED BY <2>2, <2>3, <2>4, <2>5
  <2>7. IsSeq(recorded) /\ \A i \in DOMAIN recorded : recorded[i].kind \in kinds
    <3> HIDE DEF kinds
    <3> QED BY <2>1, <2>2, <2>4, <2>5
  <2> DEFINE more == reopening \o recorded
  <2>8. IsSeq(more) /\ \A i \in DOMAIN more : more[i].kind \in kinds
    <3>1. /\ IsSeq(more) /\ Len(more) = Len(reopening) + Len(recorded)
          /\ \A i \in 1..Len(reopening) : more[i] = reopening[i]
          /\ \A i \in (Len(reopening) + 1)..(Len(reopening) + Len(recorded)) :
               more[i] = recorded[i - Len(reopening)]
          /\ DOMAIN reopening = 1..Len(reopening) /\ Len(reopening) \in Nat
          /\ DOMAIN recorded = 1..Len(recorded) /\ Len(recorded) \in Nat
      BY <2>6, <2>7, Joined, SeqShape
    <3> HIDE DEF more, kinds
    <3>2. DOMAIN more = 1..Len(more)
      BY <3>1, SeqShape
    <3>3. ASSUME NEW i \in DOMAIN more PROVE more[i].kind \in kinds
      <4>1. i \in 1..Len(reopening)
              \/ (/\ i \in (Len(reopening) + 1)..(Len(reopening) + Len(recorded))
                  /\ i - Len(reopening) \in 1..Len(recorded))
        BY <3>1, <3>2
      <4> QED BY <2>6, <2>7, <3>1, <4>1
    <3> QED BY <3>1, <3>3
  <2> HIDE DEF more
  <2>9. queue' = queue \o more
    BY <2>1 DEF more
  <2> QED BY <2>8, <2>9, QueuesMore
<1> QED BY <1>1, <1>2

LEMMA QueuesOne ==
  ASSUME BaseInv, NEW e, queue' = queue \o <<e>>
  PROVE  /\ Queues({e.kind}) /\ Len(queue') = Len(queue) + 1
         /\ queue'[Len(queue) + 1] = e /\ Grows(queue, queue')
<1> DEFINE more == <<e>>
<1>1. IsSeq(more) /\ Len(more) = 1 /\ more[1] = e /\ DOMAIN more = 1..1
  BY One, SeqShape
<1> HIDE DEF more
<1>2. queue' = queue \o more
  BY DEF more
<1>3. Queues({e.kind})
  BY <1>1, <1>2, QueuesMore
<1>4. IsSeq(queue) /\ Len(queue) \in Nat
  BY SeqShape DEF BaseInv
<1> DEFINE joined == queue \o more
<1>5. /\ Len(joined) = Len(queue) + Len(more)
      /\ \A i \in (Len(queue) + 1)..(Len(queue) + Len(more)) : joined[i] = more[i - Len(queue)]
  BY <1>1, <1>4, Joined
<1> HIDE DEF joined
<1>6. queue' = joined
  BY <1>2 DEF joined
<1>7. Len(queue) + 1 \in (Len(queue) + 1)..(Len(queue) + Len(more))
      /\ Len(queue) + 1 - Len(queue) = 1
  BY <1>1, <1>4
<1>8. queue'[Len(queue) + 1] = e /\ Len(queue') = Len(queue) + 1
  BY <1>1, <1>5, <1>6, <1>7
<1> QED BY <1>3, <1>8 DEF Queues

\* The steps that queue neither a purge nor what a person wrote.
LEMMA QuietQueues ==
  ASSUME BaseInv, [InboundNext]_vars, ~PurgeLine, ~PressPurge, ~StoreMessage, ~StoreEdit
  PROVE  Queues({"policy", "host"}) /\ rows' = rows
<1>1. CASE Act \/ Fails \/ DigestLine \/ Missed \/ PressDigest \/ PressDeliver \/ Expire
           \/ Crash \/ (\E i \in DOMAIN jobs : Report(i) \/ FailReport(i)) \/ UNCHANGED vars
  <2>1. queue' = queue /\ rows' = rows
    BY <1>1 DEF Act, Write, Rewrite, Command, Press, Sends, Fails, DigestLine, Missed,
       PressDigest, PressDeliver, Expire, Crash, Report, FailReport, storevars, vars
  <2> QED BY <2>1, QueuesNothing
<1>2. CASE PolicyLine
  <2>1. /\ rows' = rows
        /\ queue' = queue \/ \E new : SetPolicy(new) \/ HalfSetPolicy(new)
    BY <1>2 DEF PolicyLine
  <2> QED BY <2>1, QueuesNothing, PolicyQueues
<1>3. CASE PressPolicy
  <2>1. /\ rows' = rows
        /\ queue' = queue \/ \E new : SetPolicy(new) \/ HalfSetPolicy(new)
    BY <1>3 DEF PressPolicy
  <2> QED BY <2>1, QueuesNothing, PolicyQueues
<1> QED BY <1>1, <1>2, <1>3 DEF InboundNext, Handle

-----------------------------------------------------------------------------
(***************************************************************************)
(* The digests asked for                                                   *)
(***************************************************************************)
LEMMA JobSet ==
  ASSUME IsSeq(jobs), NEW i, NEW state, jobs' = [jobs EXCEPT ![i].state = state]
  PROVE  /\ IsSeq(jobs')
         /\ \A k \in DOMAIN jobs' : /\ k \in DOMAIN jobs
                                    /\ k # i => jobs'[k] = jobs[k]
                                    /\ k = i => jobs'[k] = [jobs[i] EXCEPT !.state = state]
<1> DEFINE e == [jobs[i] EXCEPT !.state = state]
           r == [jobs EXCEPT ![i] = e]
<1>1. jobs' = r
  OBVIOUS
<1> HIDE DEF e
<1>3. IsSeq(r) /\ \A k \in DOMAIN r : k \in DOMAIN jobs /\ r[k] = IF k = i THEN e ELSE jobs[k]
  BY Rewritten
<1> HIDE DEF r
<1>2. /\ IsSeq(jobs')
      /\ \A k \in DOMAIN jobs' : k \in DOMAIN jobs /\ jobs'[k] = IF k = i THEN e ELSE jobs[k]
  BY <1>1, <1>3
<1> QED BY <1>2 DEF e

LEMMA JobsEnded ==
  ASSUME IsSeq(jobs), NEW f, DOMAIN f = DOMAIN jobs
  PROVE  IsSeq([i \in DOMAIN jobs |-> f[i]])
<1>1. DOMAIN jobs = 1..Len(jobs) /\ Len(jobs) \in Nat
  BY SeqShape
<1> DEFINE T == {f[i] : i \in DOMAIN jobs}
           g == [i \in DOMAIN jobs |-> f[i]]
<1>2. g \in [1..Len(jobs) -> T]
  BY <1>1
<1> HIDE DEF g, T
<1>3. g \in Seq(T)
  BY <1>1, <1>2
<1>4. IsSeq(g)
  BY <1>3 DEF IsSeq
<1> QED BY <1>4 DEF g

LEMMA SendJobs ==
  ASSUME IsSeq(jobs), NEW i, NEW m, NEW to, NEW live, Send(i, m, to, live)
  PROVE  IsSeq(jobs')
<1>1. \E state : jobs' = [jobs EXCEPT ![i].state = state]
  BY DEF Send, Refused
<1> QED BY <1>1, JobSet

LEMMA JobsStep == ASSUME BaseInv, [InboundNext]_vars PROVE IsSeq(jobs')
<1>1. IsSeq(jobs)
  BY DEF BaseInv
<1>2. CASE \/ Act \/ Fails \/ StoreMessage \/ StoreEdit \/ PurgeLine \/ PolicyLine \/ Missed
           \/ PressPurge \/ PressPolicy \/ UNCHANGED vars
  <2>1. jobs' = jobs
    BY <1>2 DEF Act, Write, Rewrite, Command, Press, Sends, Fails, StoreMessage, StoreEdit,
       PurgeLine, PolicyLine, Missed, PressPurge, PressPolicy, vars
  <2> QED BY <1>1, <2>1
<1>3. CASE DigestLine \/ PressDigest
  <2>1. jobs' = jobs \/ \E job : jobs' = Append(jobs, job)
    BY <1>3 DEF DigestLine, PressDigest, Turning, Submit, Accepted
  <2>2. \A job : IsSeq(Append(jobs, job))
    BY <1>1, Pushed
  <2> QED BY <1>1, <2>1, <2>2
<1>4. CASE PressDeliver
  <2>1. \E state : jobs' = [jobs EXCEPT ![State.report].state = state]
    BY <1>4 DEF PressDeliver, Send, Refused
  <2> QED BY <1>1, <2>1, JobSet
<1>5. ASSUME NEW i \in DOMAIN jobs, Report(i) \/ FailReport(i) PROVE IsSeq(jobs')
  <2>1. \E state : jobs' = [jobs EXCEPT ![i].state = state]
    BY <1>5 DEF Report, FailReport, Send, Refused
  <2> QED BY <1>1, <2>1, JobSet
<1>6. CASE Expire \/ Crash
  <2>1. \E ends : jobs' = [i \in DOMAIN jobs |-> ends[i]] /\ DOMAIN ends = DOMAIN jobs
    <3>1. \E f : jobs' = f /\ f = [i \in DOMAIN jobs |-> f[i]]
      BY <1>6 DEF Expire, Crash, Ending
    <3> QED BY <3>1
  <2> QED BY <1>1, <2>1, JobsEnded
<1> QED BY <1>2, <1>3, <1>4, <1>5, <1>6 DEF InboundNext, Handle

-----------------------------------------------------------------------------
(***************************************************************************)
(* The pages' invariant                                                    *)
(***************************************************************************)
LEMMA DrawnGrows ==
  ASSUME PageInv, [InboundNext]_vars
  PROVE  Grows(drawn, drawn')
<1>1. IsSeq(drawn)
  BY DEF PageInv, BaseInv
<1>2. drawn' = drawn \/ \E page : drawn' = Append(drawn, page)
  <2>1. CASE Moving
    BY <2>1 DEF Moving, StayPage, Drawing, NewPage
  <2>2. CASE Expire \/ Crash
    BY <2>2 DEF Expire, Outlived, Crash
  <2> QED BY <2>1, <2>2, PagesMove
<1> QED BY <1>1, <1>2, GrowsByNothing, GrowsByOne

LEMMA LogGrows ==
  ASSUME PageInv, [InboundNext]_vars
  PROVE  Grows(log, log')
<1>1. IsSeq(log)
  BY DEF PageInv, BaseInv
<1> QED BY <1>1, LogStep, GrowsByNothing, GrowsByOne DEF Sent

LEMMA TokensFinite ==
  ASSUME NEW buttons, IsSeq(buttons), NEW live
  PROVE  /\ IsFiniteSet(Tokens(buttons, live))
         /\ \A t \in Tokens(buttons, live) :
              t.draw = Len(drawn) + 1 /\ \E i \in DOMAIN buttons : t.button = buttons[i]
<1> DEFINE I == {j \in DOMAIN buttons : j <= Room(live)}
           g == [i \in I |-> Token(Len(drawn) + 1, buttons[i])]
<1>1. DOMAIN buttons = 1..Len(buttons) /\ Len(buttons) \in Nat
  BY SeqShape
<1>2. IsFiniteSet(1..Len(buttons)) /\ I \in SUBSET (1..Len(buttons))
  BY <1>1, FS_Interval
<1>3. IsFiniteSet(I)
  BY <1>2, FS_Subset
<1>4. g \in Surjection(I, Tokens(buttons, live))
  BY DEF Surjection, Tokens
<1>5. IsFiniteSet(Tokens(buttons, live))
  <2> HIDE DEF g, I
  <2> QED BY <1>3, <1>4, FS_Surjection
<1>6. \A t \in Tokens(buttons, live) :
        t.draw = Len(drawn) + 1 /\ \E i \in DOMAIN buttons : t.button = buttons[i]
  BY DEF Tokens, Token
<1> QED BY <1>5, <1>6

LEMMA AskedStays ==
  ASSUME Grows(log, log'), NEW e, AskedFor(e)
  PROVE  Toggled' \/ \E line \in PurgeLines' : line.everything = e
<1>1. \A i \in DOMAIN log : i \in DOMAIN log' /\ log'[i] = log[i]
  BY GrownPlaces
<1>2. Toggled => Toggled'
  BY <1>1 DEF Toggled
<1>3. PurgeLines \subseteq PurgeLines'
  BY <1>1 DEF PurgeLines
<1> QED BY <1>2, <1>3 DEF AskedFor

\* A page keeps its place, so an entry goes on meaning what it meant.
LEMMA PageStays ==
  ASSUME BaseInv, Grows(drawn, drawn'), NEW t, t.draw \in 1..Len(drawn)
  PROVE  /\ t.draw \in 1..Len(drawn') /\ PageOf(t)' = PageOf(t)
         /\ \A p : Admits(t, p)' <=> Admits(t, p)
<1>1. Len(drawn) \in Nat /\ Len(drawn') \in Nat /\ Len(drawn') >= Len(drawn)
      /\ drawn'[t.draw] = drawn[t.draw]
  BY SeqShape DEF Grows
<1> QED BY <1>1 DEF PageOf, Admits

LEMMA PageInvStep ==
  ASSUME PageInv, [InboundNext]_vars PROVE PageInv'
<1>1. /\ BaseInv /\ Grows(drawn, drawn') /\ Grows(log, log')
      /\ Len(drawn) \in Nat /\ DOMAIN drawn = 1..Len(drawn)
  BY DrawnGrows, LogGrows, SeqShape DEF PageInv, BaseInv
<1>2. /\ IsSeq(log') /\ IsSeq(drawn') /\ Len(drawn') \in Nat /\ DOMAIN drawn' = 1..Len(drawn')
      /\ Len(drawn') >= Len(drawn)
  BY <1>1, SeqShape DEF Grows
<1>3. IsSeq(queue')
  <2>1. CASE PurgeLine \/ PressPurge
    <3>1. queue' = queue \/ \E e : queue' = queue \o <<e>>
      BY <2>1 DEF PurgeLine, PressPurge, Queued, pagevars
    <3> QED BY <1>1, <3>1, QueuesOne DEF BaseInv, Grows
  <2>2. CASE StoreMessage \/ StoreEdit
    <3>1. queue' = queue \/ \E e : queue' = queue \o <<e>>
      BY <2>2 DEF StoreMessage, StoreEdit, Queued
    <3> QED BY <1>1, <3>1, QueuesOne DEF BaseInv, Grows
  <2> QED BY <1>1, <2>1, <2>2, QuietQueues DEF Queues, Grows
<1>4. IsSeq(jobs')
  BY <1>1, JobsStep
<1>5. handled' \in 0..Len(log') /\ confirmed' \in 0..Len(log')
  BY HandledStep
<1>6. ASSUME NEW n \in DOMAIN log'
      PROVE  log'[n].token.draw \in (IF log'[n].kind = "press" THEN 1..Len(drawn') ELSE {0})
  <2>1. \A i \in DOMAIN log :
          log[i].token.draw \in (IF log[i].kind = "press" THEN 1..Len(drawn') ELSE {0})
    BY <1>1, <1>2 DEF PageInv
  <2>2. CASE n \in DOMAIN log
    BY <1>1, <2>1, <2>2, GrownPlaces
  <2>3. CASE n \notin DOMAIN log
    <3>1. log' # log
      BY <2>3
    <3>2. PICK u : log' = Append(log, u) /\ Fresh(u)
      BY <3>1, LogStep DEF Sent
    <3>3. IsSeq(log) /\ DOMAIN log = 1..Len(log) /\ Len(log) \in Nat
      BY <1>1, SeqShape DEF BaseInv
    <3>4. DOMAIN log' = 1..(Len(log) + 1) /\ log'[Len(log) + 1] = u
      BY <3>2, <3>3, Pushed
    <3>5. n = Len(log) + 1
      BY <2>3, <3>3, <3>4
    <3> QED BY <1>2, <3>2, <3>4, <3>5 DEF Fresh
  <2> QED BY <2>2, <2>3
<1>7. ASSUME NEW t, Fits(t) PROVE Fits(t)'
  BY <1>1, <1>7, PageStays DEF Fits
<1>8. ASSUME NEW n \in DOMAIN drawn PROVE Asked(n)'
  <2>1. drawn'[n] = drawn[n]
    BY <1>1, GrownPlaces
  <2>2. drawn[n].page.of = "purge" => AskedFor(drawn[n].page.everything)
    BY DEF PageInv, Asked
  <2>3. drawn[n].page.of = "purge" =>
          Toggled' \/ \E line \in PurgeLines' : line.everything = drawn[n].page.everything
    BY <1>1, <2>2, AskedStays
  <2> QED BY <2>1, <2>3 DEF AskedFor, Asked
<1>9. CASE Moving
  <2>1. PICK live : LiveAfter(live) /\ aged' = aged /\ (StayPage(live) \/ Drawing(live))
    BY <1>9 DEF Moving
  <2>2. live \subseteq entries /\ IsFiniteSet(live)
    BY <1>1, <2>1, FS_Subset DEF LiveAfter, BaseInv
  <2>3. \A t \in live : Fits(t)'
    BY <1>7, <2>2 DEF PageInv
  <2>4. CASE StayPage(live)
    <3>1. BaseInv'
      BY <1>1, <1>2, <1>3, <1>4, <1>5, <2>1, <2>2, <2>4 DEF BaseInv, StayPage
    <3>2. \A t \in entries' : Fits(t)'
      BY <2>3, <2>4 DEF StayPage
    <3>3. \A k \in DOMAIN screen' : \A t \in screen'[k].buttons : t.draw \in 1..Len(drawn')
      BY <2>4 DEF StayPage, PageInv
    <3>4. \A n \in DOMAIN drawn' : Asked(n)'
      BY <1>8, <2>4 DEF StayPage
    <3> QED BY <1>6, <3>1, <3>2, <3>3, <3>4 DEF PageInv
  <2>5. CASE Drawing(live)
    <3>1. PICK page, buttons, audience :
            NewPage(page, buttons, audience, live) /\ GoodPage(page, buttons)
      BY <2>5 DEF Drawing
    <3> DEFINE d == [page |-> page, audience |-> audience]
               tokens == Tokens(buttons, live)
               n == Len(drawn) + 1
    <3>2. /\ drawn' = Append(drawn, d) /\ entries' = live \cup tokens /\ IsSeq(screen')
          /\ \A k \in DOMAIN screen' : \/ screen'[k].buttons = tokens
                                       \/ screen'[k].buttons = {}
                                       \/ k \in DOMAIN screen /\ screen'[k] = screen[k]
      BY <3>1 DEF NewPage
    <3>3. d.page = page
      OBVIOUS
    <3> HIDE DEF d
    <3>4. /\ Len(drawn') = n /\ drawn'[n] = d /\ n \in DOMAIN drawn'
          /\ \A i \in DOMAIN drawn' : i = n \/ i \in DOMAIN drawn
      <4>1. IsSeq(drawn)
        BY <1>1 DEF BaseInv
      <4>2. Len(drawn') = n /\ drawn'[n] = d /\ DOMAIN drawn' = 1..n
        BY <3>2, <4>1, Pushed
      <4> QED BY <1>1, <4>2
    <3>5. IsSeq(buttons)
      BY <3>1 DEF GoodPage
    <3>6. /\ IsFiniteSet(tokens)
          /\ \A t \in tokens : t.draw = n /\ \E i \in DOMAIN buttons : t.button = buttons[i]
      BY <3>5, TokensFinite
    <3> HIDE DEF tokens, n
    <3>7. BaseInv'
      <4>1. IsFiniteSet(entries')
        BY <2>2, <3>2, <3>6, FS_Union
      <4>2. aged' \in 0..Len(drawn')
        BY <1>1, <1>2, <2>1 DEF BaseInv
      <4> QED BY <1>2, <1>3, <1>4, <1>5, <3>2, <4>1, <4>2 DEF BaseInv
    <3>8. ASSUME NEW t \in tokens PROVE Fits(t)'
      <4>1. t.draw = n /\ n \in 1..Len(drawn')
        BY <1>2, <3>4, <3>6
      <4>2. PageOf(t)' = page
        BY <3>3, <3>4, <4>1 DEF PageOf
      <4>3. PICK i \in DOMAIN buttons : t.button = buttons[i]
        BY <3>6
      <4> QED BY <3>1, <4>1, <4>2, <4>3 DEF GoodPage, Fits
    <3>9. \A t \in entries' : Fits(t)'
      BY <2>3, <3>2, <3>8
    <3>10. \A k \in DOMAIN screen' : \A t \in screen'[k].buttons : t.draw \in 1..Len(drawn')
      <4>1. \A t \in tokens : t.draw \in 1..Len(drawn')
        BY <1>2, <3>4, <3>6
      <4>2. \A k \in DOMAIN screen : \A t \in screen[k].buttons : t.draw \in 1..Len(drawn')
        BY <1>1, <1>2 DEF PageInv
      <4> QED BY <3>2, <4>1, <4>2
    <3>11. ASSUME NEW i \in DOMAIN drawn', drawn'[i].page.of = "purge"
           PROVE  Toggled' \/ \E line \in PurgeLines' : line.everything = drawn'[i].page.everything
      <4>1. page.of = "purge" =>
              Toggled' \/ \E line \in PurgeLines' : line.everything = page.everything
        BY <1>1, <3>1, AskedStays DEF GoodPage
      <4>2. drawn'[n].page = page
        BY <3>3, <3>4
      <4>3. CASE i = n
        BY <3>11, <4>1, <4>2, <4>3
      <4>4. CASE i \in DOMAIN drawn
        BY <1>8, <3>11, <4>4 DEF Asked, AskedFor
      <4> QED BY <3>4, <4>3, <4>4
    <3>12. \A i \in DOMAIN drawn' : Asked(i)'
      BY <3>11 DEF Asked, AskedFor
    <3> QED BY <1>6, <3>7, <3>9, <3>10, <3>12 DEF PageInv
  <2> QED BY <2>1, <2>4, <2>5
<1>10. CASE Expire \/ Crash
  <2>1. /\ drawn' = drawn /\ screen' = screen /\ entries' \subseteq entries
        /\ aged' \in 0..Len(drawn)
    <3>1. CASE Expire
      <4>1. PICK n \in DOMAIN drawn : Outlived(n)
        BY <3>1 DEF Expire
      <4>2. n \in 0..Len(drawn)
        BY <1>1
      <4> QED BY <4>1, <4>2 DEF Outlived
    <3>2. CASE Crash
      <4>1. aged' = Len(drawn)
        BY <3>2 DEF Crash
      <4> QED BY <1>1, <3>2, <4>1 DEF Crash
    <3> QED BY <1>10, <3>1, <3>2
  <2>2. IsFiniteSet(entries')
    BY <1>1, <2>1, FS_Subset DEF BaseInv
  <2>3. BaseInv'
    BY <1>1, <1>2, <1>3, <1>4, <1>5, <2>1, <2>2 DEF BaseInv
  <2>4. \A t \in entries' : Fits(t)'
    BY <1>7, <2>1 DEF PageInv
  <2>5. \A k \in DOMAIN screen' : \A t \in screen'[k].buttons : t.draw \in 1..Len(drawn')
    BY <2>1 DEF PageInv
  <2>6. \A n \in DOMAIN drawn' : Asked(n)'
    BY <1>8, <2>1
  <2> QED BY <1>6, <2>3, <2>4, <2>5, <2>6 DEF PageInv
<1> QED BY <1>9, <1>10, PagesMove

LEMMA PageInit == InboundInit => PageInv
<1> SUFFICES ASSUME InboundInit PROVE PageInv
  OBVIOUS
<1>1. /\ log = <<>> /\ drawn = <<>> /\ screen = <<>> /\ queue = <<>> /\ jobs = <<>>
      /\ entries = {} /\ aged = 0 /\ handled = 0 /\ confirmed = 0
  BY DEF InboundInit, PagesInit
<1>2. IsSeq(<<>>) /\ Len(<<>>) = 0 /\ DOMAIN <<>> = {}
  BY Empty
<1>3. IsFiniteSet({})
  BY FS_EmptySet
<1> QED BY <1>1, <1>2, <1>3 DEF PageInv, BaseInv


\* A press is on record for good, and means what it meant.
LEMMA PressStays ==
  ASSUME PageInv, [InboundNext]_vars, NEW n \in 1..Len(log), NEW t, t.draw \in 1..Len(drawn),
         PressedBy(n, t)
  PROVE  PressedBy(n, t)'
<1>1. BaseInv /\ Grows(drawn, drawn') /\ Grows(log, log')
  BY DrawnGrows, LogGrows DEF PageInv
<1>2. log'[n] = log[n] /\ log[n].token = t /\ Admits(t, log[n].by)
  BY <1>1 DEF Grows, PressedBy
<1>3. Admits(t, log[n].by)'
  <2>1. drawn'[t.draw] = drawn[t.draw]
    BY <1>1 DEF Grows
  <2> QED BY <1>2, <2>1 DEF Admits
<1> QED BY <1>2, <1>3 DEF PressedBy, Admits

LEMMA ShownStep ==
  ASSUME PageInv, ShownButtonsWork, [InboundNext]_vars
  PROVE  ShownButtonsWork'
<1>1. /\ BaseInv /\ PageInv' /\ Grows(drawn, drawn') /\ Grows(log, log')
      /\ Len(drawn) \in Nat /\ Len(log) \in Nat /\ handled \in 0..Len(log)
  BY DrawnGrows, LogGrows, PageInvStep, SeqShape DEF PageInv, BaseInv
<1> SUFFICES ASSUME NEW m \in DOMAIN screen', NEW t \in screen'[m].buttons, t.draw > aged',
                    ~(\E n \in 1..handled' : PressedBy(n, t)')
             PROVE  t \in entries'
  BY DEF ShownButtonsWork
<1>2. t.draw \in 1..Len(drawn')
  BY <1>1 DEF PageInv
<1>3. CASE Crash
  <2>1. aged' = Len(drawn')
    BY <1>3 DEF Crash
  <2>2. Len(drawn') \in Nat
    BY <1>1, SeqShape DEF Grows
  <2> QED BY <1>2, <2>1, <2>2
<1>4. ASSUME ~Crash, t.draw \in 1..Len(drawn)
      PROVE  ~\E n \in 1..handled : PressedBy(n, t)
  <2> SUFFICES ASSUME NEW n \in 1..handled, PressedBy(n, t) PROVE FALSE
    OBVIOUS
  <2>1. handled' >= handled /\ handled' \in Nat
    BY <1>4, HandledStep, <1>1 DEF PageInv, BaseInv
  <2>2. n \in 1..Len(log) /\ n \in 1..handled'
    BY <1>1, <2>1
  <2>3. PressedBy(n, t)'
    BY <1>4, <2>2, PressStays
  <2> QED BY <2>2, <2>3
<1>5. CASE Expire
  <2>1. PICK n \in DOMAIN drawn : Outlived(n)
    BY <1>5 DEF Expire
  <2>2. CASE Crash
    BY <1>3, <2>2
  <2>3. CASE ~Crash
    <3>1. /\ drawn' = drawn /\ screen' = screen /\ aged' = n /\ n \in (aged + 1)..Len(drawn)
          /\ entries' = {e \in entries : e.draw > n} /\ aged \in Nat
      BY <1>1, <2>1 DEF Outlived, BaseInv
    <3>2. t.draw \in 1..Len(drawn) /\ t.draw > aged
      BY <1>1, <1>2, <3>1
    <3>3. t \in entries
      BY <1>4, <2>3, <3>1, <3>2 DEF ShownButtonsWork
    <3> QED BY <3>1, <3>3
  <2> QED BY <2>2, <2>3
<1>6. CASE Moving /\ ~Crash
  <2>1. PICK live : LiveAfter(live) /\ aged' = aged /\ (StayPage(live) \/ Drawing(live))
    BY <1>6 DEF Moving
  <2>2. live \subseteq entries'
    BY <2>1 DEF StayPage, Drawing, NewPage
  <2>3. \/ t \in entries'
        \/ m \in DOMAIN screen /\ screen'[m] = screen[m]
    BY <2>1 DEF StayPage, Drawing, NewPage
  <2>4. CASE m \in DOMAIN screen /\ screen'[m] = screen[m]
    <3>1. t.draw \in 1..Len(drawn) /\ t \in screen[m].buttons
      BY <2>4 DEF PageInv
    <3>2. t \in entries
      BY <1>4, <1>6, <2>1, <2>4, <3>1 DEF ShownButtonsWork
    <3>3. CASE live = entries
      BY <2>2, <3>2, <3>3
    <3>4. CASE Spending /\ live = entries \ {Update.token}
      <4>1. CASE t = Update.token
        <5>1. /\ handled < Len(log) /\ log[handled + 1].kind = "press"
              /\ handled' = handled + 1 /\ Admits(t, log[handled + 1].by)
          BY <3>4, <4>1 DEF Spending, Handling, Update
        <5>2. handled + 1 \in 1..Len(log) /\ handled + 1 \in 1..handled'
          BY <1>1, <5>1
        <5> DEFINE n == handled + 1
        <5>3. PressedBy(n, t)
          BY <4>1, <5>1 DEF PressedBy, Update
        <5> HIDE DEF n
        <5>4. \A k \in 1..Len(log) : PressedBy(k, t) => ~(k \in 1..handled')
          BY <3>1, PressStays
        <5> QED BY <5>2, <5>3, <5>4 DEF n
      <4>2. CASE t # Update.token
        BY <2>2, <3>2, <3>4, <4>2
      <4> QED BY <4>1, <4>2
    <3> QED BY <2>1, <3>3, <3>4 DEF LiveAfter
  <2> QED BY <2>3, <2>4
<1> QED BY <1>3, <1>5, <1>6, PagesMove

(* A button the chat shows works until somebody it admits presses it, it   *)
(* is too old, or the process is a new one: Pages::take gives an entry up  *)
(* to nobody else, a page that is drawn or rewritten takes none of another *)
(* page's, and a full table only leaves buttons off the page it is drawing *)
(* (dialog.rs).                                                            *)
THEOREM ShownButtonsGoOnWorking == InboundSpec => []ShownButtonsWork
<1>1. InboundInit => PageInv /\ ShownButtonsWork
  <2>1. InboundInit => screen = <<>>
    BY DEF InboundInit, PagesInit
  <2> QED BY <2>1, PageInit DEF ShownButtonsWork
<1>2. PageInv /\ ShownButtonsWork /\ [InboundNext]_vars => (PageInv /\ ShownButtonsWork)'
  BY PageInvStep, ShownStep
<1> QED BY <1>1, <1>2, PTL DEF InboundSpec


-----------------------------------------------------------------------------
(***************************************************************************)
(* Purges                                                                  *)
(***************************************************************************)
\* No entry comes back: those a step adds are of the page it draws.
LEMMA EntriesStep ==
  ASSUME PageInv, [InboundNext]_vars
  PROVE  \A t \in entries' : t \in entries \/ t.draw = Len(drawn) + 1
<1>1. CASE Moving
  <2>1. PICK live : LiveAfter(live) /\ (StayPage(live) \/ Drawing(live))
    BY <1>1 DEF Moving
  <2>2. live \subseteq entries
    BY <2>1 DEF LiveAfter
  <2>3. CASE StayPage(live)
    BY <2>2, <2>3 DEF StayPage
  <2>4. CASE Drawing(live)
    <3>1. PICK buttons : IsSeq(buttons) /\ entries' = live \cup Tokens(buttons, live)
      BY <2>4 DEF Drawing, NewPage, GoodPage
    <3> QED BY <2>2, <3>1, TokensFinite
  <2> QED BY <2>1, <2>3, <2>4
<1>2. CASE Expire \/ Crash
  BY <1>2 DEF Expire, Outlived, Crash
<1> QED BY <1>1, <1>2, PagesMove

\* What a purge in the accumulation goes back to.
Line(i) == /\ Cause(i).kind = "command" /\ Cause(i).line.yes
           /\ queue[i].range = Cause(i).line.range
Confirmation(i) == /\ Cause(i).kind = "press" /\ Cause(i).token.button.do = "confirm"
                   /\ Admits(Cause(i).token, Cause(i).by)
                   /\ queue[i].range = PageOf(Cause(i).token).range
Grounds(i) == /\ queue[i].cause \in DOMAIN log
              /\ Line(i) \/ Confirmation(i)
              /\ AskedFor(queue[i].everything)

PurgesInv ==
  /\ PageInv
  /\ \A i \in Purges :
       /\ Grounds(i)
       /\ Cause(i).kind = "press" =>
            /\ Cause(i).token \notin entries
            /\ \A j \in Purges : Cause(j).token = Cause(i).token => j = i

LEMMA PurgesInvImplies == PurgesInv => APurgeIsAskedForOnce
BY DEF PurgesInv, APurgeIsAskedForOnce, Grounds, Line, Confirmation, AskedFor

LEMMA GroundsStay ==
  ASSUME PageInv, [InboundNext]_vars, Grows(queue, queue'), NEW i \in DOMAIN queue, Grounds(i)
  PROVE  Grounds(i)' /\ Cause(i)' = Cause(i) /\ queue'[i] = queue[i]
<1>1. BaseInv /\ Grows(drawn, drawn') /\ Grows(log, log')
  BY DrawnGrows, LogGrows DEF PageInv
<1>2. queue'[i] = queue[i]
  BY GrownPlaces
<1>3. /\ queue[i].cause \in DOMAIN log /\ queue[i].cause \in DOMAIN log'
      /\ log'[queue[i].cause] = log[queue[i].cause]
  BY <1>1, GrownPlaces DEF Grounds
<1>4. Cause(i)' = Cause(i)
  BY <1>2, <1>3 DEF Cause
<1>5. Line(i) => Line(i)'
  BY <1>2, <1>4 DEF Line
<1>6. Confirmation(i) => Confirmation(i)'
  <2> SUFFICES ASSUME Confirmation(i) PROVE Confirmation(i)'
    OBVIOUS
  <2> DEFINE u == Cause(i)
             t == u.token
  <2>1. u.kind = "press" /\ u = log[queue[i].cause]
    BY DEF Confirmation, Cause
  <2>2. t.draw \in 1..Len(drawn)
    BY <1>3, <2>1 DEF PageInv
  <2>3. drawn'[t.draw] = drawn[t.draw]
    BY <1>1, <2>2 DEF Grows
  <2>4. /\ u.token.button.do = "confirm" /\ drawn[t.draw].audience \in {Anybody, u.by}
        /\ queue[i].range = drawn[t.draw].page.range
    BY DEF Confirmation, Admits, PageOf
  <2>5. Cause(i)' = u
    BY <1>4
  <2> HIDE DEF u
  <2> QED BY <1>2, <2>1, <2>3, <2>4, <2>5 DEF Confirmation, Admits, PageOf
<1>7. AskedFor(queue[i].everything)'
  <2>1. AskedFor(queue[i].everything)
    BY DEF Grounds
  <2>2. Toggled' \/ \E line \in PurgeLines' : line.everything = queue[i].everything
    BY <1>1, <2>1, AskedStays
  <2> QED BY <1>2, <2>2 DEF AskedFor
<1> QED BY <1>2, <1>3, <1>4, <1>5, <1>6, <1>7 DEF Grounds

\* The one purge a step may queue.
NewPurge(n) ==
  /\ n = Len(queue) + 1 /\ n \in DOMAIN queue' /\ Grounds(n)'
  /\ Cause(n)' = Update
  /\ \/ Update.kind = "command"
     \/ Update.kind = "press" /\ Update.token \in entries /\ Update.token \notin entries'

LEMMA PurgeQueued ==
  ASSUME PageInv, [InboundNext]_vars, PurgeLine \/ PressPurge
  PROVE  \/ queue' = queue
         \/ Grows(queue, queue') /\ \E n : NewPurge(n) /\ Len(queue') = n
<1>1. /\ BaseInv /\ Grows(drawn, drawn') /\ Grows(log, log') /\ IsSeq(log)
      /\ Len(log) \in Nat /\ DOMAIN log = 1..Len(log) /\ handled \in 0..Len(log)
      /\ IsSeq(queue) /\ Len(queue) \in Nat
  BY DrawnGrows, LogGrows, SeqShape DEF PageInv, BaseInv
<1>0. PICK n : n = Len(queue) + 1
  OBVIOUS
<1>2. ASSUME NEW range, NEW everything, Queued(<<PurgeEntry(range, everything)>>),
             handled < Len(log)
      PROVE  /\ Grows(queue, queue') /\ Len(queue') = n /\ n \in DOMAIN queue'
             /\ queue'[n].range = range /\ queue'[n].everything = everything
             /\ queue'[n].cause \in DOMAIN log /\ Cause(n)' = Update
             /\ queue'[n].cause \in DOMAIN log'
  <2> DEFINE e == PurgeEntry(range, everything)
  <2>1. e.cause = handled + 1 /\ e.range = range /\ e.everything = everything
    BY EntryFields
  <2>2. queue' = queue \o <<e>>
    BY <1>2 DEF Queued
  <2> HIDE DEF e
  <2>3. Len(queue') = n /\ queue'[n] = e /\ Grows(queue, queue')
    BY <1>0, <1>1, <2>2, QueuesOne
  <2>4. DOMAIN queue' = 1..n /\ n \in 1..n
    BY <1>0, <1>1, <2>3, SeqShape DEF Grows
  <2>5. handled + 1 \in DOMAIN log
    BY <1>1, <1>2
  <2>6. handled + 1 \in DOMAIN log' /\ log'[handled + 1] = log[handled + 1]
    BY <1>1, <2>5, GrownPlaces
  <2> QED BY <1>1, <2>1, <2>3, <2>4, <2>5, <2>6 DEF Cause, Update
<1>3. CASE PurgeLine /\ queue' # queue
  <2> DEFINE line == Update.line
  <2>1. /\ handled < Len(log) /\ Update.kind = "command" /\ line.of = "purge" /\ line.yes
        /\ Queued(<<PurgeEntry(line.range, line.everything)>>)
    BY <1>3 DEF PurgeLine, Handling
  <2>2. /\ Grows(queue, queue') /\ Len(queue') = n /\ n \in DOMAIN queue'
        /\ queue'[n].range = line.range /\ queue'[n].everything = line.everything
        /\ queue'[n].cause \in DOMAIN log' /\ Cause(n)' = Update
    BY <1>2, <2>1
  <2>3. line \in PurgeLines
    <3>1. handled + 1 \in DOMAIN log
      BY <1>1, <2>1
    <3> QED BY <2>1, <3>1 DEF PurgeLines, Update
  <2>4. Toggled' \/ \E l \in PurgeLines' : l.everything = line.everything
    BY <1>1, <2>3, AskedStays DEF AskedFor
  <2>5. Line(n)'
    BY <2>1, <2>2 DEF Line
  <2>6. AskedFor(queue[n].everything)'
    <3> HIDE DEF line
    <3> QED BY <2>2, <2>4 DEF AskedFor
  <2> HIDE DEF line
  <2>7. Grounds(n)'
    BY <2>2, <2>5, <2>6 DEF Grounds
  <2> QED BY <1>0, <2>1, <2>2, <2>7 DEF NewPurge
<1>4. CASE PressPurge /\ queue' # queue
  <2>1. Pressed("purge") /\ Does("confirm") /\ Queued(<<PurgeEntry(State.range, State.everything)>>)
        /\ \E page : Settle(Update.on, page, Left)
    BY <1>4 DEF PressPurge
  <2> DEFINE u == Update
             t == u.token
  <2>2. /\ handled < Len(log) /\ u.kind = "press" /\ t \in entries /\ Admits(t, u.by)
        /\ Left = entries \ {t}
    BY <2>1 DEF Pressed, Handling, Spent, Spends, Left
  <2>3. /\ Grows(queue, queue') /\ Len(queue') = n /\ n \in DOMAIN queue'
        /\ queue'[n].range = State.range /\ queue'[n].everything = State.everything
        /\ queue'[n].cause \in DOMAIN log' /\ Cause(n)' = u
    BY <1>2, <2>1, <2>2
  <2>4. AskedFor(State.everything) /\ Fits(t) /\ State = drawn[t.draw].page
    BY <2>1, PressedPage
  <2>5. drawn' = drawn /\ t \notin entries'
    BY <2>1, <2>2 DEF Settle
  <2>6. Toggled' \/ \E l \in PurgeLines' : l.everything = State.everything
    BY <1>1, <2>4, AskedStays
  <2>7. t.button.do = "confirm" /\ drawn'[t.draw].audience \in {Anybody, u.by}
        /\ queue'[n].range = drawn'[t.draw].page.range
    BY <2>1, <2>2, <2>3, <2>4, <2>5 DEF Does, Admits
  <2> HIDE DEF u
  <2>8. Confirmation(n)'
    BY <2>2, <2>3, <2>7 DEF Confirmation, Admits, PageOf
  <2>9. AskedFor(queue[n].everything)'
    BY <2>3, <2>6 DEF AskedFor
  <2>10. Grounds(n)'
    BY <2>3, <2>8, <2>9 DEF Grounds
  <2> QED BY <1>0, <2>2, <2>3, <2>5, <2>10 DEF NewPurge, u
<1> QED BY <1>3, <1>4

LEMMA PurgesStep == ASSUME PurgesInv, [InboundNext]_vars PROVE PurgesInv'
<1>1. PageInv /\ PageInv' /\ BaseInv
  BY PageInvStep DEF PurgesInv, PageInv
<1>2. /\ IsSeq(queue) /\ Len(queue) \in Nat /\ DOMAIN queue = 1..Len(queue)
  BY <1>1, SeqShape DEF BaseInv
<1>3. \/ Grows(queue, queue') /\ Purges' \subseteq DOMAIN queue
      \/ /\ Grows(queue, queue')
         /\ PurgeLine \/ PressPurge
         /\ \E n : NewPurge(n) /\ Purges' \subseteq DOMAIN queue \cup {n}
  <2>1. CASE PurgeLine \/ PressPurge
    <3>1. CASE queue' = queue
      BY <1>2, <3>1, GrowsByNothing DEF Purges
    <3>2. ASSUME NEW n, Grows(queue, queue'), NewPurge(n), Len(queue') = n
          PROVE  Purges' \subseteq DOMAIN queue \cup {n}
      <4>1. DOMAIN queue' = 1..n /\ n = Len(queue) + 1
        BY <3>2, SeqShape DEF Grows, NewPurge
      <4> QED BY <1>2, <4>1 DEF Purges
    <3> QED BY <1>1, <2>1, <3>1, <3>2, PurgeQueued
  <2>2. CASE StoreMessage \/ StoreEdit
    <3> DEFINE c(m) == [Entry("created") EXCEPT !.message = m]
               d(m, at) == [Entry("edited") EXCEPT !.message = m, !.at = at]
    <3>1. \A m, at : c(m).kind = "created" /\ d(m, at).kind = "edited"
      BY DEF Entry
    <3>2. \/ queue' = queue \/ (\E m : queue' = queue \o <<c(m)>>)
          \/ \E m, at : queue' = queue \o <<d(m, at)>>
      BY <2>2 DEF StoreMessage, StoreEdit, Queued
    <3> HIDE DEF c, d
    <3>3. Queues({"created"}) \/ Queues({"edited"})
      BY <1>1, <3>1, <3>2, QueuesNothing, QueuesOne
    <3> QED BY <3>3 DEF Queues, Purges
  <2>3. CASE ~PurgeLine /\ ~PressPurge /\ ~StoreMessage /\ ~StoreEdit
    <3>1. Queues({"policy", "host"})
      BY <1>1, <2>3, QuietQueues
    <3> QED BY <3>1 DEF Queues, Purges
  <2> QED BY <2>1, <2>2, <2>3
<1>4. Grows(queue, queue')
  BY <1>3
<1>5. ASSUME NEW i \in Purges', i \in DOMAIN queue
      PROVE  i \in Purges /\ Grounds(i)' /\ Cause(i)' = Cause(i)
  <2>1. queue'[i] = queue[i]
    BY <1>4, <1>5, GrownPlaces
  <2>2. i \in Purges
    BY <1>5, <2>1 DEF Purges
  <2>3. Grounds(i)
    BY <2>2 DEF PurgesInv
  <2> QED BY <1>1, <1>4, <1>5, <2>2, <2>3, GroundsStay
<1>6. ASSUME NEW i \in Purges', i \in DOMAIN queue, Cause(i).kind = "press"
      PROVE  Cause(i).token \notin entries' /\ Cause(i).token.draw \in 1..Len(drawn)
  <2> DEFINE t == Cause(i).token
  <2>1. t \notin entries /\ queue[i].cause \in DOMAIN log
    BY <1>5, <1>6 DEF PurgesInv, Grounds
  <2>2. t.draw \in 1..Len(drawn)
    BY <1>1, <1>6, <2>1 DEF Cause, PageInv
  <2>3. Len(drawn) \in Nat
    BY <1>1, SeqShape DEF BaseInv
  <2> HIDE DEF t
  <2>4. t \notin entries'
    BY <1>1, <2>1, <2>2, <2>3, EntriesStep
  <2> QED BY <2>2, <2>4 DEF t
<1>7. CASE Purges' \subseteq DOMAIN queue
  <2>1. ASSUME NEW i \in Purges', NEW j \in Purges', Cause(i).kind = "press",
               Cause(j).token = Cause(i).token
        PROVE  j = i
    BY <1>5, <1>7, <2>1 DEF PurgesInv
  <2> QED BY <1>1, <1>5, <1>6, <1>7, <2>1 DEF PurgesInv
<1>8. ASSUME PurgeLine \/ PressPurge, NEW n, NewPurge(n), Purges' \subseteq DOMAIN queue \cup {n}
      PROVE  PurgesInv'
  <2>1. n \notin DOMAIN queue
    BY <1>2, <1>8 DEF NewPurge
  <2>2. NewPurge(n) /\ Purges' \subseteq DOMAIN queue \cup {n}
    BY <1>8
  <2>3. /\ Grounds(n)' /\ Cause(n)' = Update
        /\ \/ Update.kind = "command"
           \/ Update.kind = "press" /\ Update.token \in entries /\ Update.token \notin entries'
    BY <2>2 DEF NewPurge
  <2>4. \A i \in Purges' : Grounds(i)'
    BY <1>5, <2>2, <2>3
  <2>5. \A i \in Purges' : Cause(i)'.kind = "press" => Cause(i)'.token \notin entries'
    BY <1>5, <1>6, <2>2, <2>3
  <2>6. ASSUME NEW i \in Purges', i \in DOMAIN queue, Cause(i).kind = "press"
        PROVE  Update.token # Cause(i).token
    <3>1. Cause(i).token \notin entries /\ Cause(i).token.draw \in 1..Len(drawn)
      BY <1>5, <1>6, <2>6 DEF PurgesInv
    <3>2. Update.kind = "command" => Update.token.draw = 0
      <4>1. handled + 1 \in DOMAIN log
        <5>1. Handle
          BY <1>8 DEF Handle
        <5> QED BY <1>1, <5>1, HandledStep
      <4> QED BY <1>1, <4>1 DEF PageInv, Update
    <3>3. Len(drawn) \in Nat
      BY <1>1, SeqShape DEF BaseInv
    <3> QED BY <2>3, <3>1, <3>2, <3>3
  <2>7. ASSUME NEW i \in Purges', NEW j \in Purges', Cause(i)'.kind = "press",
               Cause(j)'.token = Cause(i)'.token
        PROVE  j = i
    <3>1. CASE i \in DOMAIN queue /\ j \in DOMAIN queue
      BY <1>5, <2>7, <3>1 DEF PurgesInv
    <3>2. CASE i \in DOMAIN queue /\ j = n
      BY <1>5, <2>3, <2>6, <2>7, <3>2
    <3>3. CASE i = n /\ j \in DOMAIN queue
      <4>1. Cause(j)' = Cause(j) /\ j \in Purges
        BY <1>5, <3>3
      <4>2. Cause(j).token = Update.token /\ Update.kind = "press" /\ Update.token \in entries
        BY <2>3, <2>7, <3>3, <4>1
      <4>3. CASE Cause(j).kind = "press"
        BY <2>6, <3>3, <4>2, <4>3
      <4>4. CASE Cause(j).kind # "press"
        <5>1. queue[j].cause \in DOMAIN log
          BY <4>1 DEF PurgesInv, Grounds
        <5>2. Cause(j).token.draw = 0
          BY <1>1, <4>4, <5>1 DEF PageInv, Cause
        <5>3. Update.token.draw \in 1..Len(drawn) /\ Len(drawn) \in Nat
          BY <1>1, <4>2, SeqShape DEF PageInv, BaseInv, Fits
        <5> QED BY <4>2, <5>2, <5>3
      <4> QED BY <4>3, <4>4
    <3> QED BY <2>2, <3>1, <3>2, <3>3
  <2> QED BY <1>1, <2>4, <2>5, <2>7 DEF PurgesInv
<1> QED BY <1>3, <1>7, <1>8

(* A purge that was queued was asked for, by a complete line or by the one *)
(* press that confirmed a page, with the stretch and the surfaces it named *)
(* (purge/mod.rs and purge/dialog.rs): the entry of the table is taken     *)
(* before anything is queued, a page that is drawn anew has entries of its *)
(* own, and so no second press finds the one that was used, not even after *)
(* a crash gave the updates again.                                         *)
THEOREM PurgesAreAskedForOnce == InboundSpec => []APurgeIsAskedForOnce
<1>1. InboundInit => PurgesInv
  <2>1. InboundInit => DOMAIN queue = {}
    BY DEF InboundInit
  <2> QED BY <2>1, PageInit DEF PurgesInv, Purges
<1>2. PurgesInv /\ [InboundNext]_vars => PurgesInv'
  BY PurgesStep
<1> QED BY <1>1, <1>2, PurgesInvImplies, PTL DEF InboundSpec


-----------------------------------------------------------------------------
(***************************************************************************)
(* Reports                                                                 *)
(***************************************************************************)
Stated == \A i \in DOMAIN jobs : "state" \in DOMAIN jobs[i]

ReportInv == PageInv /\ Stated /\ ARefusedReportCanBeAskedForAgain

Restated(i, state) == jobs' = [jobs EXCEPT ![i].state = state]

LEMMA StateSet ==
  ASSUME IsSeq(jobs), Stated, NEW i, NEW state, Restated(i, state)
  PROVE  /\ Stated'
         /\ \A k \in DOMAIN jobs' : /\ k \in DOMAIN jobs
                                    /\ k # i => jobs'[k] = jobs[k]
                                    /\ k = i => jobs'[k].state = state
<1>1. \A k \in DOMAIN jobs' : /\ k \in DOMAIN jobs
                              /\ k # i => jobs'[k] = jobs[k]
                              /\ k = i => jobs'[k] = [jobs[i] EXCEPT !.state = state]
  BY JobSet DEF Restated
<1>2. ASSUME NEW k \in DOMAIN jobs', k = i
      PROVE  "state" \in DOMAIN jobs'[k] /\ jobs'[k].state = state
  <2>1. "state" \in DOMAIN jobs[i] /\ jobs'[k] = [jobs[i] EXCEPT !.state = state]
    BY <1>1, <1>2 DEF Stated
  <2> QED BY <2>1
<1> QED BY <1>1, <1>2 DEF Stated

\* A button goes on holding the report it holds.
LEMMA HeldOn ==
  ASSUME PageInv, [InboundNext]_vars, NEW t \in entries, NEW i, HoldsReport(t, i)
  PROVE  HoldsReport(t, i)'
<1>1. BaseInv /\ Grows(drawn, drawn') /\ t.draw \in 1..Len(drawn)
  BY DrawnGrows DEF PageInv, Fits
<1>2. PageOf(t)' = PageOf(t)
  BY <1>1, PageStays
<1> QED BY <1>2 DEF HoldsReport

\* Nothing but a delivery takes a button that delivers, as long as it is good.
LEMMA DeliverStays ==
  ASSUME PageInv, [InboundNext]_vars, ~PressDeliver, ~Expire, ~Crash,
         NEW t \in entries, t.button.do = "deliver"
  PROVE  t \in entries'
<1>1. PICK live : LiveAfter(live) /\ (StayPage(live) \/ Drawing(live))
  BY PagesMove DEF Moving
<1>2. t \in live
  BY <1>1 DEF LiveAfter, Spending
<1> QED BY <1>1, <1>2 DEF StayPage, Drawing, NewPage

\* The first button of a page that keeps a report finds room, when there is any.
LEMMA FirstToken ==
  ASSUME NEW live, IsFiniteSet(live), Room(live) > 0, NEW buttons, IsSeq(buttons),
         Len(buttons) > 0
  PROVE  Token(Len(drawn) + 1, buttons[1]) \in Tokens(buttons, live)
<1>1. Room(live) \in Int
  BY FS_CardinalityType, PagesAssumption DEF Room
<1>2. 1 \in DOMAIN buttons /\ 1 <= Room(live)
  <2>1. DOMAIN buttons = 1..Len(buttons) /\ Len(buttons) \in Nat
    BY SeqShape
  <2> QED BY <1>1, <2>1
<1> QED BY <1>2 DEF Tokens

\* A refused delivery leaves the report with a button, or has lost it.
LEMMA RefusedHeld ==
  ASSUME ReportInv, [InboundNext]_vars, NEW i, NEW live, live \subseteq entries,
         \A t \in entries \ live : ~\E k : k # i /\ HoldsReport(t, k),
         Refused(i, live), NEW page, NEW audience, NewPage(page, Buttons(page), audience, live),
         page.of = "digest", page.stage = "undelivered", page.report = i
  PROVE  Stated' /\ ARefusedReportCanBeAskedForAgain'
<1>1. PageInv /\ Stated /\ BaseInv /\ IsFiniteSet(live)
  BY FS_Subset DEF ReportInv, PageInv, BaseInv
<1>2. PICK to :
        to = IF jobs[i].state = "delivered" THEN jobs[i].state
             ELSE IF Room(live) > 0 \/ \E t \in live : HoldsReport(t, i) THEN "refused"
             ELSE "lost"
  OBVIOUS
<1>3. /\ jobs' = [jobs EXCEPT ![i].state = to]
      /\ to = "refused" => Room(live) > 0 \/ \E t \in live : HoldsReport(t, i)
  <2>1. jobs' = [jobs EXCEPT ![i].state = to]
    BY <1>2 DEF Refused
  <2>2. to = "refused" => Room(live) > 0 \/ \E t \in live : HoldsReport(t, i)
    BY <1>2
  <2> QED BY <2>1, <2>2
<1>4. /\ Stated'
      /\ \A k \in DOMAIN jobs' : /\ k \in DOMAIN jobs
                                 /\ k # i => jobs'[k] = jobs[k]
                                 /\ k = i => jobs'[k].state = to
  <2>1. IsSeq(jobs) /\ Stated /\ Restated(i, to)
    BY <1>1, <1>3 DEF BaseInv, Restated
  <2> QED BY <2>1, StateSet
<1>5. live \subseteq entries' /\ entries' = live \cup Tokens(Buttons(page), live)
  BY DEF NewPage
<1>6. ASSUME NEW k \in DOMAIN jobs', jobs'[k].state = "refused", k # i
      PROVE  \E t \in entries' : HoldsReport(t, k)'
  <2>1. PICK t \in entries : HoldsReport(t, k)
    BY <1>4, <1>6 DEF ReportInv, ARefusedReportCanBeAskedForAgain
  <2>2. t \in live
    BY <1>6, <2>1
  <2> QED BY <1>1, <1>5, <2>1, <2>2, HeldOn
<1>7. ASSUME NEW t \in live, HoldsReport(t, i)
      PROVE  \E s \in entries' : HoldsReport(s, i)'
  BY <1>1, <1>5, <1>7, HeldOn
<1>8. ASSUME Room(live) > 0 PROVE \E t \in entries' : HoldsReport(t, i)'
  <2>1. IsSeq(Buttons(page)) /\ Len(Buttons(page)) > 0 /\ Buttons(page)[1].do = "deliver"
    BY DigestDo DEF Do
  <2>2. PICK n : n = Len(drawn) + 1
    OBVIOUS
  <2> DEFINE t == Token(n, Buttons(page)[1])
  <2>3. t \in entries'
    BY <1>1, <1>5, <1>8, <2>1, <2>2, FirstToken
  <2>4. t.draw = n /\ t.button.do = "deliver"
    BY <2>1 DEF Token
  <2>5. drawn'[n] = [page |-> page, audience |-> audience]
    BY <1>1, <2>2, Pushed DEF NewPage, BaseInv
  <2> HIDE DEF t
  <2>6. PageOf(t)' = page
    BY <2>4, <2>5 DEF PageOf
  <2> QED BY <2>3, <2>4, <2>6 DEF HoldsReport
<1>9. ASSUME NEW k \in DOMAIN jobs', jobs'[k].state = "refused"
      PROVE  \E t \in entries' : HoldsReport(t, k)'
  <2>1. CASE k = i
    BY <1>3, <1>4, <1>7, <1>8, <1>9, <2>1
  <2>2. CASE k # i
    BY <1>6, <1>9, <2>2
  <2> QED BY <2>1, <2>2
<1> QED BY <1>4, <1>9 DEF ARefusedReportCanBeAskedForAgain

LEMMA SentHeld ==
  ASSUME ReportInv, [InboundNext]_vars, NEW i, NEW live, live \subseteq entries,
         \A t \in entries \ live : ~\E k : k # i /\ HoldsReport(t, k),
         NEW m, NEW to, Send(i, m, to, live)
  PROVE  Stated' /\ ARefusedReportCanBeAskedForAgain'
<1>1. PageInv /\ Stated /\ BaseInv
  BY DEF ReportInv, PageInv
<1>2. CASE jobs' = [jobs EXCEPT ![i].state = "delivered"] /\ entries' = live
  <2>1. /\ Stated'
        /\ \A k \in DOMAIN jobs' : /\ k \in DOMAIN jobs
                                   /\ k # i => jobs'[k] = jobs[k]
                                   /\ k = i => jobs'[k].state = "delivered"
    BY <1>1, <1>2, StateSet DEF BaseInv, Restated
  <2>2. ASSUME NEW k \in DOMAIN jobs', jobs'[k].state = "refused"
        PROVE  \E t \in entries' : HoldsReport(t, k)'
    <3>1. k # i /\ k \in DOMAIN jobs /\ jobs[k].state = "refused"
      BY <2>1, <2>2
    <3>2. PICK t \in entries : HoldsReport(t, k)
      BY <3>1 DEF ReportInv, ARefusedReportCanBeAskedForAgain
    <3>3. t \in live
      BY <3>1, <3>2
    <3> QED BY <1>1, <1>2, <3>2, <3>3, HeldOn
  <2> QED BY <2>1, <2>2 DEF ARefusedReportCanBeAskedForAgain
<1>3. CASE /\ Refused(i, live)
           /\ Redraw(m, Undelivered(i, to), Buttons(Undelivered(i, to)), Anybody, live, 1)
  <2> DEFINE page == Undelivered(i, to)
  <2>1. page.of = "digest" /\ page.stage = "undelivered" /\ page.report = i
    BY DEF Undelivered, Digest, Blank
  <2> HIDE DEF page
  <2>2. NewPage(page, Buttons(page), Anybody, live)
    BY <1>1, <1>3, RedrawDraws DEF page
  <2> QED BY <1>3, <2>1, <2>2, RefusedHeld
<1> QED BY <1>2, <1>3 DEF Send

LEMMA ReportStep == ASSUME ReportInv, [InboundNext]_vars PROVE ReportInv'
<1>1. PageInv /\ PageInv' /\ Stated /\ BaseInv /\ IsSeq(jobs)
  BY PageInvStep DEF ReportInv, PageInv, BaseInv
<1>2. CASE PressDeliver
  <2>1. Pressed("digest") /\ Update.token.button.do = "deliver"
    BY <1>2 DEF PressDeliver, Does
  <2>2. /\ Update.token \in entries /\ State.of = "digest" /\ State.stage = "undelivered"
        /\ Left = entries \ {Update.token}
    BY <1>1, <2>1, PressedPage DEF Pressed, Spent, Spends, Left
  <2>3. /\ Left \subseteq entries
        /\ \A t \in entries \ Left : ~\E k : k # State.report /\ HoldsReport(t, k)
    BY <2>2 DEF HoldsReport, State
  <2>4. CASE Turns(State) /\ Refused(State.report, Left)
    <3>1. NewPage(State, Buttons(State), drawn[Update.token.draw].audience, Left)
      BY <1>1, <2>4, RedrawDraws DEF Turns
    <3>2. PICK page, report, audience, live :
            page = State /\ report = State.report /\ live = Left
              /\ audience = drawn[Update.token.draw].audience
      OBVIOUS
    <3>3. NewPage(page, Buttons(page), audience, live) /\ Refused(report, live)
      BY <2>4, <3>1, <3>2
    <3> QED BY <1>1, <2>2, <2>3, <3>2, <3>3, RefusedHeld DEF ReportInv
  <2>5. ASSUME NEW to, Send(State.report, Update.on, to, Left) PROVE ReportInv'
    BY <1>1, <2>3, <2>5, SentHeld DEF ReportInv
  <2> QED BY <1>2, <2>4, <2>5 DEF PressDeliver
<1>3. CASE Expire
  <2>1. PICK n \in DOMAIN drawn :
          /\ Outlived(n)
          /\ jobs' = Ending(LAMBDA i : jobs[i].state = "refused"
                              /\ ~\E t \in entries : t.draw > n /\ HoldsReport(t, i))
    BY <1>3 DEF Expire
  <2>2. \A i \in DOMAIN jobs' :
          /\ i \in DOMAIN jobs
          /\ IF jobs[i].state = "refused" /\ ~\E t \in entries : t.draw > n /\ HoldsReport(t, i)
             THEN jobs'[i] = [jobs[i] EXCEPT !.state = "lost"] ELSE jobs'[i] = jobs[i]
    BY <2>1 DEF Ending
  <2>3. Stated'
    BY <1>1, <2>2 DEF Stated
  <2>4. ASSUME NEW i \in DOMAIN jobs', jobs'[i].state = "refused"
        PROVE  \E t \in entries' : HoldsReport(t, i)'
    <3>1. i \in DOMAIN jobs /\ "state" \in DOMAIN jobs[i]
      BY <1>1, <2>2 DEF Stated
    <3>2. jobs[i].state = "refused" /\ \E t \in entries : t.draw > n /\ HoldsReport(t, i)
      <4>1. [jobs[i] EXCEPT !.state = "lost"].state = "lost"
        BY <3>1
      <4>2. jobs'[i] # [jobs[i] EXCEPT !.state = "lost"]
        BY <2>4, <4>1
      <4>3. /\ ~(jobs[i].state = "refused"
                   /\ ~\E t \in entries : t.draw > n /\ HoldsReport(t, i))
            /\ jobs'[i] = jobs[i]
        BY <2>2, <3>1, <4>2
      <4> QED BY <2>4, <4>3
    <3>3. PICK t \in entries : t.draw > n /\ HoldsReport(t, i)
      BY <3>2
    <3>4. t \in entries'
      BY <2>1, <3>3 DEF Outlived
    <3> QED BY <1>1, <3>3, <3>4, HeldOn
  <2> QED BY <1>1, <2>3, <2>4 DEF ReportInv, ARefusedReportCanBeAskedForAgain
<1>4. CASE Crash
  <2>1. \A i \in DOMAIN jobs' :
          /\ i \in DOMAIN jobs
          /\ IF jobs[i].state \in {"running", "refused"}
             THEN jobs'[i] = [jobs[i] EXCEPT !.state = "lost"] ELSE jobs'[i] = jobs[i]
    BY <1>4 DEF Crash, Ending
  <2>2. \A i \in DOMAIN jobs' : [jobs[i] EXCEPT !.state = "lost"].state = "lost"
    BY <1>1, <2>1 DEF Stated
  <2>3. Stated'
    BY <1>1, <2>1 DEF Stated
  <2>4. \A i \in DOMAIN jobs' : jobs'[i].state # "refused"
    BY <2>1, <2>2
  <2> QED BY <1>1, <2>3, <2>4 DEF ReportInv, ARefusedReportCanBeAskedForAgain
<1>5. CASE ~PressDeliver /\ ~Expire /\ ~Crash
  <2>1. ASSUME NEW i,
               \E t \in entries : HoldsReport(t, i)
        PROVE  \E t \in entries' : HoldsReport(t, i)'
    <3>1. PICK t \in entries : HoldsReport(t, i)
      BY <2>1
    <3>2. t \in entries'
      BY <1>1, <1>5, <3>1, DeliverStays DEF HoldsReport
    <3> QED BY <1>1, <3>1, <3>2, HeldOn
  <2>2. ASSUME NEW state, state # "refused", NEW i, Restated(i, state)
        PROVE  ReportInv'
    <3>1. /\ Stated'
          /\ \A k \in DOMAIN jobs' : /\ k \in DOMAIN jobs
                                     /\ k # i => jobs'[k] = jobs[k]
                                     /\ k = i => jobs'[k].state = state
      BY <1>1, <2>2, StateSet
    <3> QED BY <1>1, <2>1, <2>2, <3>1 DEF ReportInv, ARefusedReportCanBeAskedForAgain
  <2>3. CASE \E i \in DOMAIN jobs : Report(i) \/ FailReport(i)
    <3>1. PICK i \in DOMAIN jobs : Report(i) \/ FailReport(i)
      BY <2>3
    <3>2. ASSUME Send(i, jobs[i].on, jobs[i].delivery, entries) PROVE ReportInv'
      <4>1. entries \subseteq entries
            /\ \A t \in entries \ entries : ~\E k : k # i /\ HoldsReport(t, k)
        OBVIOUS
      <4> QED BY <1>1, <3>2, <4>1, SentHeld DEF ReportInv
    <3> QED BY <2>2, <3>1, <3>2 DEF Report, FailReport, Restated
  <2>4. CASE ~\E i \in DOMAIN jobs : Report(i) \/ FailReport(i)
    <3>1. jobs' = jobs \/ \E m, range, delivery : jobs' = Append(jobs, Job(m, range, delivery))
      <4>1. CASE DigestLine \/ PressDigest
        BY <4>1 DEF DigestLine, PressDigest, Turning, Submit, Accepted
      <4>2. CASE ~(DigestLine \/ PressDigest)
        BY <1>5, <2>4, <4>2 DEF InboundNext, Handle, Act, Write, Rewrite, Command, Press, Sends,
           Fails, StoreMessage, StoreEdit, PurgeLine, PolicyLine, Missed, PressPurge,
           PressPolicy, vars
      <4> QED BY <4>1, <4>2
    <3>2. /\ Stated'
          /\ \A k \in DOMAIN jobs' : jobs'[k].state = "refused" =>
                                       k \in DOMAIN jobs /\ jobs[k].state = "refused"
      <4>1. CASE jobs' = jobs
        BY <1>1, <4>1 DEF Stated
      <4>2. ASSUME NEW job, "state" \in DOMAIN job, job.state = "running",
                   jobs' = Append(jobs, job)
            PROVE  <3>2
        <5>1. /\ DOMAIN jobs' = 1..(Len(jobs) + 1) /\ DOMAIN jobs = 1..Len(jobs)
              /\ \A k \in 1..Len(jobs) : jobs'[k] = jobs[k]
              /\ jobs'[Len(jobs) + 1] = job /\ Len(jobs) \in Nat
          BY <1>1, <4>2, Pushed, SeqShape
        <5>2. \A k \in DOMAIN jobs' : k \in DOMAIN jobs \/ k = Len(jobs) + 1
          BY <5>1
        <5> QED BY <1>1, <4>2, <5>1, <5>2 DEF Stated
      <4>3. \A m, range, delivery :
              LET job == Job(m, range, delivery)
              IN  "state" \in DOMAIN job /\ job.state = "running"
        BY DEF Job
      <4> QED BY <3>1, <4>1, <4>2, <4>3
    <3> QED BY <1>1, <2>1, <3>2 DEF ReportInv, ARefusedReportCanBeAskedForAgain
  <2> QED BY <2>3, <2>4
<1> QED BY <1>2, <1>3, <1>4, <1>5

(* A report the platform refused can be asked for again: the page it is put  *)
(* on is drawn with the report and its first button delivers                 *)
(* (digest/delivery.rs, digest/dialog.rs), only a delivery spends such a     *)
(* button, and a delivery refused again puts the report on a new page. With  *)
(* no room in the table the report counts as lost.                           *)
THEOREM RefusedReportsAreKept == InboundSpec => []ARefusedReportCanBeAskedForAgain
<1>1. InboundInit => ReportInv
  <2>1. InboundInit => DOMAIN jobs = {}
    BY DEF InboundInit
  <2> QED BY <2>1, PageInit DEF ReportInv, Stated, ARefusedReportCanBeAskedForAgain
<1>2. ReportInv /\ [InboundNext]_vars => ReportInv'
  BY ReportStep
<1>3. ReportInv => ARefusedReportCanBeAskedForAgain
  BY DEF ReportInv
<1> QED BY <1>1, <1>2, <1>3, PTL DEF InboundSpec


-----------------------------------------------------------------------------
(***************************************************************************)
(* Rows and the accumulation                                               *)
(***************************************************************************)
LEMMA MaxIs ==
  ASSUME NEW S \in SUBSET Nat, NEW x \in S, \A y \in S : y <= x
  PROVE  Max(S) = x
<1>1. x \in S /\ \A y \in S : x >= y
  OBVIOUS
<1>2. Max(S) \in S /\ \A y \in S : Max(S) >= y
  BY <1>1 DEF Max
<1>3. Max(S) >= x /\ x >= Max(S) /\ Max(S) \in Nat /\ x \in Nat
  BY <1>1, <1>2
<1> QED BY <1>3

LEMMA MaxIn ==
  ASSUME NEW S \in SUBSET Nat, IsFiniteSet(S), S # {}
  PROVE  Max(S) \in S
<1> DEFINE Above(v) == {w \in S : v < w}
           T == {Above(v) : v \in S}
<1>1. T \subseteq FiniteSubsetsOf(S) /\ T # {}
  <2>1. \A v \in S : Above(v) \in SUBSET S /\ IsFiniteSet(Above(v))
    BY FS_Subset
  <2> QED BY <2>1 DEF FiniteSubsetsOf
<1>2. IsWellFoundedOn(StrictSubsetOrdering(S), FiniteSubsetsOf(S))
  BY FS_StrictSubsetOrderingWellFounded
<1> HIDE DEF T
<1>3. PICK least \in T : \A other \in T : ~(<<other, least>> \in StrictSubsetOrdering(S))
  BY <1>1, <1>2, WFMin
<1>4. PICK v \in S : least = Above(v)
  BY <1>3 DEF T
<1>5. ASSUME NEW w \in S, ~(w <= v) PROVE FALSE
  <2>1. v < w /\ v \in Nat /\ w \in Nat
    BY <1>5
  <2>2. Above(w) \subseteq Above(v) /\ w \in Above(v) /\ w \notin Above(w)
    <3>1. \A x \in S : w < x => v < x
      BY <2>1
    <3>2. ~(w < w)
      BY <2>1
    <3> QED BY <2>1, <3>1, <3>2
  <2>3. Above(w) \in T
    BY DEF T
  <2>4. <<Above(w), Above(v)>> \in StrictSubsetOrdering(S)
    BY <2>2 DEF StrictSubsetOrdering
  <2> QED BY <1>3, <1>4, <2>3, <2>4
<1>6. Max(S) = v
  BY <1>5, MaxIs
<1> QED BY <1>6

\* Times are numbers, and what is written or edited is one of the messages.
Timed == \A n \in DOMAIN log :
  /\ log[n].at \in Nat
  /\ log[n].kind \in {"message", "edit"} => log[n].message \in Messages

LEMMA TimedStep == ASSUME PageInv, Timed, [InboundNext]_vars PROVE Timed'
<1>1. IsSeq(log) /\ DOMAIN log = 1..Len(log) /\ Len(log) \in Nat
  BY SeqShape DEF PageInv, BaseInv
<1>2. CASE log' = log
  BY <1>2 DEF Timed
<1>3. CASE Sent
  <2>1. PICK u : log' = Append(log, u) /\ Fresh(u)
    BY <1>3 DEF Sent
  <2>2. /\ DOMAIN log' = 1..(Len(log) + 1) /\ log'[Len(log) + 1] = u
        /\ \A n \in 1..Len(log) : log'[n] = log[n]
    BY <1>1, <2>1, Pushed
  <2>3. u.at \in Nat
    <3>1. CASE u.kind # "edit"
      BY <2>1, <3>1 DEF Fresh
    <3>2. CASE u.kind = "edit"
      <4> DEFINE places == {j \in DOMAIN log : log[j].message = u.message}
                 S == {v.at : v \in About(u.message)}
                 g == [j \in places |-> log[j].at]
      <4>1. S = {log[j].at : j \in places}
        BY DEF About
      <4>2. S \subseteq Nat
        BY <4>1 DEF Timed
      <4>3. IsFiniteSet(S)
        <5>1. places \in SUBSET (1..Len(log)) /\ IsFiniteSet(1..Len(log))
          BY <1>1, FS_Interval
        <5>2. IsFiniteSet(places)
          BY <5>1, FS_Subset
        <5>3. g \in Surjection(places, S)
          BY <4>1 DEF Surjection
        <5> HIDE DEF g, S, places
        <5> QED BY <5>2, <5>3, FS_Surjection
      <4>4. u.at \in {Max(S), Max(S) + 1} /\ S # {}
        BY <2>1, <3>2 DEF Fresh
      <4> HIDE DEF S
      <4>5. Max(S) \in Nat
        BY <4>2, <4>3, <4>4, MaxIn
      <4> QED BY <4>4, <4>5
    <3> QED BY <3>1, <3>2
  <2>4. u.kind \in {"message", "edit"} => u.message \in Messages
    BY <2>1 DEF Fresh
  <2>5. \A n \in DOMAIN log' : \/ n \in DOMAIN log /\ log'[n] = log[n]
                               \/ log'[n] = u
    <3>1. \A n \in 1..(Len(log) + 1) : n \in 1..Len(log) \/ n = Len(log) + 1
      BY <1>1
    <3> QED BY <1>1, <2>2, <3>1
  <2> QED BY <2>3, <2>4, <2>5 DEF Timed
<1> QED BY <1>2, <1>3, LogStep

Row(T) == [stored : BOOLEAN, text : T, edited : Nat]
RowsTyped == \E T : rows \in [Messages -> Row(T)]

\* What the accumulation holds of message m agrees with its row.
CreatedOnce(m) ==
  /\ Told("created", m) # {} <=> rows[m].stored
  /\ \A i, j \in Told("created", m) : i = j
EditsInOrder(m) ==
  /\ \A i \in Told("edited", m) : queue[i].at \in Nat /\ queue[i].at <= rows[m].edited
  /\ \A i, j \in Told("edited", m) : i < j => queue[i].at < queue[j].at
  /\ rows[m].edited = 0 \/ \E i \in Told("edited", m) : queue[i].at = rows[m].edited

EntryInv == /\ PageInv /\ Timed /\ RowsTyped
            /\ \A m \in Messages : CreatedOnce(m) /\ EditsInOrder(m)

LEMMA EntryInvImplies == EntryInv => OneEntryPerChange
<1> SUFFICES ASSUME EntryInv, NEW m \in Messages
             PROVE  /\ Cardinality(Told("created", m)) = IF rows[m].stored THEN 1 ELSE 0
                    /\ \A i, j \in Told("edited", m) : i < j => queue[i].at < queue[j].at
                    /\ rows[m].edited = Max({0} \cup {queue[i].at : i \in Told("edited", m)})
  BY DEF OneEntryPerChange
<1>1. CreatedOnce(m) /\ EditsInOrder(m) /\ rows[m].edited \in Nat
  <2>1. PICK T : rows \in [Messages -> Row(T)]
    BY DEF EntryInv, RowsTyped
  <2> QED BY <2>1 DEF EntryInv, Row
<1>2. Cardinality(Told("created", m)) = IF rows[m].stored THEN 1 ELSE 0
  <2>1. CASE rows[m].stored
    <3>1. PICK i : Told("created", m) = {i}
      BY <1>1, <2>1 DEF CreatedOnce
    <3> QED BY <2>1, <3>1, FS_Singleton
  <2>2. CASE ~rows[m].stored
    BY <1>1, <2>2, FS_EmptySet DEF CreatedOnce
  <2> QED BY <2>1, <2>2
<1>3. rows[m].edited = Max({0} \cup {queue[i].at : i \in Told("edited", m)})
  <2> DEFINE S == {0} \cup {queue[i].at : i \in Told("edited", m)}
             x == rows[m].edited
  <2>1. S \in SUBSET Nat /\ x \in S /\ \A y \in S : y <= x
    BY <1>1 DEF EditsInOrder
  <2> HIDE DEF S, x
  <2>2. Max(S) = x
    BY <2>1, MaxIs
  <2> QED BY <2>2 DEF S, x
<1> QED BY <1>1, <1>2, <1>3 DEF EditsInOrder

LEMMA ToldSame ==
  ASSUME NEW kinds, Queues(kinds), NEW kind, kind \notin kinds, NEW m
  PROVE  Told(kind, m)' = Told(kind, m) /\ \A i \in Told(kind, m) : queue'[i] = queue[i]
<1>1. \A i \in DOMAIN queue : i \in DOMAIN queue' /\ queue'[i] = queue[i]
  BY GrownPlaces DEF Queues
<1>2. \A i \in DOMAIN queue' : i \in DOMAIN queue \/ queue'[i].kind \in kinds
  BY DEF Queues
<1> QED BY <1>1, <1>2 DEF Told

\* One entry more of a kind: of one message, and of no other.
LEMMA ToldOne ==
  ASSUME BaseInv, NEW e, queue' = queue \o <<e>>, NEW n, n = Len(queue) + 1
  PROVE  /\ n \in Int /\ \A i \in DOMAIN queue : i \in Int /\ i < n /\ queue'[i] = queue[i]
         /\ n \in DOMAIN queue' /\ queue'[n] = e /\ DOMAIN queue' = DOMAIN queue \cup {n}
<1>2. Len(queue') = n /\ queue'[n] = e /\ Grows(queue, queue')
  BY QueuesOne
<1>3. Len(queue) \in Nat /\ DOMAIN queue = 1..Len(queue) /\ DOMAIN queue' = 1..n
  BY <1>2, SeqShape DEF BaseInv, Grows
<1>4. \A i \in DOMAIN queue : i \in Int /\ i < n /\ queue'[i] = queue[i]
  BY <1>2, <1>3, GrownPlaces
<1>5. DOMAIN queue' = DOMAIN queue \cup {n}
  BY <1>3
<1> QED BY <1>2, <1>3, <1>4, <1>5

LEMMA StoreStep ==
  ASSUME EntryInv, [InboundNext]_vars, StoreMessage \/ StoreEdit
  PROVE  RowsTyped' /\ \A m \in Messages : (CreatedOnce(m) /\ EditsInOrder(m))'
<1>2. PageInv /\ BaseInv /\ Timed
  BY DEF EntryInv, PageInv
<1>3. PICK T : rows \in [Messages -> Row(T)]
  BY DEF EntryInv, RowsTyped
<1>1. PICK u : u = Update
  OBVIOUS
<1>4. u = log[handled + 1] /\ handled + 1 \in DOMAIN log
  BY <1>1, <1>2, HandledStep DEF Handle, Update
<1>5. u.message \in Messages /\ u.at \in Nat
  BY <1>1, <1>2, <1>4 DEF Timed, StoreMessage, StoreEdit, Handling
<1> DEFINE U == T \cup {u.text}
<1>6. rows \in [Messages -> Row(U)]
  BY <1>3 DEF Row
<1> HIDE DEF U
<1>7. u.text \in U
  BY DEF U
<1>8. \A m \in Messages : CreatedOnce(m) /\ EditsInOrder(m)
  BY DEF EntryInv
<1> DEFINE Dropped == queue' = queue /\ rows' = rows
           Refreshed == queue' = queue /\ rows' = [rows EXCEPT ![u.message].text = u.text]
           Created ==
             /\ ~rows[u.message].stored
             /\ rows' = [rows EXCEPT ![u.message].stored = TRUE, ![u.message].text = u.text]
             /\ queue' = queue \o <<[Entry("created") EXCEPT !.message = u.message]>>
           Edited ==
             /\ rows[u.message].edited < u.at
             /\ rows' = [rows EXCEPT ![u.message].text = u.text, ![u.message].edited = u.at]
             /\ queue' = queue \o <<[Entry("edited") EXCEPT !.message = u.message, !.at = u.at]>>
<1>9. CASE Dropped
  <2>1. \A kind, m : Told(kind, m)' = Told(kind, m)
    BY <1>9 DEF Told
  <2> QED BY <1>6, <1>8, <1>9, <2>1 DEF RowsTyped, CreatedOnce, EditsInOrder
<1>10. CASE Refreshed
  <2>1. \A kind, m : Told(kind, m)' = Told(kind, m)
    BY <1>10 DEF Told
  <2>2. rows' \in [Messages -> Row(U)]
    BY <1>5, <1>6, <1>7, <1>10 DEF Row
  <2>3. \A m \in Messages : rows'[m].stored = rows[m].stored /\ rows'[m].edited = rows[m].edited
    BY <1>5, <1>6, <1>10 DEF Row
  <2> QED BY <1>8, <1>10, <2>1, <2>2, <2>3 DEF RowsTyped, CreatedOnce, EditsInOrder
<1>11. CASE Created
  <2>1. PICK e : e = [Entry("created") EXCEPT !.message = u.message]
    OBVIOUS
  <2>2. e.kind = "created" /\ e.message = u.message
    BY <2>1 DEF Entry
  <2>3. queue' = queue \o <<e>>
    BY <1>11, <2>1
  <2>4. rows' \in [Messages -> Row(U)]
    BY <1>5, <1>6, <1>7, <1>11 DEF Row
  <2>5. \A m \in Messages : /\ rows'[m].stored = (rows[m].stored \/ m = u.message)
                            /\ rows'[m].edited = rows[m].edited
    BY <1>5, <1>6, <1>11 DEF Row
  <2>6. PICK n : n = Len(queue) + 1
    OBVIOUS
  <2>7. /\ n \in Int /\ \A i \in DOMAIN queue : i \in Int /\ i < n /\ queue'[i] = queue[i]
        /\ n \in DOMAIN queue' /\ queue'[n] = e /\ DOMAIN queue' = DOMAIN queue \cup {n}
    BY <1>2, <2>3, <2>6, ToldOne
  <2>8. ASSUME NEW m \in Messages PROVE EditsInOrder(m)'
    <3>1. /\ Told("edited", m)' = Told("edited", m)
          /\ \A i \in Told("edited", m) : queue'[i] = queue[i]
      BY <2>2, <2>7 DEF Told
    <3> QED BY <1>8, <2>5, <3>1 DEF EditsInOrder
  <2>9. ASSUME NEW m \in Messages PROVE CreatedOnce(m)'
    <3>1. /\ e.message = m => Told("created", m)' = Told("created", m) \cup {n}
          /\ e.message # m => Told("created", m)' = Told("created", m)
      BY <2>2, <2>7 DEF Told
    <3>2. CASE m = u.message
      <4>1. Told("created", m) = {}
        BY <1>8, <1>11, <3>2 DEF CreatedOnce
      <4>2. Told("created", m)' = {n} /\ rows'[m].stored
        BY <2>2, <2>5, <3>1, <3>2, <4>1
      <4> QED BY <4>2 DEF CreatedOnce
    <3>3. CASE m # u.message
      <4>1. Told("created", m)' = Told("created", m)
        BY <2>2, <3>1, <3>3
      <4>2. rows'[m].stored <=> rows[m].stored
        BY <2>5, <3>3
      <4> QED BY <1>8, <4>1, <4>2 DEF CreatedOnce
    <3> QED BY <3>2, <3>3
  <2> QED BY <2>4, <2>8, <2>9 DEF RowsTyped
<1>12. CASE Edited
  <2>1. PICK e : e = [Entry("edited") EXCEPT !.message = u.message, !.at = u.at]
    OBVIOUS
  <2>2. e.kind = "edited" /\ e.message = u.message /\ e.at = u.at
    BY <2>1 DEF Entry
  <2>3. queue' = queue \o <<e>>
    BY <1>12, <2>1
  <2>4. rows' \in [Messages -> Row(U)]
    BY <1>5, <1>6, <1>7, <1>12 DEF Row
  <2>5. \A m \in Messages :
          /\ rows'[m].stored = rows[m].stored
          /\ rows'[m].edited = IF m = u.message THEN u.at ELSE rows[m].edited
          /\ rows[m].edited \in Nat
    BY <1>5, <1>6, <1>12 DEF Row
  <2>6. PICK n : n = Len(queue) + 1
    OBVIOUS
  <2>7. /\ n \in Int /\ \A i \in DOMAIN queue : i \in Int /\ i < n /\ queue'[i] = queue[i]
        /\ n \in DOMAIN queue' /\ queue'[n] = e /\ DOMAIN queue' = DOMAIN queue \cup {n}
    BY <1>2, <2>3, <2>6, ToldOne
  <2>8. ASSUME NEW m \in Messages PROVE CreatedOnce(m)'
    <3>1. Told("created", m)' = Told("created", m)
      BY <2>2, <2>7 DEF Told
    <3> QED BY <1>8, <2>5, <3>1 DEF CreatedOnce
  <2>9. ASSUME NEW m \in Messages PROVE EditsInOrder(m)'
    <3>1. /\ e.message = m => Told("edited", m)' = Told("edited", m) \cup {n}
          /\ e.message # m => Told("edited", m)' = Told("edited", m)
      BY <2>2, <2>7 DEF Told
    <3>2. \A i \in Told("edited", m) : i < n /\ queue'[i] = queue[i] /\ i \in Int
      BY <2>7 DEF Told
    <3>3. CASE m = u.message
      <4>1. /\ Told("edited", m)' = Told("edited", m) \cup {n} /\ queue'[n].at = u.at
            /\ rows'[m].edited = u.at /\ rows[m].edited < u.at /\ rows[m].edited \in Nat
        BY <1>12, <2>2, <2>5, <2>7, <3>1, <3>3
      <4>2. \A i \in Told("edited", m) : /\ queue'[i].at \in Nat /\ queue'[i].at < u.at
                                         /\ i < n /\ i \in Int
        <5>1. \A i \in Told("edited", m) : queue[i].at \in Nat /\ queue[i].at <= rows[m].edited
          BY <1>8 DEF EditsInOrder
        <5> QED BY <1>5, <3>2, <4>1, <5>1
      <4>3. \A i, j \in Told("edited", m) : i < j => queue'[i].at < queue'[j].at
        BY <1>8, <3>2 DEF EditsInOrder
      <4>4. n \in Told("edited", m)' /\ n \notin Told("edited", m)
        BY <3>2, <4>1
      <4>5. n \in Int
        BY <2>7
      <4>6. ASSUME NEW i \in Told("edited", m)', NEW j \in Told("edited", m)', i < j
            PROVE  queue'[i].at < queue'[j].at
        <5>1. i \in Told("edited", m)
          BY <4>1, <4>2, <4>5, <4>6
        <5> QED BY <4>1, <4>2, <4>3, <4>6, <5>1
      <4>7. \A i \in Told("edited", m)' : queue'[i].at \in Nat /\ queue'[i].at <= rows'[m].edited
        BY <1>5, <4>1, <4>2
      <4> QED BY <4>1, <4>4, <4>6, <4>7 DEF EditsInOrder
    <3>4. CASE m # u.message
      <4>1. Told("edited", m)' = Told("edited", m) /\ rows'[m].edited = rows[m].edited
        BY <2>2, <2>5, <3>1, <3>4
      <4> QED BY <1>8, <3>2, <4>1 DEF EditsInOrder
    <3> QED BY <3>3, <3>4
  <2> QED BY <2>4, <2>8, <2>9 DEF RowsTyped
<1>13. StoreMessage => Refreshed \/ Created
  BY <1>1 DEF StoreMessage, Known, Queued
<1>14. StoreEdit => Dropped \/ Edited
  BY <1>1 DEF StoreEdit, Known, Newer, Queued
<1> HIDE DEF Dropped, Refreshed, Created, Edited
<1> QED BY <1>9, <1>10, <1>11, <1>12, <1>13, <1>14

LEMMA EntryStep == ASSUME EntryInv, [InboundNext]_vars PROVE EntryInv'
<1>1. PageInv /\ PageInv' /\ BaseInv /\ Timed'
  BY PageInvStep, TimedStep DEF EntryInv, PageInv
<1>2. CASE StoreMessage \/ StoreEdit
  BY <1>1, <1>2, StoreStep DEF EntryInv
<1>3. CASE ~(StoreMessage \/ StoreEdit)
  <2>1. \E kinds : Queues(kinds) /\ "created" \notin kinds /\ "edited" \notin kinds /\ rows' = rows
    <3>1. CASE PurgeLine \/ PressPurge
      <4>1. PICK range, everything :
              queue' = queue \/ queue' = queue \o <<PurgeEntry(range, everything)>>
        BY <3>1 DEF PurgeLine, PressPurge, Queued
      <4> DEFINE e == PurgeEntry(range, everything)
      <4>2. e.kind = "purge"
        BY EntryFields
      <4> HIDE DEF e
      <4>3. queue' = queue \/ queue' = queue \o <<e>>
        BY <4>1 DEF e
      <4>4. Queues({"purge"})
        BY <1>1, <4>2, <4>3, QueuesNothing, QueuesOne
      <4>5. rows' = rows
        BY <3>1 DEF PurgeLine, PressPurge
      <4> QED BY <4>4, <4>5
    <3>2. CASE ~(PurgeLine \/ PressPurge)
      <4>1. Queues({"policy", "host"}) /\ rows' = rows
        BY <1>1, <1>3, <3>2, QuietQueues
      <4> QED BY <4>1
    <3> QED BY <3>1, <3>2
  <2>2. PICK kinds :
          Queues(kinds) /\ "created" \notin kinds /\ "edited" \notin kinds /\ rows' = rows
    BY <2>1
  <2>3. RowsTyped'
    BY <2>2 DEF EntryInv, RowsTyped
  <2>4. ASSUME NEW m \in Messages PROVE CreatedOnce(m)' /\ EditsInOrder(m)'
    <3>1. /\ Told("created", m)' = Told("created", m) /\ Told("edited", m)' = Told("edited", m)
          /\ \A i \in Told("edited", m) : queue'[i] = queue[i]
      BY <2>2, ToldSame
    <3>2. CreatedOnce(m) /\ EditsInOrder(m)
      BY DEF EntryInv
    <3> QED BY <2>2, <3>1, <3>2 DEF CreatedOnce, EditsInOrder
  <2> QED BY <1>1, <2>3, <2>4 DEF EntryInv
<1> QED BY <1>2, <1>3

(* The rows and the accumulation agree (IngestRepo::apply): a message has  *)
(* one entry for its creation exactly when there is a row of it, and one   *)
(* for every edit its row went through, in the order of the edits' times,  *)
(* whatever the platform gives again and in whatever order people wrote.   *)
THEOREM ChangesAreQueuedOnce == InboundSpec => []OneEntryPerChange
<1>1. InboundInit => EntryInv
  <2> SUFFICES ASSUME InboundInit PROVE EntryInv
    OBVIOUS
  <2>1. DOMAIN log = {} /\ DOMAIN queue = {}
        /\ rows = [m \in Messages |-> [stored |-> FALSE, text |-> 0, edited |-> 0]]
    BY DEF InboundInit
  <2>2. rows \in [Messages -> Row({0})]
    BY <2>1 DEF Row
  <2>3. \A kind, m : Told(kind, m) = {}
    BY <2>1 DEF Told
  <2>4. \A m \in Messages : ~rows[m].stored /\ rows[m].edited = 0
    BY <2>1
  <2>5. \A m \in Messages : CreatedOnce(m) /\ EditsInOrder(m)
    BY <2>3, <2>4 DEF CreatedOnce, EditsInOrder
  <2> QED BY <2>1, <2>2, <2>5, PageInit DEF EntryInv, Timed, RowsTyped
<1>2. EntryInv /\ [InboundNext]_vars => EntryInv'
  BY EntryStep
<1> QED BY <1>1, <1>2, EntryInvImplies, PTL DEF InboundSpec
=============================================================================
