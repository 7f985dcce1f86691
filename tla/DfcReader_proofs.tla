--------------------------- MODULE DfcReader_proofs ---------------------------
(***************************************************************************)
(* Theorems about DfcReader, for every set of cards, with and without a UID  *)
(* that fits, and every list of files.  The state properties hold together:  *)
(* a card is one card because its verdict is single, a verdict is single     *)
(* because the callback runs on the Read screen only and Read is entered     *)
(* with no verdict waiting, unless it is overdue; and a Read entered over an  *)
(* empty queue of entries leaves no verdict behind a later entry.            *)
(***************************************************************************)
EXTENDS DfcReader, SequenceTheorems, TLAPS, WellFoundedInduction

-----------------------------------------------------------------------------
(* The few stacks there are.                                                 *)
BehindMain == Append(MainMenuOnly, "Elsewhere")
OnRead == Append(MainMenuOnly, "Read")
OnSuccess == Append(OnRead, "ReadSuccess")
OnError == Append(OnRead, "ReadError")
OnSave == Append(OnSuccess, "SaveName")
OnMenu == Append(OnSuccess, "SavedMenu")
BehindSave == Append(OnSave, "Elsewhere")
BehindMenu == Append(OnMenu, "Elsewhere")
AfterSuccess == {OnSuccess, OnSave, OnMenu, BehindSave, BehindMenu}
Stacks == {MainMenuOnly, BehindMain, OnRead, OnError} \cup AfterSuccess

Pop(stk) == SubSeq(stk, 1, Len(stk) - 1)

Waiting(e) == Has(queue, e)
NoVerdict == ~Waiting(PollerError) /\ ~Waiting(PollerSuccess)
Unique ==
  \A i, j \in 1..Len(queue) : queue[i] \in Verdicts /\ queue[j] \in Verdicts => i = j
\* No verdict waits behind a press of the entry.
InOrder ==
  \A i, j \in 1..Len(queue) : queue[i] = ReadChosen /\ queue[j] \in Verdicts => j < i

CardRead == credential = Cleared \/ (card \in Cards /\ OneCardIn(credential))

Shape ==
  /\ stack \in Stacks
  /\ leaving \in {<<>>, MainMenuOnly, OnSuccess, OnError}
  /\ leaving # <<>> => stack = OnRead
  /\ entry \in {"fresh", "again", "overdue"}

Typed ==
  /\ queue \in Seq(Event)
  /\ poller \in {"none", "running", "stopped"}
  /\ pc \in {"idle", "select", "challenge", "respond", "read", "free"}
  /\ card \in Cards \cup {NoCard}
  /\ next \in Nat
  /\ reader \in BOOLEAN /\ messaging \in BOOLEAN
  /\ credential \in [app: BOOLEAN, uid: Owner, file: [Files -> Owner]]

Session ==
  /\ messaging => reader
  /\ reader <=> pc # "idle"
  /\ pc # "idle" => poller = "running"
  /\ poller # "none" => stack = OnRead

\* What the running attempt has read so far, and what no attempt touches.
Progress ==
  /\ pc # "idle" => card \in Cards /\ (card \in Fitting => credential.uid = card)
  /\ pc \in {"challenge", "respond", "read"} => credential.app
  /\ pc \in {"select", "challenge", "respond", "read"} =>
       \A j \in Primary : j < next => credential.file[j] = card
  /\ credential.app => \A j \in Files \ Primary : credential.file[j] = Template

\* Where a verdict may wait, and what a good one says.
Verdicted ==
  /\ entry = "fresh" => InOrder
  /\ entry = "fresh" /\ stack = OnRead => ~Waiting(ReadChosen)
  /\ entry # "overdue" =>
       /\ stack \in {OnError} \cup AfterSuccess => NoVerdict
       /\ stack = OnRead /\ leaving = <<>> =>
            /\ Unique
            /\ ~NoVerdict => poller = "stopped" \/ pc = "free"
            /\ Waiting(PollerSuccess) => CardRead
       /\ leaving \in {OnSuccess, OnError} =>
            NoVerdict /\ (poller = "stopped" \/ pc = "free")
       /\ leaving = OnSuccess \/ stack \in AfterSuccess => CardRead

IInv == Shape /\ Typed /\ Session /\ Progress /\ Verdicted

\* What pushing a scene does to a stack.
LEMMA Pushing ==
  ASSUME NEW s \in Seq(Scene), NEW x \in Scene
  PROVE  /\ Append(s, x) \in Seq(Scene) /\ Append(s, x) # <<>>
         /\ Len(Append(s, x)) = Len(s) + 1 /\ Len(s) \in Nat
         /\ Top(Append(s, x)) = x
         /\ Pop(Append(s, x)) = s
         /\ Has(Append(s, x), "ReadSuccess") => Has(s, "ReadSuccess") \/ x = "ReadSuccess"
<1> DEFINE t == Append(s, x)
<1>1. /\ t \in Seq(Scene) /\ Len(t) = Len(s) + 1 /\ Len(s) \in Nat
      /\ \A i \in 1..Len(s) : t[i] = s[i]
      /\ t[Len(s) + 1] = x
  BY AppendProperties, LenProperties
<1>2. t # <<>>
  BY <1>1, EmptySeq
<1>3. DOMAIN t = 1..Len(t) /\ DOMAIN s = 1..Len(s)
  BY <1>1, LenProperties
<1> HIDE DEF t
<1>4. Top(t) = x
  BY <1>1 DEF Top
<1>5. Pop(t) = s
  <2>1. \A i \in 1..Len(s) : t[i] \in Scene
    BY <1>1, ElementOfSeq
  <2>2. /\ SubSeq(t, 1, Len(s)) \in Seq(Scene) /\ Len(SubSeq(t, 1, Len(s))) = Len(s)
        /\ \A i \in 1..Len(s) : SubSeq(t, 1, Len(s))[i] = t[i]
    BY <1>1, <2>1, SubSeqProperties
  <2>3. SubSeq(t, 1, Len(s)) = s
    BY <1>1, <2>2, SeqEqual
  <2> QED
    BY <1>1, <2>3 DEF Pop
<1>6. Has(t, "ReadSuccess") => Has(s, "ReadSuccess") \/ x = "ReadSuccess"
  BY <1>1, <1>3 DEF Has
<1> QED
  BY <1>1, <1>2, <1>4, <1>5, <1>6 DEF t

LEMMA TheStacks ==
  /\ Top(MainMenuOnly) = "MainMenu" /\ Top(OnRead) = "Read" /\ Top(OnError) = "ReadError"
  /\ Top(OnSuccess) = "ReadSuccess" /\ Top(OnSave) = "SaveName" /\ Top(OnMenu) = "SavedMenu"
  /\ Top(BehindMain) = "Elsewhere" /\ Top(BehindSave) = "Elsewhere"
  /\ Top(BehindMenu) = "Elsewhere"
  /\ Pop(OnError) = OnRead /\ Pop(OnSave) = OnSuccess /\ Pop(OnMenu) = OnSuccess
  /\ Pop(BehindMain) = MainMenuOnly /\ Pop(BehindSave) = OnSave /\ Pop(BehindMenu) = OnMenu
  /\ BehindMain \notin AfterSuccess
  /\ \A stk \in Stacks : stk \in Seq(Scene) /\ stk # <<>>
  /\ \A stk \in Stacks : Has(stk, "ReadSuccess") => stk \in AfterSuccess
<1> DEFINE Fine(stk) == stk \in Seq(Scene) /\ stk # <<>>
           Seen(stk) == Has(stk, "ReadSuccess")
           Push(stk, x) == Append(stk, x)
<1>0. Fine(MainMenuOnly) /\ Top(MainMenuOnly) = "MainMenu" /\ ~Seen(MainMenuOnly)
  BY DEF MainMenuOnly, Scene, Top, Has
<1>1. \A stk, x : Fine(stk) /\ x \in Scene =>
        /\ Fine(Push(stk, x)) /\ Top(Push(stk, x)) = x /\ Pop(Push(stk, x)) = stk
        /\ Seen(Push(stk, x)) => Seen(stk) \/ x = "ReadSuccess"
  BY Pushing
<1>2. /\ "Read" \in Scene /\ "ReadSuccess" \in Scene /\ "ReadError" \in Scene
      /\ "SaveName" \in Scene /\ "SavedMenu" \in Scene /\ "Elsewhere" \in Scene
  BY DEF Scene
<1>3. /\ BehindMain = Push(MainMenuOnly, "Elsewhere") /\ OnRead = Push(MainMenuOnly, "Read")
      /\ OnSuccess = Push(OnRead, "ReadSuccess") /\ OnError = Push(OnRead, "ReadError")
      /\ OnSave = Push(OnSuccess, "SaveName") /\ OnMenu = Push(OnSuccess, "SavedMenu")
      /\ BehindSave = Push(OnSave, "Elsewhere") /\ BehindMenu = Push(OnMenu, "Elsewhere")
  BY DEF BehindMain, OnRead, OnSuccess, OnError, OnSave, OnMenu, BehindSave, BehindMenu
<1> HIDE DEF Fine, Seen, Push
<1>4. Fine(OnRead) /\ Top(OnRead) = "Read" /\ ~Seen(OnRead)
  BY <1>0, <1>1, <1>2, <1>3
<1>5. /\ Fine(OnError) /\ Top(OnError) = "ReadError" /\ Pop(OnError) = OnRead
      /\ ~Seen(OnError)
  BY <1>1, <1>2, <1>3, <1>4
<1>6. /\ Fine(BehindMain) /\ Top(BehindMain) = "Elsewhere" /\ Pop(BehindMain) = MainMenuOnly
      /\ ~Seen(BehindMain)
  BY <1>0, <1>1, <1>2, <1>3
<1>7. Fine(OnSuccess) /\ Top(OnSuccess) = "ReadSuccess"
  BY <1>1, <1>2, <1>3, <1>4
<1>8. Fine(OnSave) /\ Top(OnSave) = "SaveName" /\ Pop(OnSave) = OnSuccess
  BY <1>1, <1>2, <1>3, <1>7
<1>9. Fine(OnMenu) /\ Top(OnMenu) = "SavedMenu" /\ Pop(OnMenu) = OnSuccess
  BY <1>1, <1>2, <1>3, <1>7
<1>10. Fine(BehindSave) /\ Top(BehindSave) = "Elsewhere" /\ Pop(BehindSave) = OnSave
  BY <1>1, <1>2, <1>3, <1>8
<1>11. Fine(BehindMenu) /\ Top(BehindMenu) = "Elsewhere" /\ Pop(BehindMenu) = OnMenu
  BY <1>1, <1>2, <1>3, <1>9
<1>12. BehindMain \notin AfterSuccess
  <2>1. /\ BehindMain # OnSuccess /\ BehindMain # OnSave /\ BehindMain # OnMenu
        /\ BehindMain # BehindSave /\ BehindMain # BehindMenu
    BY <1>0, <1>6, <1>7, <1>8, <1>9, <1>10, <1>11
  <2> QED
    BY <2>1 DEF AfterSuccess
<1>13. \A stk \in Stacks : Fine(stk)
  BY <1>0, <1>4, <1>5, <1>6, <1>7, <1>8, <1>9, <1>10, <1>11 DEF Stacks, AfterSuccess
<1>14. \A stk \in Stacks : Seen(stk) => stk \in AfterSuccess
  BY <1>0, <1>4, <1>5, <1>6 DEF Stacks
<1> QED
  BY <1>0, <1>4, <1>5, <1>6, <1>7, <1>8, <1>9, <1>10, <1>11, <1>12, <1>13, <1>14 DEF Fine, Seen

\* Which of them each scene is the top of.
LEMMA StackOfScene ==
  ASSUME NEW stk \in Stacks
  PROVE  /\ Top(stk) = "MainMenu" <=> stk = MainMenuOnly
         /\ Top(stk) = "Read" <=> stk = OnRead
         /\ Top(stk) = "ReadError" <=> stk = OnError
         /\ Top(stk) = "ReadSuccess" <=> stk = OnSuccess
         /\ Top(stk) = "SaveName" <=> stk = OnSave
         /\ Top(stk) = "SavedMenu" <=> stk = OnMenu
         /\ Top(stk) = "Elsewhere" <=> stk \in {BehindMain, BehindSave, BehindMenu}
BY TheStacks DEF Stacks, AfterSuccess

-----------------------------------------------------------------------------
(* The queue.                                                                *)
LEMMA Posted ==
  ASSUME queue \in Seq(Event), NEW e \in Event, queue' = Append(queue, e)
  PROVE  /\ queue' \in Seq(Event)
         /\ \A x : Waiting(x)' <=> Waiting(x) \/ x = e
         /\ NoVerdict \/ (Unique /\ e \notin Verdicts) => Unique'
         /\ InOrder /\ (e \notin Verdicts \/ ~Waiting(ReadChosen)) => InOrder'
<1>1. /\ queue' \in Seq(Event) /\ Len(queue') = Len(queue) + 1 /\ Len(queue) \in Nat
      /\ \A i \in 1..Len(queue) : queue'[i] = queue[i]
      /\ queue'[Len(queue) + 1] = e
  BY AppendProperties, LenProperties
<1>2. 1..Len(queue') = 1..Len(queue) \cup {Len(queue) + 1}
  BY <1>1
<1>3. DOMAIN queue' = 1..Len(queue') /\ DOMAIN queue = 1..Len(queue)
  BY <1>1, LenProperties
<1>4. \A x : Waiting(x)' <=> Waiting(x) \/ x = e
  BY <1>1, <1>2, <1>3 DEF Waiting, Has
<1>5. NoVerdict \/ (Unique /\ e \notin Verdicts) => Unique'
  BY <1>1, <1>2, <1>3 DEF NoVerdict, Waiting, Has, Unique, Verdicts
<1>6. ReadChosen \notin Verdicts
  BY DEF ReadChosen, Verdicts, PollerError, PollerSuccess
<1>7. InOrder /\ (e \notin Verdicts \/ ~Waiting(ReadChosen)) => InOrder'
  <2> SUFFICES ASSUME InOrder, e \notin Verdicts \/ ~Waiting(ReadChosen),
                      NEW i \in 1..Len(queue'), NEW j \in 1..Len(queue'),
                      queue'[i] = ReadChosen, queue'[j] \in Verdicts
               PROVE  j < i
    BY DEF InOrder
  <2>1. CASE i \in 1..Len(queue)
    <3>1. j \in 1..Len(queue)
      BY <1>1, <1>2, <1>3, <2>1 DEF Waiting, Has
    <3> QED
      BY <1>1, <2>1, <3>1 DEF InOrder
  <2>2. CASE i = Len(queue) + 1
    BY <1>1, <1>2, <1>6, <2>2
  <2> QED
    BY <1>2, <2>1, <2>2
<1> QED
  BY <1>1, <1>4, <1>5, <1>7

LEMMA Taken ==
  ASSUME queue \in Seq(Event), queue # <<>>, queue' = Tail(queue)
  PROVE  /\ queue' \in Seq(Event)
         /\ Head(queue) \in Event /\ Waiting(Head(queue))
         /\ \A x : Waiting(x)' => Waiting(x)
         /\ Unique => Unique'
         /\ Unique /\ Head(queue) \in Verdicts => NoVerdict'
         /\ InOrder => InOrder'
         /\ InOrder /\ Head(queue) = ReadChosen => NoVerdict'
<1>1. /\ queue' \in Seq(Event) /\ Len(queue') = Len(queue) - 1
      /\ \A i \in 1..Len(queue') : queue'[i] = queue[i + 1]
      /\ Len(queue) \in Nat \ {0}
  BY HeadTailProperties, EmptySeq, LenProperties
<1>2. Head(queue) = queue[1] /\ 1 \in 1..Len(queue)
  BY <1>1
<1>3. Head(queue) \in Event
  BY <1>2, ElementOfSeq
<1>4. \A i \in 1..Len(queue') : i + 1 \in 1..Len(queue) /\ i + 1 # 1
  BY <1>1
<1>5. DOMAIN queue' = 1..Len(queue') /\ DOMAIN queue = 1..Len(queue)
  BY <1>1, LenProperties
<1>6. \A x : Waiting(x)' => Waiting(x)
  BY <1>1, <1>4, <1>5 DEF Waiting, Has
<1>7. Unique => Unique'
  <2> SUFFICES ASSUME Unique, NEW i \in 1..Len(queue'), NEW j \in 1..Len(queue'),
                      queue'[i] \in Verdicts, queue'[j] \in Verdicts
               PROVE  i = j
    BY DEF Unique
  <2>1. i + 1 = j + 1
    BY <1>1, <1>4 DEF Unique
  <2> QED
    BY <2>1
<1>8. Unique /\ Head(queue) \in Verdicts => NoVerdict'
  <2> SUFFICES ASSUME Unique, Head(queue) \in Verdicts, NEW i \in 1..Len(queue')
               PROVE  queue'[i] \notin Verdicts
    BY <1>5 DEF NoVerdict, Waiting, Has, Verdicts
  <2> QED
    BY <1>1, <1>2, <1>4 DEF Unique
<1>9. InOrder => InOrder'
  <2> SUFFICES ASSUME InOrder, NEW i \in 1..Len(queue'), NEW j \in 1..Len(queue'),
                      queue'[i] = ReadChosen, queue'[j] \in Verdicts
               PROVE  j < i
    BY DEF InOrder
  <2>1. j + 1 < i + 1
    BY <1>1, <1>4 DEF InOrder
  <2> QED
    BY <2>1
<1>10. InOrder /\ Head(queue) = ReadChosen => NoVerdict'
  <2> SUFFICES ASSUME InOrder, Head(queue) = ReadChosen, NEW i \in 1..Len(queue')
               PROVE  queue'[i] \notin Verdicts
    BY <1>5 DEF NoVerdict, Waiting, Has, Verdicts
  <2>1. ~(i + 1 < 1)
    OBVIOUS
  <2> QED
    BY <1>1, <1>2, <1>4, <2>1 DEF InOrder
<1> QED
  BY <1>1, <1>2, <1>3, <1>5, <1>6, <1>7, <1>8, <1>9, <1>10 DEF Waiting, Has

\* The files.
LEMMA FileNumbers == Files \subseteq Nat \ {0} /\ Primary \subseteq Files
BY ReaderAssumption, LenProperties DEF Files, Primary

LEMMA SmallestFile ==
  ASSUME NEW S, S \subseteq Nat, S # {}
  PROVE  \E j \in S : \A k \in S : j <= k
<1> DEFINE R == {ss \in Nat \X Nat : ss[1] < ss[2]}
<1>1. IsWellFoundedOn(R, Nat)
  BY NatLessThanWellFounded, Zenon DEF OpToRel
<1>2. \A j, k \in Nat : k < j => <<k, j>> \in R
  OBVIOUS
<1> HIDE DEF R
<1>3. \E j \in S : \A k \in S : ~ (<<k, j>> \in R)
  BY <1>1, WFMin
<1>4. PICK j \in S : \A k \in S : ~ (<<k, j>> \in R)
  BY <1>3
<1>5. \A k \in S : ~ (k < j)
  BY <1>2, <1>4
<1> QED
  BY <1>5

-----------------------------------------------------------------------------
(* The GUI thread.                                                           *)
LEMMA PressKeepsIInv ==
  ASSUME IInv, Press
  PROVE  IInv'
<1>0. Shape /\ Typed /\ Session /\ Progress /\ Verdicted /\ queue \in Seq(Event)
  BY DEF IInv, Typed
<1>1. PICK e \in Offered(Top(stack)) : queue' = Append(queue, e)
  BY DEF Press
<1>2. /\ leaving = <<>>
      /\ UNCHANGED <<stack, leaving, entry, poller, pc, card, next, reader, messaging, credential>>
  BY DEF Press, gui, worker
<1>3. /\ ReadChosen \notin Verdicts /\ Left \notin Verdicts /\ Center \notin Verdicts
      /\ Right \notin Verdicts /\ TextInputDone \notin Verdicts
  BY DEF Verdicts, PollerError, PollerSuccess, ReadChosen, Left, Center, Right, TextInputDone
<1>4. e \in Event \ Verdicts /\ Top(stack) # "Read"
  BY <1>1, <1>3 DEF Offered, Event
<1>5. stack # OnRead
  BY <1>4, TheStacks
<1>6. /\ queue' \in Seq(Event)
      /\ \A x : Waiting(x)' <=> Waiting(x) \/ x = e
      /\ InOrder => InOrder'
  BY <1>0, <1>1, <1>4, Posted
<1>7. NoVerdict' <=> NoVerdict
  BY <1>4, <1>6 DEF NoVerdict, Verdicts
<1>8. CardRead' <=> CardRead
  BY <1>2 DEF CardRead, OneCardIn
<1>9. leaving' \notin {OnSuccess, OnError}
  BY <1>2, TheStacks DEF Stacks, AfterSuccess
<1>10. Verdicted'
  BY <1>0, <1>2, <1>5, <1>6, <1>7, <1>8, <1>9 DEF Verdicted
<1> QED
  BY <1>0, <1>2, <1>6, <1>10 DEF IInv, Shape, Typed, Session, Progress

\* Entering a scene, on the way from another one or after the poller has stopped.
LEMMA SwitchKeepsIInv ==
  ASSUME IInv, NEW stk \in Stacks, Switch(stk), UNCHANGED worker,
         pc = "idle",
         queue' \in Seq(Event),
         credential' \in [app: BOOLEAN, uid: Owner, file: [Files -> Owner]],
         credential'.app => \A j \in Files \ Primary : credential'.file[j] = Template,
         InOrder => InOrder',
         entry # "overdue" /\ stk \in {OnError} \cup AfterSuccess => NoVerdict',
         entry # "overdue" /\ stk \in AfterSuccess => CardRead'
  PROVE  IInv'
<1>0. Shape /\ Typed /\ Session /\ Progress /\ Verdicted
  BY DEF IInv
<1>1. stack' = stk /\ leaving' = <<>> /\ UNCHANGED <<pc, card, next, reader, messaging>>
  BY DEF Switch, worker
<1>2. /\ poller' \in {"none", "running"} /\ (poller' # "none" => stk = OnRead)
      /\ stk = OnRead => entry' = Entry(queue')
      /\ stk # OnRead => entry' = entry
  BY StackOfScene DEF Switch
<1>3. Entry(queue') = IF NoVerdict' THEN IF Waiting(ReadChosen)' THEN "again" ELSE "fresh"
                      ELSE "overdue"
  BY DEF Entry, NoVerdict, Waiting, Verdicts
<1>4. Shape' /\ Typed' /\ Session' /\ Progress'
  BY <1>0, <1>1, <1>2, <1>3 DEF Shape, Typed, Session, Progress
<1>5. NoVerdict' => Unique' /\ InOrder' /\ ~Waiting(PollerSuccess)'
  <2> SUFFICES ASSUME NoVerdict' PROVE Unique' /\ InOrder'
    BY DEF NoVerdict
  <2>1. \A i \in 1..Len(queue') : queue'[i] \notin Verdicts
    BY LenProperties DEF NoVerdict, Waiting, Has, Verdicts
  <2> QED
    BY <2>1 DEF Unique, InOrder
<1>6. leaving' \notin {OnSuccess, OnError} /\ OnRead \notin {OnError} \cup AfterSuccess
  BY <1>1, TheStacks DEF Stacks, AfterSuccess
<1>7. ASSUME stk = OnRead PROVE Verdicted'
  <2>1. stack' = OnRead /\ entry' = Entry(queue') /\ stack' \notin {OnError} \cup AfterSuccess
    BY <1>1, <1>2, <1>6, <1>7
  <2>2. entry' # "overdue" => NoVerdict'
    BY <1>3, <2>1
  <2>3. entry' = "fresh" => ~Waiting(ReadChosen)'
    BY <1>3, <2>1
  <2>4. NoVerdict' => ~Waiting(PollerSuccess)'
    BY DEF NoVerdict
  <2>5. entry' = "fresh" => InOrder'
    BY <1>5, <2>2
  <2> QED
    BY <1>5, <1>6, <2>1, <2>2, <2>3, <2>4, <2>5 DEF Verdicted
<1>8. ASSUME stk # OnRead PROVE Verdicted'
  <2>1. stack' = stk /\ entry' = entry /\ stack' # OnRead
    BY <1>1, <1>2, <1>8
  <2>2. entry' = "fresh" => InOrder'
    BY <1>0, <2>1 DEF Verdicted
  <2>3. entry' # "overdue" /\ stack' \in {OnError} \cup AfterSuccess => NoVerdict'
    BY <2>1
  <2>4. entry' # "overdue" /\ stack' \in AfterSuccess => CardRead'
    BY <2>1
  <2> QED
    BY <1>6, <2>1, <2>2, <2>3, <2>4 DEF Verdicted
<1> QED
  BY <1>4, <1>7, <1>8 DEF IInv

\* Where a custom event leads.
LEMMA TheWays ==
  ASSUME NEW stk \in Stacks, stack = stk, NEW e, NEW to \in Destinations(Top(stack), e)
  PROVE  \/ stk = MainMenuOnly /\ e = ReadChosen /\ to = OnRead
         \/ stk = MainMenuOnly /\ to = BehindMain
         \/ stk = OnRead /\ e = PollerSuccess /\ to = OnSuccess
         \/ stk = OnRead /\ e = PollerError /\ to = OnError
         \/ stk = OnError /\ to = OnRead
         \/ stk = OnSuccess /\ to \in {OnSave, OnMenu}
         \/ stk = OnSave /\ to \in {BehindSave, MainMenuOnly}
         \/ stk = OnMenu /\ to = BehindMenu
<1>1. CASE Top(stk) = "MainMenu"
  BY <1>1, StackOfScene DEF Destinations, Pushed, OnRead, BehindMain
<1>2. CASE Top(stk) = "Read"
  BY <1>2, StackOfScene DEF Destinations, Pushed, OnSuccess, OnError
<1>3. CASE Top(stk) = "ReadError"
  BY <1>3, StackOfScene, TheStacks DEF Destinations, Popped, Pop
<1>4. CASE Top(stk) = "ReadSuccess"
  BY <1>4, StackOfScene DEF Destinations, Pushed, OnSave, OnMenu
<1>5. CASE Top(stk) = "SaveName"
  BY <1>5, StackOfScene DEF Destinations, Pushed, BehindSave
<1>6. CASE Top(stk) = "SavedMenu"
  BY <1>6, StackOfScene DEF Destinations, Pushed, BehindMenu
<1>7. CASE Top(stk) = "Elsewhere"
  BY <1>7 DEF Destinations
<1> QED
  BY <1>1, <1>2, <1>3, <1>4, <1>5, <1>6, <1>7, TheStacks DEF Stacks, AfterSuccess

LEMMA HandleEventKeepsIInv ==
  ASSUME IInv, HandleEvent
  PROVE  IInv' /\ (entry' = "overdue" => entry # "fresh")
<1> DEFINE e == Head(queue)
           ways == Destinations(Top(stack), e)
<1>0. /\ Shape /\ Typed /\ Session /\ Progress /\ Verdicted /\ queue \in Seq(Event)
      /\ stack \in Stacks
  BY DEF IInv, Typed, Shape
<1>1. /\ leaving = <<>> /\ queue # <<>> /\ queue' = Tail(queue)
      /\ UNCHANGED <<worker, credential>>
      /\ IF ways = {} THEN UNCHANGED <<gui, poller>> ELSE \E to \in ways : LeaveTo(to)
  BY DEF HandleEvent
<1>2. /\ queue' \in Seq(Event)
      /\ e \in Event /\ Waiting(e)
      /\ \A x : Waiting(x)' => Waiting(x)
      /\ Unique => Unique'
      /\ Unique /\ e \in Verdicts => NoVerdict'
      /\ InOrder => InOrder'
      /\ InOrder /\ e = ReadChosen => NoVerdict'
  BY <1>0, <1>1, Taken
<1> HIDE DEF e
<1>3. NoVerdict => NoVerdict'
  BY <1>2 DEF NoVerdict
<1>4. UNCHANGED <<pc, card, next, reader, messaging, credential>>
  BY <1>1 DEF worker
<1>5. CardRead' <=> CardRead
  BY <1>4 DEF CardRead, OneCardIn
<1>6. CASE ways = {}
  <2>1. UNCHANGED <<stack, leaving, entry, poller>>
    BY <1>1, <1>6 DEF gui
  <2>2. Verdicted'
    BY <1>0, <1>2, <1>3, <1>4, <1>5, <2>1 DEF Verdicted, NoVerdict
  <2> QED
    BY <1>0, <1>2, <1>4, <2>1, <2>2 DEF IInv, Shape, Typed, Session, Progress
<1>7. ASSUME NEW to \in ways, LeaveTo(to), stack = OnRead
      PROVE  IInv' /\ (entry' = "overdue" => entry # "fresh")
  <2>1. leaving' = to /\ UNCHANGED <<stack, entry, poller>>
    BY <1>7, TheStacks DEF LeaveTo
  <2>2. \/ e = PollerSuccess /\ to = OnSuccess
        \/ e = PollerError /\ to = OnError
    BY <1>0, <1>7, TheWays, TheStacks
  <2>3. /\ to \in {OnSuccess, OnError} /\ to # <<>>
        /\ OnRead \notin {OnError} \cup AfterSuccess
    BY <2>2, TheStacks DEF Stacks, AfterSuccess
  <2>4. entry # "overdue" =>
          /\ NoVerdict' /\ (poller = "stopped" \/ pc = "free")
          /\ to = OnSuccess => CardRead
    <3> SUFFICES ASSUME entry # "overdue"
                 PROVE  /\ NoVerdict' /\ (poller = "stopped" \/ pc = "free")
                        /\ to = OnSuccess => CardRead
      OBVIOUS
    <3>1. e \in Verdicts /\ ~NoVerdict
      BY <1>2, <2>2 DEF Verdicts, NoVerdict
    <3>2. to = OnSuccess => Waiting(PollerSuccess)
      BY <1>2, <2>2, TheStacks
    <3> QED
      BY <1>0, <1>1, <1>2, <1>7, <3>1, <3>2 DEF Verdicted
  <2>5. Verdicted'
    <3>1. /\ stack' = OnRead /\ entry' = entry /\ leaving' = to /\ poller' = poller /\ pc' = pc
          /\ leaving' # <<>> /\ stack' \notin {OnError} \cup AfterSuccess
      BY <1>4, <1>7, <2>1, <2>3
    <3>2. entry' = "fresh" => InOrder' /\ ~Waiting(ReadChosen)'
      BY <1>0, <1>2, <1>7, <3>1 DEF Verdicted
    <3>3. entry' # "overdue" =>
            /\ NoVerdict' /\ (poller' = "stopped" \/ pc' = "free")
            /\ leaving' = OnSuccess => CardRead'
      BY <1>5, <2>4, <3>1
    <3> QED
      BY <3>1, <3>2, <3>3 DEF Verdicted
  <2>6. Shape'
    BY <1>0, <1>7, <2>1, <2>3 DEF Shape
  <2> QED
    BY <1>0, <1>2, <1>4, <2>1, <2>5, <2>6 DEF IInv, Typed, Session, Progress
<1>8. ASSUME NEW to \in ways, LeaveTo(to), stack # OnRead
      PROVE  IInv' /\ (entry' = "overdue" => entry # "fresh")
  <2>1. Switch(to)
    BY <1>0, <1>8, StackOfScene DEF LeaveTo
  <2>2. pc = "idle"
    BY <1>0, <1>8 DEF Session
  <2>3. \/ stack = MainMenuOnly /\ e = ReadChosen /\ to = OnRead
        \/ stack = OnError /\ to = OnRead
        \/ stack \in AfterSuccess /\ to \in AfterSuccess
        \/ to \in {MainMenuOnly, BehindMain}
    BY <1>0, <1>8, TheWays DEF AfterSuccess
  <2>4. to \in Stacks /\ OnRead \notin {OnError, MainMenuOnly, BehindMain} \cup AfterSuccess
        /\ OnError \notin AfterSuccess \cup {MainMenuOnly, BehindMain}
        /\ MainMenuOnly \notin AfterSuccess /\ BehindMain \notin AfterSuccess
    BY <2>3, TheStacks DEF Stacks, AfterSuccess
  <2>5. entry # "overdue" /\ to \in {OnError} \cup AfterSuccess => NoVerdict' /\ CardRead'
    BY <1>0, <1>3, <1>5, <2>3, <2>4 DEF Verdicted
  <2>6. entry = "fresh" /\ to = OnRead => NoVerdict'
    BY <1>0, <1>2, <1>3, <2>3, <2>4 DEF Verdicted
  <2>7. /\ credential' \in [app: BOOLEAN, uid: Owner, file: [Files -> Owner]]
        /\ credential'.app => \A j \in Files \ Primary : credential'.file[j] = Template
    BY <1>0, <1>4 DEF Typed, Progress
  <2>8. IInv'
    BY <1>1, <1>2, <2>1, <2>2, <2>4, <2>5, <2>7, SwitchKeepsIInv
  <2>9. entry' = "overdue" => entry # "fresh"
    <3>1. CASE to = OnRead
      <4>1. entry' = Entry(queue')
        BY <2>1, <3>1, TheStacks DEF Switch
      <4>2. NoVerdict' => Entry(queue') # "overdue"
        BY DEF Entry, NoVerdict, Waiting, Verdicts
      <4> QED
        BY <2>6, <3>1, <4>1, <4>2
    <3>2. CASE to # OnRead
      <4>1. entry' = entry
        BY <2>1, <2>4, <3>2, StackOfScene DEF Switch
      <4> QED
        BY <4>1
    <3> QED
      BY <3>1, <3>2
  <2> QED
    BY <2>8, <2>9
<1> QED
  BY <1>1, <1>6, <1>7, <1>8 DEF gui

\* The ways out of a scene that no event takes; none of them enters Read.
LEMMA WaysOutKeepIInv ==
  ASSUME IInv, BackKey \/ SavedMenuBack \/ ReturnFromElsewhere \/ StopPoller
  PROVE  IInv' /\ entry' = entry
<1>0. /\ Shape /\ Typed /\ Session /\ Progress /\ Verdicted /\ queue \in Seq(Event)
      /\ stack \in Stacks
  BY DEF IInv, Typed, Shape
<1>1. UNCHANGED worker /\ queue' = queue
  BY DEF BackKey, SavedMenuBack, ReturnFromElsewhere, StopPoller
<1>2. /\ \A x : Waiting(x)' <=> Waiting(x)
      /\ NoVerdict' <=> NoVerdict
      /\ InOrder' <=> InOrder
  BY <1>1 DEF Waiting, NoVerdict, InOrder
<1>3. OnRead \notin {OnError, MainMenuOnly, BehindMain} \cup AfterSuccess
      /\ OnError \notin {MainMenuOnly, BehindMain} \cup AfterSuccess
      /\ {MainMenuOnly, BehindMain} \cap AfterSuccess = {}
  BY TheStacks DEF AfterSuccess
<1>4. /\ Loaded \in [app: BOOLEAN, uid: Owner, file: [Files -> Owner]]
      /\ Cleared \in [app: BOOLEAN, uid: Owner, file: [Files -> Owner]]
      /\ \A j \in Files : Loaded.file[j] = Template
      /\ ~Cleared.app
  BY DEF Loaded, Cleared, HeldBy, Owner
\* A switch to a stack that is no further from the main menu.
<1>5. ASSUME NEW stk \in Stacks \ {OnRead}, Switch(stk), pc = "idle",
             \/ credential' = credential
             \/ credential' = Loaded /\ stk = MainMenuOnly
             \/ credential' = Cleared,
             entry # "overdue" /\ stk \in {OnError} \cup AfterSuccess => NoVerdict,
             entry # "overdue" /\ stk \in AfterSuccess => CardRead
      PROVE  IInv' /\ entry' = entry
  <2>1. /\ credential' \in [app: BOOLEAN, uid: Owner, file: [Files -> Owner]]
        /\ credential'.app => \A j \in Files \ Primary : credential'.file[j] = Template
    BY <1>0, <1>4, <1>5 DEF Typed, Progress
  <2>2. entry # "overdue" /\ stk \in AfterSuccess => CardRead'
    BY <1>1, <1>3, <1>5 DEF CardRead, OneCardIn, Cleared, HeldBy, worker
  <2>3. entry' = entry
    BY <1>5, StackOfScene DEF Switch
  <2> QED
    BY <1>0, <1>1, <1>2, <1>5, <2>1, <2>2, <2>3, SwitchKeepsIInv
<1>6. CASE BackKey /\ stack = OnRead
  <2>1. leaving = <<>> /\ leaving' = MainMenuOnly /\ UNCHANGED <<stack, entry, poller, credential>>
    BY <1>6, TheStacks DEF BackKey, LeaveTo
  <2>2. UNCHANGED <<pc, card, next, reader, messaging, credential>>
    BY <1>1, <2>1 DEF worker
  <2>3. MainMenuOnly \notin {<<>>, OnSuccess, OnError}
    BY <1>3, TheStacks DEF Stacks, AfterSuccess
  <2>4. Verdicted'
    BY <1>0, <1>2, <1>3, <1>6, <2>1, <2>3 DEF Verdicted
  <2> QED
    BY <1>0, <1>1, <1>6, <2>1, <2>2, <2>4 DEF IInv, Shape, Typed, Session, Progress
<1>7. CASE BackKey /\ stack # OnRead
  <2>1. pc = "idle" /\ credential' = credential
    BY <1>0, <1>7 DEF Session, BackKey
  <2>2. CASE Switch(MainMenuOnly)
    BY <1>3, <1>5, <2>1, <2>2 DEF Stacks
  <2>3. CASE stack = OnSave /\ Switch(Popped)
    <3>1. Popped = OnSuccess /\ OnSuccess \in Stacks /\ OnSuccess \in AfterSuccess
      BY <2>3, TheStacks DEF Popped, Pop, Stacks, AfterSuccess
    <3>2. entry # "overdue" => NoVerdict /\ CardRead
      BY <1>0, <2>3 DEF Verdicted, AfterSuccess
    <3> QED
      BY <1>3, <1>5, <2>1, <2>3, <3>1, <3>2
  <2> QED
    BY <1>0, <1>7, <2>2, <2>3, StackOfScene DEF BackKey, LeaveTo
<1>8. CASE SavedMenuBack
  <2>1. stack = OnMenu /\ Switch(Popped) /\ credential' = Cleared
    BY <1>0, <1>8, StackOfScene DEF SavedMenuBack, At
  <2>2. Popped = OnSuccess /\ OnSuccess \in Stacks /\ OnSuccess \in AfterSuccess
    BY <2>1, TheStacks DEF Popped, Pop, Stacks, AfterSuccess
  <2>3. stack # OnRead
    BY <2>1, TheStacks
  <2>4. pc = "idle"
    BY <1>0, <2>3 DEF Session
  <2>5. entry # "overdue" => NoVerdict /\ CardRead
    BY <1>0, <2>1 DEF Verdicted, AfterSuccess
  <2> QED
    BY <1>3, <1>5, <2>1, <2>2, <2>4, <2>5
<1>9. CASE ReturnFromElsewhere
  <2>1. stack \in {BehindMain, BehindSave, BehindMenu}
    BY <1>0, <1>9, StackOfScene DEF ReturnFromElsewhere, At
  <2>2. PICK stk \in {Popped, MainMenuOnly} :
          /\ Switch(stk)
          /\ credential' \in
               IF Top(stk) = "MainMenu" THEN {credential, Loaded, Cleared} ELSE {credential}
    BY <1>9 DEF ReturnFromElsewhere
  <2>3. \/ stk = MainMenuOnly
        \/ stack = BehindSave /\ stk = OnSave
        \/ stack = BehindMenu /\ stk = OnMenu
    BY <2>1, <2>2, TheStacks DEF Popped, Pop
  <2>4. stk \in Stacks \ {OnRead}
    BY <1>3, <2>3 DEF Stacks, AfterSuccess
  <2>5. stack # OnRead
    BY <2>1, TheStacks
  <2>6. pc = "idle"
    BY <1>0, <2>5 DEF Session
  <2>7. credential' = credential \/ (stk = MainMenuOnly /\ credential' \in {Loaded, Cleared})
    BY <2>2, <2>4, StackOfScene
  <2>8. /\ entry # "overdue" /\ stk \in AfterSuccess => NoVerdict /\ CardRead
        /\ stk # OnError
    BY <1>0, <1>3, <2>3, TheStacks DEF Verdicted, AfterSuccess
  <2> QED
    BY <1>5, <2>2, <2>4, <2>6, <2>7, <2>8
<1>10. CASE StopPoller
  <2>1. leaving # <<>> /\ pc = "idle" /\ Switch(leaving) /\ credential' = credential
    BY <1>10 DEF StopPoller
  <2>2. /\ stack = OnRead /\ leaving \in {MainMenuOnly, OnSuccess, OnError}
        /\ leaving \in Stacks \ {OnRead}
    BY <1>0, <1>3, <2>1 DEF Shape, Stacks, AfterSuccess
  <2>3. entry # "overdue" /\ leaving \in {OnError} \cup AfterSuccess => NoVerdict
    BY <1>0, <1>3, <2>2 DEF Verdicted
  <2>4. entry # "overdue" /\ leaving \in AfterSuccess => CardRead
    BY <1>0, <1>3, <2>2 DEF Verdicted
  <2> QED
    BY <1>5, <2>1, <2>2, <2>3, <2>4
<1> QED
  BY <1>6, <1>7, <1>8, <1>9, <1>10

-----------------------------------------------------------------------------
(* The worker thread.                                                        *)

\* While a read can still post its verdict none is waiting.
LEMMA WorkerAtRead ==
  ASSUME IInv, poller = "running", pc # "free"
  PROVE  /\ stack = OnRead
         /\ entry # "overdue" => leaving \in {<<>>, MainMenuOnly}
         /\ entry # "overdue" /\ leaving = <<>> => NoVerdict
         /\ entry = "fresh" => ~Waiting(ReadChosen)
BY DEF IInv, Shape, Session, Verdicted

LEMMA WorkerKeepsVerdicted ==
  ASSUME IInv, poller = "running", pc # "free",
         stack' = stack, leaving' = leaving, entry' = entry,
         \/ queue' = queue
         \/ \E e \in Verdicts :
              /\ queue' = Append(queue, e)
              /\ poller' = "stopped" \/ pc' = "free"
              /\ e = PollerSuccess => CardRead'
  PROVE  Verdicted' /\ queue' \in Seq(Event)
<1>0. /\ queue \in Seq(Event) /\ stack = OnRead
      /\ entry # "overdue" => leaving \in {<<>>, MainMenuOnly}
      /\ entry # "overdue" /\ leaving = <<>> => NoVerdict
      /\ entry = "fresh" => InOrder /\ ~Waiting(ReadChosen)
  BY WorkerAtRead DEF IInv, Typed, Verdicted
<1>1. /\ OnRead \notin {OnError} \cup AfterSuccess
      /\ {<<>>, MainMenuOnly} \cap {OnSuccess, OnError} = {}
  BY TheStacks DEF Stacks, AfterSuccess
<1>2. CASE queue' = queue
  <2>1. /\ Waiting(ReadChosen)' <=> Waiting(ReadChosen)
        /\ NoVerdict => NoVerdict' /\ ~Waiting(PollerSuccess)'
        /\ InOrder => InOrder'
    BY <1>2 DEF Waiting, NoVerdict, InOrder
  <2>2. NoVerdict => Unique'
    <3>1. NoVerdict => \A i \in 1..Len(queue') : queue'[i] \notin Verdicts
      BY <1>0, <1>2, LenProperties DEF NoVerdict, Waiting, Has, Verdicts
    <3> QED
      BY <3>1 DEF Unique
  <2> QED
    BY <1>0, <1>1, <1>2, <2>1, <2>2 DEF Verdicted
<1>3. CASE \E e \in Verdicts :
             /\ queue' = Append(queue, e)
             /\ poller' = "stopped" \/ pc' = "free"
             /\ e = PollerSuccess => CardRead'
  <2>1. PICK e \in Verdicts :
          /\ queue' = Append(queue, e)
          /\ poller' = "stopped" \/ pc' = "free"
          /\ e = PollerSuccess => CardRead'
    BY <1>3
  <2>2. e \in Event /\ e # ReadChosen
    BY <2>1 DEF Verdicts, Event, PollerError, PollerSuccess, ReadChosen
  <2>3. /\ queue' \in Seq(Event)
        /\ \A x : Waiting(x)' <=> Waiting(x) \/ x = e
        /\ NoVerdict => Unique'
        /\ InOrder /\ ~Waiting(ReadChosen) => InOrder'
    BY <1>0, <2>1, <2>2, Posted
  <2>4. NoVerdict => (Waiting(PollerSuccess)' => CardRead')
    BY <2>1, <2>3 DEF NoVerdict
  <2> QED
    BY <1>0, <1>1, <2>1, <2>2, <2>3, <2>4 DEF Verdicted
<1> QED
  BY <1>2, <1>3

\* The UID is the card's where it fits, and nothing else is touched.
LEMMA Captured ==
  ASSUME Typed, NEW c \in Cards
  PROVE  /\ CaptureUid(c) \in [app: BOOLEAN, uid: Owner, file: [Files -> Owner]]
         /\ CaptureUid(c).app = credential.app /\ CaptureUid(c).file = credential.file
         /\ c \in Fitting => CaptureUid(c).uid = c
BY DEF Typed, Owner, CaptureUid

LEMMA ReadyKeepsIInv ==
  ASSUME IInv, NEW c \in Cards, Ready(c)
  PROVE  IInv' /\ entry' = entry
<1>0. Shape /\ Typed /\ Session /\ Progress
  BY DEF IInv
<1>1. /\ poller = "running" /\ pc = "idle" /\ card' = c /\ next' = 1
      /\ credential' = CaptureUid(c)
      /\ UNCHANGED <<stack, leaving, entry, messaging>>
      /\ \/ reader' = TRUE /\ pc' = "select" /\ UNCHANGED <<queue, poller>>
         \/ /\ queue' = Append(queue, PollerError) /\ poller' = "stopped"
            /\ UNCHANGED <<pc, reader>>
  BY DEF Ready, gui
<1>2. Verdicted' /\ queue' \in Seq(Event)
  <2>1. PollerError \in Verdicts /\ PollerError # PollerSuccess
    BY DEF Verdicts, PollerError, PollerSuccess
  <2> QED
    BY <1>1, <2>1, WorkerKeepsVerdicted
<1>3. /\ credential' \in [app: BOOLEAN, uid: Owner, file: [Files -> Owner]]
      /\ credential'.app = credential.app /\ credential'.file = credential.file
      /\ c \in Fitting => credential'.uid = c
  BY <1>0, <1>1, Captured
<1>4. stack = OnRead
  BY <1>1, WorkerAtRead
<1>5. Progress'
  <2>1. \A j \in Primary : ~(j < next')
    BY <1>1, FileNumbers
  <2> QED
    BY <1>0, <1>1, <1>3, <2>1 DEF Progress
<1>6. Typed'
  BY <1>0, <1>1, <1>2, <1>3 DEF Typed
<1>7. Shape' /\ Session'
  BY <1>0, <1>1, <1>4 DEF Shape, Session, Typed
<1> QED
  BY <1>1, <1>2, <1>5, <1>6, <1>7 DEF IInv

LEMMA ProtocolErrorKeepsIInv ==
  ASSUME IInv, ProtocolError
  PROVE  IInv' /\ entry' = entry
<1>0. Shape /\ Typed /\ Session /\ Progress
  BY DEF IInv
<1>1. /\ poller = "running" /\ pc = "idle" /\ poller' = "stopped"
      /\ UNCHANGED <<stack, leaving, entry, queue, pc, card, next, reader, messaging, credential>>
  BY DEF ProtocolError, gui, worker
<1>2. Verdicted' /\ stack = OnRead
  BY <1>1, WorkerKeepsVerdicted, WorkerAtRead
<1> QED
  BY <1>0, <1>1, <1>2 DEF IInv, Typed, Shape, Session, Progress

\* Up to the first file.
LEMMA ExchangesKeepIInv ==
  ASSUME IInv, Select \/ Challenge \/ Respond
  PROVE  IInv' /\ entry' = entry
<1>0. Shape /\ Typed /\ Session /\ Progress
  BY DEF IInv
<1>1. /\ pc \in {"select", "challenge", "respond"} /\ pc' \in {"challenge", "respond", "read"}
      /\ messaging' \in {messaging, TRUE}
      /\ UNCHANGED <<stack, leaving, entry, queue, poller, card, next, reader, credential>>
  BY DEF Select, Challenge, Respond, gui
<1>2. poller = "running" /\ reader
  BY <1>0, <1>1 DEF Session, Typed
<1>3. Verdicted'
  BY <1>1, <1>2, WorkerKeepsVerdicted
<1>4. Typed' /\ Session'
  BY <1>0, <1>1, <1>2 DEF Typed, Session
<1>5. credential.app
  BY <1>0 DEF Select, Challenge, Respond, Progress
<1> QED
  BY <1>0, <1>1, <1>3, <1>4, <1>5 DEF IInv, Shape, Progress

LEMMA ReadFileKeepsIInv ==
  ASSUME IInv, ReadFile
  PROVE  IInv' /\ entry' = entry
<1>0. Shape /\ Typed /\ Session /\ Progress
  BY DEF IInv
<1>1. PICK j \in NextPrimary(next) :
        credential' = [credential EXCEPT !.file[j] = card] /\ next' = j + 1
  BY DEF ReadFile
<1>2. pc = "read" /\ UNCHANGED <<stack, leaving, entry, queue, poller, pc, card, reader, messaging>>
  BY DEF ReadFile, gui
<1>3. poller = "running" /\ card \in Cards /\ (card \in Fitting => credential.uid = card)
  BY <1>0, <1>2 DEF Session, Progress
<1>4. Verdicted'
  BY <1>2, <1>3, WorkerKeepsVerdicted
<1>5. /\ j \in Primary /\ j \in Files /\ j \in Nat /\ next \in Nat
      /\ \A k \in Primary : k \in Nat /\ k \in Files /\ (k >= next => j <= k)
  BY <1>0, FileNumbers DEF NextPrimary, Typed
<1>6. /\ credential' \in [app: BOOLEAN, uid: Owner, file: [Files -> Owner]]
      /\ credential'.app /\ credential'.uid = credential.uid
      /\ \A k \in Files : credential'.file[k] = IF k = j THEN card ELSE credential.file[k]
  BY <1>0, <1>1, <1>2, <1>3, <1>5 DEF Typed, Owner, Progress
<1>7. \A k \in Primary : k < next' => k = j \/ k < next
  BY <1>1, <1>5
<1>8. \A k \in Primary : k < next' => credential'.file[k] = card
  BY <1>0, <1>2, <1>5, <1>6, <1>7 DEF Progress
<1>9. Progress'
  BY <1>0, <1>2, <1>3, <1>5, <1>6, <1>8 DEF Progress
<1>10. Typed'
  BY <1>0, <1>1, <1>2, <1>5, <1>6 DEF Typed
<1> QED
  BY <1>0, <1>2, <1>4, <1>9, <1>10 DEF IInv, Shape, Session

\* The three ways to a verdict.
LEMMA EndingKeepsIInv ==
  ASSUME IInv, ReadFileLosesIt \/ Fail \/ AllRead
  PROVE  IInv' /\ entry' = entry
<1>0. Shape /\ Typed /\ Session /\ Progress
  BY DEF IInv
<1>1. /\ pc \in {"select", "challenge", "respond", "read"} /\ pc' = "free"
      /\ UNCHANGED <<stack, leaving, entry, poller, card, next, reader, messaging>>
  BY DEF ReadFileLosesIt, Fail, AllRead, Verdict, gui
<1>2. poller = "running" /\ card \in Cards /\ (card \in Fitting => credential.uid = card)
  BY <1>0, <1>1 DEF Session, Progress
<1>3. PollerError \in Verdicts /\ PollerSuccess \in Verdicts /\ PollerError # PollerSuccess
  BY DEF Verdicts, PollerError, PollerSuccess
<1>4. CASE Fail \/ AllRead
  <2>1. UNCHANGED credential
    BY <1>4 DEF Fail, AllRead
  <2>2. AllRead => CardRead'
    <3> SUFFICES ASSUME AllRead PROVE OneCardIn(credential)
      BY <1>1, <1>2, <2>1 DEF CardRead, OneCardIn
    <3>1. pc = "read" /\ NextPrimary(next) = {} /\ next \in Nat
      BY <1>0 DEF AllRead, Typed
    <3>2. \A k \in Primary : k < next
      <4>1. \A k \in Primary : k \in Nat
        BY FileNumbers
      <4>2. \A j \in Primary : ~(j >= next /\ \A k \in Primary : k >= next => j <= k)
        BY <3>1 DEF NextPrimary
      <4> DEFINE ahead == {k \in Primary : k >= next}
      <4>3. ahead # {} => \E j \in ahead : \A k \in ahead : j <= k
        BY <4>1, SmallestFile
      <4>4. ahead = {}
        BY <4>2, <4>3
      <4> QED
        BY <3>1, <4>1, <4>4
    <3> QED
      BY <1>0, <1>2, <3>1, <3>2, FileNumbers DEF OneCardIn, Progress
  <2>3. Verdicted' /\ queue' \in Seq(Event)
    <3>1. \/ queue' = Append(queue, PollerError)
          \/ AllRead /\ queue' = Append(queue, PollerSuccess)
      BY <1>4 DEF Fail, AllRead, Verdict
    <3> QED
      BY <1>1, <1>2, <1>3, <2>2, <3>1, WorkerKeepsVerdicted
  <2>4. Typed' /\ Session'
    BY <1>0, <1>1, <2>1, <2>3 DEF Typed, Session
  <2>5. Progress'
    BY <1>0, <1>1, <1>2, <2>1 DEF Progress
  <2> QED
    BY <1>0, <1>1, <2>3, <2>4, <2>5 DEF IInv, Shape
<1>5. CASE ReadFileLosesIt
  <2>1. PICK j \in NextPrimary(next) : credential' = [credential EXCEPT !.file[j] = NoCard]
    BY <1>5 DEF ReadFileLosesIt
  <2>2. j \in Primary /\ j \in Files
    BY FileNumbers DEF NextPrimary
  <2>3. /\ credential' \in [app: BOOLEAN, uid: Owner, file: [Files -> Owner]]
        /\ credential'.app = credential.app /\ credential'.uid = credential.uid
        /\ \A k \in Files \ Primary : credential'.file[k] = credential.file[k]
    BY <1>0, <1>2, <2>1, <2>2 DEF Typed, Owner
  <2>4. Verdicted' /\ queue' \in Seq(Event)
    <3>1. queue' = Append(queue, PollerError)
      BY <1>5 DEF ReadFileLosesIt, Verdict
    <3> QED
      BY <1>1, <1>2, <1>3, <3>1, WorkerKeepsVerdicted
  <2>5. Typed' /\ Session'
    BY <1>0, <1>1, <2>3, <2>4 DEF Typed, Session
  <2>6. Progress'
    BY <1>0, <1>1, <1>2, <2>3 DEF Progress
  <2> QED
    BY <1>0, <1>1, <2>4, <2>5, <2>6 DEF IInv, Shape
<1> QED
  BY <1>4, <1>5

LEMMA FreeKeepsIInv ==
  ASSUME IInv, Free
  PROVE  IInv' /\ entry' = entry
<1>0. Shape /\ Typed /\ Session /\ Progress /\ Verdicted
  BY DEF IInv
<1>1. /\ pc = "free" /\ pc' = "idle" /\ reader' = FALSE /\ messaging' = FALSE /\ poller' = "stopped"
      /\ UNCHANGED <<stack, leaving, entry, queue, card, next, credential>>
  BY DEF Free, gui
<1>2. stack = OnRead
  BY <1>0, <1>1 DEF Session
<1>3. /\ \A x : Waiting(x)' <=> Waiting(x)
      /\ NoVerdict' <=> NoVerdict
      /\ Unique' <=> Unique
      /\ InOrder' <=> InOrder
      /\ CardRead' <=> CardRead
  BY <1>1 DEF Waiting, NoVerdict, Unique, InOrder, CardRead, OneCardIn
<1>4. Verdicted'
  BY <1>0, <1>1, <1>2, <1>3 DEF Verdicted
<1> QED
  BY <1>0, <1>1, <1>2, <1>4 DEF IInv, Shape, Typed, Session, Progress

LEMMA StutterKeepsIInv == IInv /\ UNCHANGED vars => IInv'
<1> SUFFICES ASSUME IInv, UNCHANGED vars PROVE IInv'
  OBVIOUS
<1>1. UNCHANGED <<stack, leaving, entry, queue, poller, pc, card, next, reader, messaging, credential>>
  BY DEF vars, gui, worker
<1>2. Shape' /\ Typed' /\ Session' /\ Progress'
  BY <1>1 DEF IInv, Shape, Typed, Session, Progress
<1>3. Verdicted'
  BY <1>1 DEF IInv, Verdicted, Waiting, NoVerdict, Unique, InOrder, CardRead, OneCardIn
<1> QED
  BY <1>2, <1>3 DEF IInv

-----------------------------------------------------------------------------
(* The theorems.                                                             *)
LEMMA InitIInv == Init => IInv
<1> SUFFICES ASSUME Init PROVE IInv
  OBVIOUS
<1>1. /\ stack = MainMenuOnly /\ leaving = <<>> /\ entry = "fresh" /\ queue = <<>>
      /\ poller = "none" /\ pc = "idle" /\ card = NoCard /\ next = 1
      /\ reader = FALSE /\ messaging = FALSE /\ credential = Cleared
  BY DEF Init
<1>2. Cleared \in [app: BOOLEAN, uid: Owner, file: [Files -> Owner]] /\ ~Cleared.app
  BY DEF Cleared, HeldBy, Owner
<1>3. queue \in Seq(Event) /\ Len(queue) = 0 /\ DOMAIN queue = {}
  BY <1>1, EmptySeq
<1>4. Typed /\ Shape /\ Session /\ Progress
  BY <1>1, <1>2, <1>3 DEF Typed, Shape, Session, Progress, Stacks
<1>5. InOrder /\ ~Waiting(ReadChosen)
  BY <1>3 DEF InOrder, Waiting, Has
<1>6. MainMenuOnly \notin {OnRead, OnError} \cup AfterSuccess /\ <<>> \notin {OnSuccess, OnError}
  BY TheStacks DEF Stacks, AfterSuccess
<1>7. Verdicted
  BY <1>1, <1>5, <1>6 DEF Verdicted
<1> QED
  BY <1>4, <1>7 DEF IInv

\* Beside the invariant, a step shows how a Read comes to be overdue.
LEMMA NextIInv == IInv /\ [Next]_vars => IInv' /\ (entry' = "overdue" => entry # "fresh")
<1> SUFFICES ASSUME IInv, [Next]_vars PROVE IInv' /\ (entry' = "overdue" => entry # "fresh")
  OBVIOUS
<1>1. CASE Press
  BY <1>1, PressKeepsIInv DEF Press, gui
<1>2. CASE HandleEvent
  BY <1>2, HandleEventKeepsIInv
<1>3. CASE BackKey \/ SavedMenuBack \/ ReturnFromElsewhere \/ StopPoller
  BY <1>3, WaysOutKeepIInv
<1>4. CASE \E c \in Cards : Ready(c)
  BY <1>4, ReadyKeepsIInv
<1>5. CASE ProtocolError
  BY <1>5, ProtocolErrorKeepsIInv
<1>6. CASE Callback
  BY <1>6, ExchangesKeepIInv, ReadFileKeepsIInv, EndingKeepsIInv, FreeKeepsIInv DEF Callback
<1>7. CASE UNCHANGED vars
  BY <1>7, StutterKeepsIInv DEF vars, gui
<1> QED
  BY <1>1, <1>2, <1>3, <1>4, <1>5, <1>6, <1>7 DEF Next

THEOREM Invariance == Spec => []IInv
BY InitIInv, NextIInv, PTL DEF Spec

\* Scenes, queue, poller and callback stay within their types.
THEOREM TypeCorrectness == Spec => []TypeOK
<1>1. IInv => TypeOK
  <2> SUFFICES ASSUME IInv PROVE TypeOK
    OBVIOUS
  <2>1. stack \in Seq(Scene) /\ stack # <<>> /\ leaving \in Seq(Scene)
    <3>1. leaving \in Stacks \cup {<<>>}
      BY DEF IInv, Shape, Stacks, AfterSuccess
    <3> QED
      BY <3>1, TheStacks, EmptySeq DEF IInv, Shape
  <2> QED
    BY <2>1 DEF IInv, Shape, Typed, TypeOK
<1> QED
  BY <1>1, Invariance, PTL

\* The reader and its session keys exist only inside the callback, and the callback
\* runs only while Read is the current scene.
THEOREM SessionIsOnScreen == Spec => []SessionOnlyOnScreen
<1>1. IInv => SessionOnlyOnScreen
  BY TheStacks DEF IInv, Session, SessionOnlyOnScreen
<1> QED
  BY <1>1, Invariance, PTL

\* A card shown as read is one card, whatever attempts with whatever cards came before,
\* until Back from its saved menu clears it (dfc_scene_saved_menu.c:55-59).
THEOREM CardReadIsOneCard == Spec => []ReadCardIsOneCard
<1>1. IInv => ReadCardIsOneCard
  BY TheStacks DEF IInv, Shape, Verdicted, ReadCardIsOneCard, CardRead
<1> QED
  BY <1>1, Invariance, PTL

\* One read, one verdict, and none waits on the Read screen before its read is over,
\* unless the Read was overdue when it was entered (dfc_scene_read.c:33-40).
THEOREM VerdictIsSingle == Spec => []OneVerdict
<1>1. IInv => OneVerdict
  <2> SUFFICES ASSUME IInv, At("Read"), entry # "overdue" PROVE OneVerdict
    BY DEF OneVerdict
  <2>1. stack = OnRead /\ leaving = <<>>
    BY StackOfScene DEF IInv, Shape, At
  <2>2. DOMAIN queue = 1..Len(queue)
    BY LenProperties DEF IInv, Typed
  <2>3. Unique /\ (~NoVerdict => poller = "stopped" \/ pc = "free")
    BY <2>1 DEF IInv, Verdicted
  <2>4. pc = "free" => poller # "none"
    BY DEF IInv, Session
  <2> QED
    BY <2>2, <2>3, <2>4 DEF OneVerdict, Unique, NoVerdict, Waiting, Has, Verdicts
<1> QED
  BY <1>1, Invariance, PTL

\* However the screens are left and entered while the worker goes on, the verdict of
\* one Read meets the next only if the first was entered with a second press of the
\* entry waiting (dfc_scene_read.c:33-61, dfc_reader.c:286-313).
THEOREM NextReadIsNotOverdue == Spec => OverdueNeedsTwoPresses
<1>1. IInv /\ [Next]_vars => [entry' = "overdue" => entry # "fresh"]_vars
  BY NextIInv
<1> QED
  BY <1>1, Invariance, PTL DEF Spec, OverdueNeedsTwoPresses
=============================================================================
