------------------------------ MODULE DfcReader ------------------------------
(***************************************************************************)
(* The card reader: the worker's callback in dfc_reader.c and the Read,      *)
(* ReadSuccess and ReadError scenes around it.  The loaded credential is the *)
(* template that says which application and files to read and with which     *)
(* key; the presented card's UID and file contents replace its own.          *)
(*                                                                          *)
(* The callback runs on the worker thread; each exchange with the card is a  *)
(* step, and the GUI thread runs in between.  Leaving Read is two steps, as  *)
(* in DfcApp: on_event chooses the way, on_exit stops the poller, which      *)
(* waits for a running callback.                                             *)
(*                                                                          *)
(* No scene of this commit enters Read, so the way in (ReadChosen) is        *)
(* external, an item of the main menu as the other scenes' ways in are.      *)
(* The scenes DfcApp shows on top of MainMenu, SaveName and SavedMenu are one *)
(* scene here, Elsewhere, which takes no event of a read; what comes back    *)
(* from it is the user's choice.  Leaving the app is left out.               *)
(***************************************************************************)
EXTENDS Naturals, Sequences

CONSTANTS
  Cards,       \* cards that may be presented
  Fitting,     \* those with a UID that fits credential->uid
  Template,    \* whose data a loaded credential holds
  NoCard,
  AppIndex,    \* AppIndex[i]: the application file i of the credential belongs to
  MaxQueue     \* bound: custom events waiting for a further press

ASSUME ReaderAssumption ==
  /\ Template \notin Cards /\ NoCard \notin Cards \cup {Template}
  /\ Fitting \subseteq Cards
  /\ AppIndex \in Seq(Nat) /\ MaxQueue \in Nat

VARIABLES
  stack, leaving,  \* as in DfcApp
  entry,           \* history: what was queued when Read was last entered, see Entry
  queue,           \* custom events
  poller,          \* "none", "running", or "stopped" after a callback said Stop
  pc,              \* where the callback is, "idle" outside of it
  card,            \* the card of the last callback
  next,            \* i, the file it reads next
  reader,          \* dfc->dfc_reader is allocated
  messaging,       \* reader->secure_messaging is allocated
  credential       \* whether it has a primary application; whose UID and files it has

gui == <<stack, leaving, entry>>
worker == <<pc, card, next, reader, messaging>>
vars == <<gui, queue, poller, worker, credential>>

Files == DOMAIN AppIndex
Owner == Cards \cup {Template, NoCard}     \* NoCard: cleared, or resized and not filled
HeldBy(owner) ==
  [app |-> owner # NoCard, uid |-> owner, file |-> [i \in Files |-> owner]]
Loaded == HeldBy(Template)
Cleared == HeldBy(NoCard)
Primary == {i \in Files : AppIndex[i] = 0}
Scene == {"MainMenu", "Read", "ReadSuccess", "ReadError", "SaveName", "SavedMenu", "Elsewhere"}

Top(stk) == stk[Len(stk)]
At(scene) == Top(stack) = scene /\ leaving = <<>>
Pushed(scene) == Append(stack, scene)
Popped == SubSeq(stack, 1, Len(stack) - 1)
MainMenuOnly == <<"MainMenu">>             \* search_and_switch to the bottom scene

-----------------------------------------------------------------------------
(* The GUI thread.                                                          *)
ReadChosen == "Read"
Left == "Left"       \* GuiButtonTypes, and the menu items of the same numbers 0 to 2
Center == "Center"
Right == "Right"
TextInputDone == "TextInputDone"
PollerError == "PollerError"
PollerSuccess == "PollerSuccess"
Verdicts == {PollerError, PollerSuccess}
Event == {ReadChosen, Left, Center, Right, TextInputDone} \cup Verdicts

Has(events, e) == \E i \in DOMAIN events : events[i] = e
\* A Read is overdue when the verdict of the one before it is still waiting, and
\* entered again when another press of its entry is.
Entry(waiting) ==
  CASE \E v \in Verdicts : Has(waiting, v) -> "overdue"
    [] OTHER -> IF Has(waiting, ReadChosen) THEN "again" ELSE "fresh"

\* Entering Read allocates a poller, if it can, and starts it.
Switch(stk) ==
  /\ stack' = stk
  /\ IF Top(stk) = "Read"
       THEN poller' \in {"none", "running"} /\ entry' = Entry(queue')
       ELSE poller' = "none" /\ UNCHANGED entry
  /\ leaving' = <<>>

LeaveTo(stk) ==
  IF Top(stack) = "Read"
    THEN leaving' = stk /\ UNCHANGED <<stack, entry, poller>>
    ELSE Switch(stk)

StopPollerAtOnce ==                                              \* mutant
  /\ leaving # <<>>
  /\ UNCHANGED <<queue, worker, credential>>
  /\ Switch(leaving)

\* dfc_scene_read_on_exit: nfc_poller_stop waits for a running callback.
StopPoller ==
  /\ leaving # <<>>
  /\ pc = "idle"
  /\ UNCHANGED <<queue, worker, credential>>
  /\ Switch(leaving)

Offered(scene) ==
  CASE scene = "MainMenu"    -> {ReadChosen, Left, Center, Right}
    [] scene = "SavedMenu"   -> {Left, Center, Right}
    [] scene = "ReadError"   -> {Left}
    [] scene = "ReadSuccess" -> {Left, Right}
    [] scene = "SaveName"    -> {TextInputDone}
    [] scene = "Elsewhere"   -> Event \ Verdicts
    [] OTHER                 -> {}

Press ==
  /\ leaving = <<>> /\ Len(queue) < MaxQueue
  /\ \E e \in Offered(Top(stack)) : queue' = Append(queue, e)
  /\ UNCHANGED <<gui, poller, worker, credential>>

\* Where an event may take the scene that handles it; nowhere when it is dropped.
Destinations(scene, e) ==
  CASE scene = "MainMenu" /\ e = ReadChosen       -> {Pushed("Read")}
    [] scene \in {"MainMenu", "SavedMenu"} /\ e \in {Left, Center, Right} ->
         {Pushed("Elsewhere")}
    [] scene = "Read" /\ e = PollerSuccess        -> {Pushed("ReadSuccess")}
    [] scene = "Read" /\ e = PollerError          -> {Pushed("ReadError")}
    [] scene = "ReadError" /\ e = Left            -> {Popped}
    [] scene = "ReadSuccess" /\ e = Left          -> {Pushed("SaveName")}
    [] scene = "ReadSuccess" /\ e = Right         -> {Pushed("SavedMenu")}
    [] scene = "SaveName" /\ e = TextInputDone    -> {Pushed("Elsewhere"), MainMenuOnly}
    [] OTHER                                      -> {}

HandleEvent ==
  /\ leaving = <<>> /\ queue # <<>>
  /\ queue' = Tail(queue)
  /\ LET ways == Destinations(Top(stack), Head(queue))
     IN  IF ways = {} THEN UNCHANGED <<gui, poller>> ELSE \E to \in ways : LeaveTo(to)
  /\ UNCHANGED <<worker, credential>>

BackKey ==
  /\ leaving = <<>>
  /\ UNCHANGED <<queue, worker, credential>>
  /\ \/ Top(stack) \in {"Read", "ReadSuccess", "ReadError"} /\ LeaveTo(MainMenuOnly)
     \/ Top(stack) = "SaveName" /\ Switch(Popped)

\* Back clears the credential and goes one scene back, to the card that was read.
SavedMenuBack ==
  /\ At("SavedMenu")
  /\ UNCHANGED <<queue, worker>>
  /\ credential' = Cleared
  /\ Switch(Popped)

\* What a reader writes to an emulated card stays that card's data; the main menu
\* is where another card is loaded, or none.
ReturnFromElsewhere ==
  /\ At("Elsewhere")
  /\ UNCHANGED <<queue, worker>>
  /\ \E stk \in {Popped, MainMenuOnly} :
       /\ Switch(stk)
       /\ credential' \in
            IF Top(stk) = "MainMenu" THEN {credential, Loaded, Cleared} ELSE {credential}

-----------------------------------------------------------------------------
(* The worker thread: dfc_worker_poller_dispatch.                            *)
Verdict(e) == queue' = Append(queue, e) /\ pc' = "free"

\* dfc_reader_capture_uid: a UID that is absent or too long leaves the one there was.
CaptureUid(c) == IF c \in Fitting THEN [credential EXCEPT !.uid = c] ELSE credential

\* A Ready event: the UID is captured, then dfc_state_machine starts.
Ready(c) ==
  /\ poller = "running" /\ pc = "idle"
  /\ card' = c
  /\ credential' = CaptureUid(c)
  /\ next' = 1
  /\ \/ reader' = TRUE /\ pc' = "select" /\ UNCHANGED <<queue, poller>>
     \/ /\ queue' = Append(queue, PollerError)
        /\ poller' = "stopped"
        /\ UNCHANGED <<pc, reader>>
  /\ UNCHANGED <<gui, messaging>>

\* Other Error events go on; this one stops the poller and posts nothing.
ProtocolError ==
  /\ poller = "running" /\ pc = "idle"
  /\ poller' = "stopped"
  /\ UNCHANGED <<gui, queue, worker, credential>>

Select ==
  /\ pc = "select" /\ credential.app
  /\ pc' = "challenge"
  /\ UNCHANGED <<gui, queue, poller, card, next, reader, messaging, credential>>

\* Step 1 of the authentication; step 2 ends with a session.
Challenge ==
  /\ pc = "challenge"
  /\ pc' = "respond"
  /\ UNCHANGED <<gui, queue, poller, card, next, reader, messaging, credential>>
Respond ==
  /\ pc = "respond"
  /\ messaging' = TRUE
  /\ pc' = "read"
  /\ UNCHANGED <<gui, queue, poller, card, next, reader, credential>>

\* The next file of the primary application at or after i.
NextPrimary(i) == {j \in Primary : j >= i /\ \A k \in Primary : k >= i => j <= k}

ReadFileSkippingFailures ==                                      \* mutant
  /\ pc = "read"
  /\ \E j \in NextPrimary(next) :
       /\ credential' \in {credential, [credential EXCEPT !.file[j] = card]}
       /\ next' = j + 1
  /\ UNCHANGED <<gui, queue, poller, pc, card, reader, messaging>>
ReadFile ==
  /\ pc = "read"
  /\ \E j \in NextPrimary(next) :
       /\ credential' = [credential EXCEPT !.file[j] = card]
       /\ next' = j + 1
  /\ UNCHANGED <<gui, queue, poller, pc, card, reader, messaging>>

\* The file is resized before its contents are copied (259-265).
ReadFileLosesIt ==
  /\ pc = "read"
  /\ \E j \in NextPrimary(next) : credential' = [credential EXCEPT !.file[j] = NoCard]
  /\ Verdict(PollerError)
  /\ UNCHANGED <<gui, poller, card, next, reader, messaging>>

FailSilently ==                                                  \* mutant
  /\ pc \in {"select", "challenge", "respond", "read"}
  /\ pc' = "free"
  /\ UNCHANGED <<gui, queue, poller, card, next, reader, messaging, credential>>

FailPostingTheScene ==                                           \* mutant
  /\ pc \in {"select", "challenge", "respond", "read"}
  /\ Verdict("ReadError")
  /\ UNCHANGED <<gui, poller, card, next, reader, messaging, credential>>

\* Any exchange, status, cryptogram, key, unwrapping or allocation may fail.
Fail ==
  /\ pc \in {"select", "challenge", "respond", "read"}
  /\ pc = "read" => NextPrimary(next) # {}
  /\ Verdict(PollerError)
  /\ UNCHANGED <<gui, poller, card, next, reader, messaging, credential>>

AllReadGoingOn ==                                                \* mutant
  /\ pc = "read" /\ NextPrimary(next) = {}
  /\ queue' = queue \o <<PollerSuccess, PollerError>> /\ pc' = "free"
  /\ UNCHANGED <<gui, poller, card, next, reader, messaging, credential>>

AllRead ==
  /\ pc = "read" /\ NextPrimary(next) = {}
  /\ Verdict(PollerSuccess)
  /\ UNCHANGED <<gui, poller, card, next, reader, messaging, credential>>

FreeReaderOnly ==                                                \* mutant
  /\ pc = "free"
  /\ reader' = FALSE
  /\ poller' = "stopped"
  /\ pc' = "idle"
  /\ UNCHANGED <<gui, queue, card, next, messaging, credential>>

\* dfc_reader_free; the callback returns Stop whatever the verdict.
Free ==
  /\ pc = "free"
  /\ reader' = FALSE /\ messaging' = FALSE
  /\ poller' = "stopped"
  /\ pc' = "idle"
  /\ UNCHANGED <<gui, queue, card, next, credential>>

-----------------------------------------------------------------------------
Init ==
  /\ stack = MainMenuOnly /\ leaving = <<>> /\ entry = "fresh"
  /\ queue = <<>>
  /\ poller = "none"
  /\ pc = "idle" /\ card = NoCard /\ next = 1
  /\ reader = FALSE /\ messaging = FALSE
  /\ credential = Cleared

Callback ==
  \/ Select \/ Challenge \/ Respond \/ ReadFile \/ ReadFileLosesIt \/ Fail \/ AllRead \/ Free

Next ==
  \/ Press \/ HandleEvent \/ BackKey \/ SavedMenuBack \/ ReturnFromElsewhere \/ StopPoller
  \/ \E c \in Cards : Ready(c)
  \/ ProtocolError \/ Callback

Spec == Init /\ [][Next]_vars

\* The callback goes on (an exchange ends, with an answer or a time-out), the GUI
\* thread takes its events and comes back from waiting for the worker.  Nobody
\* has to present a card or press a key.
FairSpec ==
  Spec /\ WF_vars(Callback) /\ WF_vars(HandleEvent) /\ WF_vars(StopPoller)

-----------------------------------------------------------------------------
TypeOK ==
  /\ stack \in Seq(Scene) /\ stack # <<>>
  /\ leaving \in Seq(Scene)
  /\ entry \in {"fresh", "again", "overdue"}
  /\ queue \in Seq(Event)
  /\ poller \in {"none", "running", "stopped"}
  /\ pc \in {"idle", "select", "challenge", "respond", "read", "free"}
  /\ card \in Cards \cup {NoCard}
  /\ next \in Nat
  /\ reader \in BOOLEAN /\ messaging \in BOOLEAN
  /\ credential \in [app: BOOLEAN, uid: Owner, file: [Files -> Owner]]

\* The reader and its session keys exist only while the callback runs, and the
\* callback only while Read is the current scene: no other scene runs beside it.
SessionOnlyOnScreen ==
  /\ messaging => reader
  /\ reader <=> pc # "idle"
  /\ pc # "idle" => Top(stack) = "Read" /\ poller = "running"

\* "Card Read" and what follows it is shown of one card: however many attempts,
\* with whatever cards, came before and failed halfway, every file of the primary
\* application is the card's of the attempt that succeeded, so is the UID if it
\* could be captured, and no file of another application was touched.  Back from
\* the saved menu leaves the screen without a card, never with part of one.  An
\* overdue Read, which shows the verdict of the one before, is excepted.
OneCardIn(c) ==
  /\ card \in Fitting => c.uid = card
  /\ \A i \in Files : c.file[i] = IF i \in Primary THEN card ELSE Template
ReadCardIsOneCard ==
  entry # "overdue" /\ Has(stack, "ReadSuccess") =>
    credential = Cleared \/ (card \in Cards /\ OneCardIn(credential))

\* A read posts one verdict, and unless the Read was overdue a verdict is only ever
\* taken on the screen it was posted for: at most one is waiting there, and none
\* while its reader is still to post one or after a new one has started.
OneVerdict ==
  LET verdicts == {i \in DOMAIN queue : queue[i] \in Verdicts}
  IN  At("Read") /\ entry # "overdue" =>
        /\ \A i, j \in verdicts : i = j
        /\ verdicts # {} => poller # "none" /\ (poller = "stopped" \/ pc = "free")

\* However Back, Retry and the entry are pressed while the worker goes on, a Read
\* is overdue only if the Read before it was entered with a second press waiting:
\* leaving Read waits for the callback, and what it posted is dropped before a
\* later press is taken.
OverdueNeedsTwoPresses == [][entry' = "overdue" => entry # "fresh"]_vars

\* A read that has started ends, in success, in failure or back in the main menu.
ReadEnds == pc # "idle" ~> Top(stack) # "Read"
=============================================================================
