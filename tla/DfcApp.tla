------------------------------- MODULE DfcApp -------------------------------
(***************************************************************************)
(* The application around the listener: the stack of scenes the GUI thread  *)
(* walks, the credential every scene shares, the files it is loaded from    *)
(* and saved to, and the one other thread, the NFC worker, which changes    *)
(* the credential for as long as the listener runs.                         *)
(*                                                                          *)
(* A handler of the GUI thread is one step, except the one that leaves the  *)
(* Emulate scene: it first decides where to go (on_event reads              *)
(* credential->dirty) and only later stops the listener (on_exit), and the  *)
(* worker runs in between.                                                  *)
(*                                                                          *)
(* What a view reports reaches the scenes through a queue of custom events; *)
(* the Back key does not, so it overtakes what is queued.  An event is a    *)
(* bare number and is handled by whichever scene is current by then.        *)
(*                                                                          *)
(* A file holds whose card it is and how many writes it has seen.  The      *)
(* scene manager, the file browser, the file system and the engine are      *)
(* external.  DfcSceneRead and its followers are not here: no scene enters  *)
(* them.                                                                    *)
(***************************************************************************)
EXTENDS Naturals, Sequences

CONSTANTS
  Names,       \* names a file may have, its extension apart
  NoName,      \* the empty name
  Saved,       \* the files on the card at start
  MaxEdits,    \* bound: writes a reader makes to one card
  MaxQueue     \* bound: custom events waiting

Path == Names \X {"dfc", "dfcb"}
NoPath == <<NoName, "none">>
Blank == <<NoName, "blank">>       \* the owner of a blank card
NoCard == <<NoName, "no card">>    \* nothing loaded, no file
Torn == <<NoName, "torn">>         \* an incompletely written file

ASSUME AppAssumption ==
  NoName \notin Names /\ Saved \subseteq Path /\ MaxEdits \in Nat /\ MaxQueue \in Nat

VARIABLES
  stack,        \* the scene manager's stack, the current scene last
  leaving,      \* the stack on_event chose when leaving Emulate, or <<>>
  emulation,    \* dfc->dfc_emulator and dfc->listener exist, the worker runs
  credential,   \* dfc->credential
  load_path,    \* store.load_path, shared with the file browser
  emulate_from_blank,
  files,
  queue         \* the view dispatcher's custom events, oldest first

vars == <<stack, leaving, emulation, credential, load_path, emulate_from_blank, files, queue>>

Scene == {"MainMenu", "Emulate", "FileSelect", "SavedMenu", "SaveName", "MutationSave",
          "SaveSuccess", "About", "Delete", "DeleteSuccess", "Info"}
Owner == Path \cup {Blank, NoCard, Torn}
Contents == [owner: Owner, edits: 0..MaxEdits]
\* home is the file the credential was last loaded from or saved to.
Credential == [owner: Owner, edits: 0..MaxEdits, dirty: BOOLEAN,
               name: Names \cup {NoName}, home: Path \cup {NoPath}]

Absent == [owner |-> NoCard, edits |-> 0]
Rendered == [owner |-> credential.owner, edits |-> credential.edits]
Card(owner, edits, name, home) ==
  [owner |-> owner, edits |-> edits, dirty |-> FALSE, name |-> name, home |-> home]
ClearedCard == Card(NoCard, 0, NoName, NoPath)
BlankCard == Card(Blank, 0, NoName, NoPath)

-----------------------------------------------------------------------------
(* The scene manager (firmware): the current scene's on_exit, then the new   *)
(* one's on_enter.  Only Emulate's do more than draw.                        *)
Top(stk) == IF stk = <<>> THEN "none" ELSE stk[Len(stk)]
At(scene) == Top(stack) = scene /\ leaving = <<>>
Pushed(scene) == Append(stack, scene)
Popped == SubSeq(stack, 1, Len(stack) - 1)
\* search_and_switch_to_previous_scene: no change unless the scene lies below.
UnwoundTo(scene) ==
  LET below == {i \in 1..(Len(stack) - 1) : stack[i] = scene}
  IN  IF below = {} THEN stack ELSE SubSeq(stack, 1, CHOOSE i \in below : \A j \in below : j <= i)

SwitchLeavingListenerOn(stk) ==                                  \* mutant
  /\ stack' = stk
  /\ emulation' \in IF Top(stk) = "Emulate" THEN BOOLEAN ELSE {emulation}
  /\ leaving' = <<>>

\* dfc_scene_emulate_on_enter fails early on a UID it cannot set or a failed
\* allocation, otherwise it starts the listener; on_exit stops it.
Switch(stk) ==
  /\ stack' = stk
  /\ emulation' \in
       CASE stk = stack            -> {emulation}
         [] Top(stk) = "Emulate"   -> BOOLEAN
         [] Top(stack) = "Emulate" -> {FALSE}
         [] OTHER                  -> {emulation}
  /\ leaving' = <<>>

-----------------------------------------------------------------------------
(* The custom-event queue.  Submenu indices and GuiButtonTypes are numbers    *)
(* from 0 on and mean something else in every scene; a text input reports the *)
(* name that was entered.                                                     *)
ViewExit == 101
TextInputDone == 102
Code == 0..3 \cup {ViewExit, TextInputDone}
CustomEvent == [code: Code, name: Names \cup {NoName}]
Indexed(codes) == [code: codes, name: {NoName}]

\* The validator of dfc_scene_save_name.c lets through a name no text file has,
\* or the credential's own.
EnterableNames == {n \in Names : files[<<n, "dfc">>] = Absent \/ n = credential.name}

\* What the view a scene draws, or its popup's timer, can post.
Offered(scene) ==
  CASE scene \in {"MainMenu", "SavedMenu"}         -> Indexed(0..2)
    [] scene = "Info"                              -> Indexed({0})
    [] scene = "Delete"                            -> Indexed({0, 2})
    [] scene = "MutationSave"                      ->
         Indexed(IF load_path # NoPath THEN {0, 1, 3} ELSE {2, 3})
    [] scene = "SaveName"                          ->
         [code: {TextInputDone}, name: EnterableNames]
    [] scene \in {"SaveSuccess", "DeleteSuccess"}  -> Indexed({ViewExit})
    [] OTHER                                       -> {}

\* What its on_event does something about.
Handled(scene) ==
  CASE scene \in {"MainMenu", "SavedMenu"}         -> 0..2
    [] scene \in {"Info", "About"}                 -> {0}
    [] scene = "Delete"                            -> {0, 2}
    [] scene = "MutationSave"                      -> 0..3
    [] scene = "SaveName"                          -> {TextInputDone}
    [] scene \in {"SaveSuccess", "DeleteSuccess"}  -> {ViewExit}
    [] OTHER                                       -> {}

Post ==
  /\ leaving = <<>> /\ Len(queue) < MaxQueue
  /\ \E e \in Offered(Top(stack)) : queue' = Append(queue, e)
  /\ UNCHANGED <<stack, leaving, emulation, credential, load_path, emulate_from_blank, files>>

\* dfc_custom_event_callback hands the oldest event to the current scene.
Takes(scene, code) ==
  /\ At(scene)
  /\ queue # <<>> /\ Head(queue).code = code
  /\ queue' = Tail(queue)

IgnoreEvent ==
  /\ stack # <<>> /\ leaving = <<>>
  /\ queue # <<>> /\ Head(queue).code \notin Handled(Top(stack))
  /\ queue' = Tail(queue)
  /\ UNCHANGED <<stack, leaving, emulation, credential, load_path, emulate_from_blank, files>>

-----------------------------------------------------------------------------
(* dfc_scene_main_menu.c                                                     *)
MainMenuSaved ==
  /\ Takes("MainMenu", 0)
  /\ Switch(Pushed("FileSelect"))
  /\ UNCHANGED <<credential, load_path, emulate_from_blank, files>>

MainMenuBlankCard ==
  /\ Takes("MainMenu", 1)
  /\ credential' = BlankCard
  /\ emulate_from_blank' = TRUE
  /\ Switch(Pushed("Emulate"))
  /\ UNCHANGED <<load_path, files>>

MainMenuAbout ==
  /\ Takes("MainMenu", 2)
  /\ Switch(Pushed("About"))
  /\ UNCHANGED <<credential, load_path, emulate_from_blank, files>>

-----------------------------------------------------------------------------
(* dfc_scene_file_select.c: the browser writes load_path, then the callback  *)
(* loads the file.                                                           *)

\* dfc_credential_load_selected_file: the card in the file under the file's
\* name, or a cleared credential when the file is refused or memory runs out.
\* A torn file may happen to parse.
LoadedFrom(p) == {Card(files[p].owner, files[p].edits, p[1], p), ClearedCard}

SelectFile(p) ==
  /\ At("FileSelect")
  /\ files[p] # Absent
  /\ load_path' = p
  /\ credential' \in LoadedFrom(p)
  /\ Switch(IF credential'.owner # NoCard THEN Pushed("SavedMenu") ELSE UnwoundTo("MainMenu"))
  /\ UNCHANGED <<emulate_from_blank, files, queue>>

-----------------------------------------------------------------------------
(* dfc_scene_saved_menu.c, dfc_scene_info.c, dfc_scene_delete.c              *)
SubmenuIndex == [Emulate |-> 0, Delete |-> 1, Info |-> 2]
SavedMenuChoice(scene) ==
  /\ Takes("SavedMenu", SubmenuIndex[scene])
  /\ Switch(Pushed(scene))
  /\ UNCHANGED <<credential, load_path, emulate_from_blank, files>>

SavedMenuBack ==
  /\ At("SavedMenu")
  /\ credential' = ClearedCard
  /\ Switch(Popped)
  /\ UNCHANGED <<load_path, emulate_from_blank, files, queue>>

DeleteWithCard(removed) ==                                       \* mutant
  /\ Takes("Delete", 2) /\ removed
  /\ files' = [files EXCEPT ![load_path] = Absent]
  /\ credential' = ClearedCard
  /\ Switch(Pushed("DeleteSuccess"))
  /\ UNCHANGED <<load_path, emulate_from_blank>>

\* dfc_credential_delete: the file at load_path, which may be gone already.
RemoveFile(removed) ==
  files' = IF removed THEN [files EXCEPT ![load_path] = Absent] ELSE files

Delete(removed) ==
  /\ Takes("Delete", 2)
  /\ RemoveFile(removed)
  /\ Switch(IF removed THEN Pushed("DeleteSuccess") ELSE UnwoundTo("MainMenu"))
  /\ UNCHANGED <<credential, load_path, emulate_from_blank>>

-----------------------------------------------------------------------------
(* dfc_scene_emulate.c, and the worker thread.                               *)

\* A reader's write or commit through the engine.
ReaderWrites ==
  /\ emulation
  /\ credential.edits < MaxEdits
  /\ credential' = [credential EXCEPT !.edits = @ + 1, !.dirty = TRUE]
  /\ UNCHANGED <<stack, leaving, emulation, load_path, emulate_from_blank, files, queue>>

EmulateBackClearing ==                                           \* mutant
  /\ At("Emulate")
  /\ leaving' = IF credential.dirty THEN Pushed("MutationSave") ELSE Popped
  /\ credential' = IF credential.dirty THEN credential ELSE ClearedCard
  /\ UNCHANGED <<stack, emulation, load_path, emulate_from_blank, files, queue>>

\* on_event: the way out depends on what the worker has done so far.
EmulateBack ==
  /\ At("Emulate")
  /\ leaving' = IF credential.dirty THEN Pushed("MutationSave") ELSE Popped
  /\ emulate_from_blank' = (emulate_from_blank /\ credential.dirty)
  /\ UNCHANGED <<stack, emulation, credential, load_path, files, queue>>

\* on_exit stops the worker; the next scene is entered.
EmulateLeft ==
  /\ leaving # <<>>
  /\ Switch(leaving)
  /\ UNCHANGED <<credential, load_path, emulate_from_blank, files, queue>>

-----------------------------------------------------------------------------
(* dfc_credential_storage.c: the text is rendered first, then the file is    *)
(* truncated and written.                                                    *)
WriteResult == {"saved", "torn", "untouched"}
WriteFile(p, result) ==
  files' = CASE result = "saved"     -> [files EXCEPT ![p] = Rendered]
             [] result = "torn"      -> [files EXCEPT ![p] = [owner |-> Torn, edits |-> 0]]
             [] result = "untouched" -> files

SaveToKeepingDirty(p, name, result) ==                           \* mutant
  /\ WriteFile(p, result)
  /\ credential' = [credential EXCEPT !.name = name]
  /\ load_path' = IF result = "saved" THEN p ELSE load_path

\* dfc_credential_save and dfc_credential_save_loaded after the path is known.
SaveTo(p, name, result) ==
  /\ WriteFile(p, result)
  /\ IF result = "saved"
       THEN /\ load_path' = p
            /\ credential' = [credential EXCEPT !.dirty = FALSE, !.name = name, !.home = p]
       ELSE /\ credential' = [credential EXCEPT !.name = name]
            /\ UNCHANGED load_path

TextBesideNameless(p) == <<NoName, "dfc">>                       \* mutant
\* A compiled credential is saved as text beside the compiled file.
TextBeside(p) == <<p[1], "dfc">>

-----------------------------------------------------------------------------
(* dfc_scene_mutation_save.c                                                 *)
MutationSaveReturn ==
  /\ emulate_from_blank' = FALSE
  /\ Switch(UnwoundTo(IF load_path # NoPath THEN "SavedMenu" ELSE "MainMenu"))

Update(result) ==
  /\ Takes("MutationSave", 0)
  /\ load_path = NoPath => result = "untouched"
  /\ SaveTo(TextBeside(load_path), credential.name, result)
  /\ IF result = "saved"
       THEN Switch(Pushed("SaveSuccess")) /\ UNCHANGED emulate_from_blank
       ELSE MutationSaveReturn

\* Save Copy, or Save.
SaveUnderName ==
  /\ \E code \in {1, 2} : Takes("MutationSave", code)
  /\ Switch(Pushed("SaveName"))
  /\ UNCHANGED <<credential, load_path, emulate_from_blank, files>>

Discard ==
  /\ Takes("MutationSave", 3)
  /\ credential' = [credential EXCEPT !.dirty = FALSE]
  /\ MutationSaveReturn
  /\ UNCHANGED <<load_path, files>>

-----------------------------------------------------------------------------
(* dfc_scene_save_name.c                                                     *)
NameEntered(result) ==
  /\ Takes("SaveName", TextInputDone)
  /\ LET n == Head(queue).name IN SaveTo(<<n, "dfc">>, n, result)
  /\ Switch(IF result = "saved" THEN Pushed("SaveSuccess") ELSE UnwoundTo("MainMenu"))
  /\ UNCHANGED emulate_from_blank

PopupTimeoutNextScene ==                                         \* mutant
  /\ \E scene \in {"SaveSuccess", "DeleteSuccess"} : Takes(scene, ViewExit)
  /\ Switch(Pushed("MainMenu"))
  /\ UNCHANGED <<credential, load_path, emulate_from_blank, files>>

\* dfc_scene_save_success.c, dfc_scene_delete_success.c: the popup times out.
PopupTimeout ==
  /\ \E scene \in {"SaveSuccess", "DeleteSuccess"} : Takes(scene, ViewExit)
  /\ Switch(UnwoundTo("MainMenu"))
  /\ UNCHANGED <<credential, load_path, emulate_from_blank, files>>

\* The Back button of Delete and Info, which About would take too.
BackButton ==
  /\ \E scene \in {"Delete", "Info", "About"} : Takes(scene, 0)
  /\ Switch(Popped)
  /\ UNCHANGED <<credential, load_path, emulate_from_blank, files>>

\* Every other Back key.  Popping the main menu leaves the application.
BackKey ==
  /\ leaving = <<>>
  /\ Top(stack) \notin {"none", "Emulate", "SavedMenu"}
  /\ Switch(Popped)
  /\ UNCHANGED <<credential, load_path, emulate_from_blank, files, queue>>

-----------------------------------------------------------------------------
Init ==
  /\ stack = <<"MainMenu">>
  /\ leaving = <<>>
  /\ emulation = FALSE
  /\ credential = ClearedCard
  /\ load_path = NoPath
  /\ emulate_from_blank = FALSE
  /\ files = [p \in Path |-> IF p \in Saved THEN [owner |-> p, edits |-> 0] ELSE Absent]
  /\ queue = <<>>

Next ==
  \/ MainMenuSaved \/ MainMenuBlankCard \/ MainMenuAbout
  \/ \E p \in Path : SelectFile(p)
  \/ \E scene \in {"Emulate", "Info", "Delete"} : SavedMenuChoice(scene)
  \/ SavedMenuBack
  \/ \E removed \in BOOLEAN : Delete(removed)
  \/ ReaderWrites \/ EmulateBack \/ EmulateLeft
  \/ \E result \in WriteResult : Update(result)
  \/ SaveUnderName \/ Discard
  \/ \E result \in WriteResult : NameEntered(result)
  \/ PopupTimeout \/ BackButton \/ BackKey
  \/ Post \/ IgnoreEvent

Spec == Init /\ [][Next]_vars

-----------------------------------------------------------------------------
\* The stack holds scenes, load_path is empty or names a possible file (also after
\* Update File has rewritten its extension), and the files hold cards.
TypeOK ==
  /\ stack \in Seq(Scene)
  /\ leaving \in Seq(Scene)
  /\ emulation \in BOOLEAN
  /\ credential \in Credential
  /\ load_path \in Path \cup {NoPath}
  /\ emulate_from_blank \in BOOLEAN
  /\ files \in [Path -> Contents]
  /\ queue \in Seq(CustomEvent)

\* The listener and its engine exist only while Emulate is the current scene:
\* entering it finds no emulator (the furi_assert at dfc_scene_emulate.c:102)
\* and no other scene runs beside the worker thread.
EmulationOnlyOnScreen == emulation => Top(stack) = "Emulate"

\* While the worker runs the GUI thread leaves alone what the worker uses: no
\* other card takes the credential's place, it is not renamed or rehomed, and
\* no file is written (the text codecs unload before emulation, README:126-127).
GuiLeavesRunningCardAlone ==
  [][emulation /\ emulation' =>
       /\ credential' = [credential EXCEPT !.edits = credential'.edits, !.dirty = credential'.dirty]
       /\ credential'.dirty \/ ~credential.dirty
       /\ UNCHANGED <<load_path, files>>]_vars

\* A card offered by the saved menu is loaded: wherever the user is above that
\* menu, there is a card, and load_path names the file it came from.
MenuCardIsLoaded ==
  \A i \in DOMAIN stack : stack[i] = "SavedMenu" =>
    credential.owner # NoCard /\ load_path = credential.home

\* "Saved!" is shown only when the file really holds the card as it is.
SavedMeansWritten ==
  Top(stack) = "SaveSuccess" => files[load_path] = Rendered /\ ~credential.dirty

\* No path through the menus and their Back keys stacks a scene twice, so the
\* stack cannot grow with use.
NoSceneTwice == \A i, j \in DOMAIN stack : stack[i] = stack[j] => i = j

-----------------------------------------------------------------------------
\* "If a reader writes data during emulation, leaving the emulation screen
\* prompts to save it" (README.md:30-31).
LeavingPromptsToSave ==
  [][Top(stack) = "Emulate" /\ Top(stack') # "Emulate" /\ credential'.dirty
       => Top(stack') = "MutationSave"]_vars

\* load_path is "The path the loaded credential came from, empty when none was
\* loaded" (dfc_credential_storage.h:28), where the user is asked which file to
\* write.
LoadPathIsTheCardsOwn ==
  At("MutationSave") => load_path = credential.home

\* emulate_from_blank is "Set when Emulate was entered from "Blank Card" (main
\* menu) rather than from a saved credential's menu" (dfc_i.h:94-95): no card is
\* emulated from a saved menu with the flag set.
BlankFlagTellsTheWayIn ==
  At("Emulate") /\ emulate_from_blank => stack[Len(stack) - 1] = "MainMenu"
=============================================================================
