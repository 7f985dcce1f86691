---------------------------- MODULE DfcApp_proofs ----------------------------
(***************************************************************************)
(* Theorems about DfcApp, for every set of names and files and every bound.  *)
(* The argument rests on the order of the scenes: each scene enters only     *)
(* scenes of a higher level, so the stack climbs, holds no scene twice, and  *)
(* has nothing above SaveSuccess and nothing below MainMenu.                 *)
(***************************************************************************)
EXTENDS DfcApp, SequenceTheorems, TLAPS

-----------------------------------------------------------------------------
(* The stack.                                                               *)
Level(scene) ==
  CASE scene = "MainMenu"                                -> 0
    [] scene \in {"FileSelect", "About"}                 -> 1
    [] scene = "SavedMenu"                               -> 2
    [] scene \in {"Emulate", "Info", "Delete"}           -> 3
    [] scene \in {"MutationSave", "DeleteSuccess"}       -> 4
    [] scene = "SaveName"                                -> 5
    [] OTHER                                             -> 6

Climbs(stk) ==
  /\ stk \in Seq(Scene)
  /\ stk # <<>> => stk[1] = "MainMenu"
  /\ \A i, j \in DOMAIN stk : i < j => Level(stk[i]) < Level(stk[j])

HasMenu(stk) == \E i \in DOMAIN stk : stk[i] = "SavedMenu"

LEMMA Levels ==
  /\ \A scene : Level(scene) \in 0..6
  /\ Level("MainMenu") = 0 /\ Level("FileSelect") = 1 /\ Level("About") = 1
  /\ Level("SavedMenu") = 2
  /\ Level("Emulate") = 3 /\ Level("Info") = 3 /\ Level("Delete") = 3
  /\ Level("MutationSave") = 4 /\ Level("DeleteSuccess") = 4
  /\ Level("SaveName") = 5 /\ Level("SaveSuccess") = 6
BY DEF Level

\* Pushing a scene of a higher level.
LEMMA PushClimbs ==
  ASSUME NEW stk, Climbs(stk), stk # <<>>, NEW scene \in Scene, Level(Top(stk)) < Level(scene)
  PROVE  /\ Climbs(Append(stk, scene))
         /\ Append(stk, scene) # <<>>
         /\ Append(stk, scene) # stk
         /\ Top(Append(stk, scene)) = scene
         /\ HasMenu(Append(stk, scene)) => HasMenu(stk) \/ scene = "SavedMenu"
<1> DEFINE new == Append(stk, scene)
<1>1. stk \in Seq(Scene) /\ Len(stk) \in Nat \ {0} /\ DOMAIN stk = 1..Len(stk)
  BY EmptySeq, LenProperties DEF Climbs
<1>2. /\ new \in Seq(Scene) /\ new # <<>> /\ Len(new) = Len(stk) + 1
      /\ \A i \in 1..Len(stk) : new[i] = stk[i]
      /\ new[Len(stk) + 1] = scene
  BY <1>1, AppendProperties
<1>3. DOMAIN new = 1..(Len(stk) + 1)
  BY <1>2, LenProperties
<1>4. Top(stk) = stk[Len(stk)] /\ Top(new) = scene
  BY <1>2 DEF Top
<1> HIDE DEF new
<1>5. \A i, j \in DOMAIN new : i < j => Level(new[i]) < Level(new[j])
  <2> SUFFICES ASSUME NEW i \in DOMAIN new, NEW j \in DOMAIN new, i < j
               PROVE  Level(new[i]) < Level(new[j])
    OBVIOUS
  <2>1. i \in 1..Len(stk) /\ new[i] = stk[i]
    BY <1>1, <1>2, <1>3
  <2>2. CASE j \in 1..Len(stk)
    BY <1>1, <1>2, <2>1, <2>2 DEF Climbs
  <2>3. CASE j = Len(stk) + 1
    <3>1. Level(stk[i]) <= Level(Top(stk))
      BY <1>1, <1>4, <2>1, Levels DEF Climbs
    <3> QED
      BY <1>2, <2>1, <2>3, <3>1, Levels
  <2> QED
    BY <1>1, <1>3, <2>2, <2>3
<1>6. new[1] = "MainMenu"
  BY <1>1, <1>2 DEF Climbs
<1>7. HasMenu(new) => HasMenu(stk) \/ scene = "SavedMenu"
  BY <1>1, <1>2, <1>3 DEF HasMenu
<1>8. new # stk
  BY <1>1, <1>2
<1> QED
  BY <1>2, <1>4, <1>5, <1>6, <1>7, <1>8 DEF Climbs, new

\* Leaving scenes, down to the one at n.
LEMMA PrefixClimbs ==
  ASSUME NEW stk, Climbs(stk), NEW n \in 0..Len(stk)
  PROVE  /\ Climbs(SubSeq(stk, 1, n))
         /\ n = 0 => Top(SubSeq(stk, 1, n)) = "none"
         /\ n # 0 => Top(SubSeq(stk, 1, n)) = stk[n] /\ SubSeq(stk, 1, n) # <<>>
         /\ HasMenu(SubSeq(stk, 1, n)) => \E i \in 1..n : stk[i] = "SavedMenu"
         /\ HasMenu(SubSeq(stk, 1, n)) => HasMenu(stk)
<1> DEFINE new == SubSeq(stk, 1, n)
<1>1. stk \in Seq(Scene) /\ Len(stk) \in Nat /\ DOMAIN stk = 1..Len(stk)
  BY LenProperties DEF Climbs
<1>2. \A i \in 1..n : stk[i] \in Scene
  BY <1>1, ElementOfSeq
<1>3. /\ new \in Seq(Scene) /\ Len(new) = n
      /\ \A i \in 1..n : new[i] = stk[i]
  BY <1>1, <1>2, SubSeqProperties
<1>4. DOMAIN new = 1..n
  BY <1>3, LenProperties
<1>5. n = 0 => new = <<>>
  BY <1>3, EmptySeq
<1>6. n # 0 => new # <<>>
  BY <1>3, EmptySeq
<1> HIDE DEF new
<1>7. n = 0 => Top(new) = "none"
  BY <1>5 DEF Top
<1>8. n # 0 => Top(new) = stk[n]
  BY <1>3, <1>6 DEF Top
<1>9. Climbs(new)
  BY <1>1, <1>3, <1>4, <1>5 DEF Climbs
<1>10. HasMenu(new) => \E i \in 1..n : stk[i] = "SavedMenu"
  BY <1>3, <1>4 DEF HasMenu
<1>11. HasMenu(new) => HasMenu(stk)
  BY <1>1, <1>10 DEF HasMenu
<1> QED
  BY <1>6, <1>7, <1>8, <1>9, <1>10, <1>11 DEF new

\* What the current scene says of the ones below.
LEMMA TopIsHighest ==
  ASSUME NEW stk, Climbs(stk), stk # <<>>
  PROVE  /\ Len(stk) \in Nat \ {0} /\ Top(stk) = stk[Len(stk)] /\ Top(stk) \in Scene
         /\ stk[1] = "MainMenu"
         /\ \A i \in 1..(Len(stk) - 1) : Level(stk[i]) < Level(Top(stk))
         /\ HasMenu(stk) => Level(Top(stk)) >= 2
         /\ Top(stk) # "MainMenu" => Len(stk) >= 2
<1>1. stk \in Seq(Scene) /\ Len(stk) \in Nat \ {0} /\ DOMAIN stk = 1..Len(stk)
  BY EmptySeq, LenProperties DEF Climbs
<1>2. Top(stk) = stk[Len(stk)] /\ stk[1] = "MainMenu"
  BY DEF Top, Climbs
<1>3. Top(stk) \in Scene
  BY <1>1, <1>2, ElementOfSeq
<1>4. \A i \in 1..(Len(stk) - 1) : Level(stk[i]) < Level(Top(stk))
  BY <1>1, <1>2 DEF Climbs
<1>5. HasMenu(stk) => Level(Top(stk)) >= 2
  <2>1. SUFFICES ASSUME NEW i \in 1..Len(stk), stk[i] = "SavedMenu"
                 PROVE  Level(Top(stk)) >= 2
    BY <1>1 DEF HasMenu
  <2>2. CASE i = Len(stk)
    BY <1>2, <2>1, <2>2, Levels
  <2>3. CASE i # Len(stk)
    <3>0. i \in 1..(Len(stk) - 1)
      <4>1. Len(stk) \in Nat
        BY <1>1
      <4> QED
        BY <2>3, <4>1
    <3>1. Level(stk[i]) < Level(Top(stk)) /\ Level(stk[i]) = 2
      BY <1>4, <2>1, <3>0, Levels
    <3>2. Level(Top(stk)) \in 0..6
      BY Levels
    <3> QED
      BY <3>1, <3>2
  <2> QED
    BY <2>2, <2>3
<1> QED
  BY <1>1, <1>2, <1>3, <1>4, <1>5

\* Going back: any number of scenes, but at least the current one.
Below(stk) == \E n \in 0..(Len(stack) - 1) : stk = SubSeq(stack, 1, n)

LEMMA BackClimbs ==
  ASSUME Climbs(stack), stack # <<>>, NEW stk, Below(stk)
  PROVE  /\ Climbs(stk)
         /\ HasMenu(stk) => HasMenu(stack) /\ Level(Top(stack)) > 2
         /\ Top(stk) # "SaveSuccess" /\ Top(stk) # Top(stack)
<1>1. PICK n \in 0..(Len(stack) - 1) : stk = SubSeq(stack, 1, n)
  BY DEF Below
<1>2. Len(stack) \in Nat \ {0} /\ Top(stack) \in Scene
      /\ \A i \in 1..(Len(stack) - 1) : Level(stack[i]) < Level(Top(stack))
  BY TopIsHighest
<1>3. n \in 0..Len(stack) /\ 1..n \subseteq 1..(Len(stack) - 1)
  BY <1>1, <1>2
<1>4. /\ Climbs(stk)
      /\ n = 0 => Top(stk) = "none"
      /\ n # 0 => Top(stk) = stack[n]
      /\ HasMenu(stk) => \E i \in 1..n : stack[i] = "SavedMenu"
      /\ HasMenu(stk) => HasMenu(stack)
  BY <1>1, <1>3, PrefixClimbs
<1>5. HasMenu(stk) => Level(Top(stack)) > 2
  BY <1>2, <1>3, <1>4, Levels
<1>6. Top(stk) # "SaveSuccess" /\ Top(stk) # Top(stack)
  <2>1. CASE n = 0
    BY <1>2, <1>4, <2>1 DEF Scene
  <2>2. CASE n # 0
    <3>1. Level(Top(stk)) < Level(Top(stack)) /\ Level(Top(stack)) \in 0..6
      BY <1>1, <1>2, <1>4, <2>2, Levels
    <3> QED
      BY <3>1, Levels
  <2> QED
    BY <2>1, <2>2
<1> QED
  BY <1>4, <1>5, <1>6

LEMMA PoppedIsBelow ==
  ASSUME Climbs(stack), stack # <<>>
  PROVE  Below(Popped)
<1>1. Len(stack) - 1 \in 0..(Len(stack) - 1)
  BY TopIsHighest
<1> QED
  BY <1>1 DEF Below, Popped

\* A scene is on the stack once at most, so the CHOOSE has no choice.
LEMMA UnwoundIsBelow ==
  ASSUME Climbs(stack), stack # <<>>, NEW scene
  PROVE  /\ UnwoundTo(scene) = stack \/ Below(UnwoundTo(scene))
         /\ scene = "MainMenu" /\ Top(stack) # "MainMenu" => Below(UnwoundTo(scene))
<1> DEFINE below == {i \in 1..(Len(stack) - 1) : stack[i] = scene}
           last == CHOOSE i \in below : \A j \in below : j <= i
<1>1. Len(stack) \in Nat \ {0} /\ stack[1] = "MainMenu" /\ stack \in Seq(Scene)
      /\ (Top(stack) # "MainMenu" => Len(stack) >= 2)
  BY TopIsHighest DEF Climbs
<1>2. UnwoundTo(scene) = IF below = {} THEN stack ELSE SubSeq(stack, 1, last)
  BY DEF UnwoundTo
<1>3. ASSUME NEW i \in below PROVE \A j \in below : j <= i
  <2>1. SUFFICES ASSUME NEW j \in below, i < j PROVE FALSE
    BY <1>1
  <2>2. DOMAIN stack = 1..Len(stack)
    BY <1>1, LenProperties
  <2>3. Level(stack[i]) < Level(stack[j])
    BY <1>1, <2>1, <2>2 DEF Climbs
  <2>4. stack[i] = scene /\ stack[j] = scene /\ Level(scene) \in 0..6
    BY <2>1, Levels
  <2> QED
    BY <2>3, <2>4
<1>4. below # {} => last \in below
  BY <1>3
<1>5. below # {} => Below(UnwoundTo(scene))
  <2>1. SUFFICES ASSUME below # {} PROVE Below(UnwoundTo(scene))
    OBVIOUS
  <2>2. last \in 0..(Len(stack) - 1)
    BY <1>1, <1>4, <2>1
  <2>3. UnwoundTo(scene) = SubSeq(stack, 1, last)
    BY <1>2, <2>1
  <2> HIDE DEF last
  <2> QED
    BY <2>2, <2>3 DEF Below
<1>6. below = {} => UnwoundTo(scene) = stack
  BY <1>2
<1>7. scene = "MainMenu" /\ Top(stack) # "MainMenu" => 1 \in below
  BY <1>1
<1> QED
  BY <1>5, <1>6, <1>7

-----------------------------------------------------------------------------
(* The inductive invariant.                                                  *)
CardAtHome == credential.owner # NoCard /\ load_path = credential.home
SavedAsItIs == files[load_path] = Rendered /\ ~credential.dirty

Scenes ==
  /\ Climbs(stack) /\ Climbs(leaving)
  /\ leaving # <<>> => Top(stack) = "Emulate" /\ Top(leaving) # "SaveSuccess"
  /\ emulation \in BOOLEAN
  /\ EmulationOnlyOnScreen
  /\ HasMenu(stack) \/ HasMenu(leaving) => CardAtHome
  /\ Top(stack) = "SaveSuccess" => SavedAsItIs

Data ==
  /\ credential \in Credential
  /\ load_path \in Path \cup {NoPath}
  /\ emulate_from_blank \in BOOLEAN
  /\ files \in [Path -> Contents]

\* A text input reports a real name.
Queued ==
  /\ queue \in Seq(CustomEvent)
  /\ \A i \in 1..Len(queue) : queue[i].code = TextInputDone => queue[i].name \in Names

IInv == Scenes /\ Data /\ Queued

-----------------------------------------------------------------------------
(* What the helpers of the handlers keep.                                    *)

\* Entering a scene: it is enough that its stack climbs, that a card is loaded if
\* the saved menu is on it, and that the card is saved if it says so.
LEMMA SwitchKeepsScenes ==
  ASSUME Scenes, NEW stk, Climbs(stk), Switch(stk),
         HasMenu(stk) => CardAtHome',
         Top(stk) = "SaveSuccess" => SavedAsItIs'
  PROVE  Scenes'
<1>1. stack' = stk /\ leaving' = <<>>
  BY DEF Switch
<1>2. Climbs(leaving)' /\ ~HasMenu(leaving)'
  <2>1. Climbs(<<>>) /\ ~HasMenu(<<>>)
    BY EmptySeq DEF Climbs, HasMenu
  <2> QED
    BY <1>1, <2>1 DEF Climbs, HasMenu
<1>3. Climbs(stack)' /\ (HasMenu(stack)' => CardAtHome')
  BY <1>1 DEF Climbs, HasMenu
<1>4. Top(stack)' = Top(stk)
  BY <1>1 DEF Top
<1>5. emulation' \in BOOLEAN /\ (emulation' => Top(stk) = "Emulate")
  <2>1. CASE stk = stack
    BY <2>1 DEF Switch, Scenes, EmulationOnlyOnScreen
  <2>2. CASE stk # stack /\ Top(stk) = "Emulate"
    BY <2>2 DEF Switch
  <2>3. CASE stk # stack /\ Top(stk) # "Emulate" /\ Top(stack) = "Emulate"
    BY <2>3 DEF Switch
  <2>4. CASE stk # stack /\ Top(stk) # "Emulate" /\ Top(stack) # "Emulate"
    BY <2>4 DEF Switch, Scenes, EmulationOnlyOnScreen
  <2> QED
    BY <2>1, <2>2, <2>3, <2>4
<1> QED
  BY <1>1, <1>2, <1>3, <1>4, <1>5 DEF Scenes, EmulationOnlyOnScreen

LEMMA TakesKeepsQueue ==
  ASSUME Queued, NEW scene, NEW code, Takes(scene, code)
  PROVE  /\ Queued'
         /\ code = TextInputDone => Head(queue).name \in Names
<1>1. queue \in Seq(CustomEvent) /\ queue # <<>> /\ queue' = Tail(queue) /\ Head(queue).code = code
  BY DEF Takes, Queued
<1>2. /\ queue' \in Seq(CustomEvent) /\ Len(queue') = Len(queue) - 1
      /\ \A i \in 1..Len(queue') : queue'[i] = queue[i + 1]
      /\ Len(queue) \in Nat \ {0}
  BY <1>1, HeadTailProperties, EmptySeq
<1>3. \A i \in 1..Len(queue') : i + 1 \in 1..Len(queue)
  BY <1>2
<1>4. Head(queue) = queue[1] /\ 1 \in 1..Len(queue)
  BY <1>1, <1>2
<1> QED
  BY <1>1, <1>2, <1>3, <1>4 DEF Queued

LEMMA SaveToKeepsData ==
  ASSUME Data, NEW p, NEW name \in Names \cup {NoName}, NEW result \in WriteResult,
         result # "untouched" => p \in Path,
         SaveTo(p, name, result)
  PROVE  /\ credential' \in Credential
         /\ load_path' \in Path \cup {NoPath}
         /\ files' \in [Path -> Contents]
         /\ CardAtHome => CardAtHome'
         /\ result = "saved" => SavedAsItIs'
<1>1. Rendered \in Contents /\ [owner |-> Torn, edits |-> 0] \in Contents
  BY AppAssumption DEF Data, Credential, Contents, Rendered, Owner
<1>2. files' \in [Path -> Contents]
  <2>1. CASE result = "saved"
    BY <1>1, <2>1 DEF SaveTo, WriteFile, Data
  <2>2. CASE result = "torn"
    BY <1>1, <2>2 DEF SaveTo, WriteFile, Data
  <2>3. CASE result = "untouched"
    BY <2>3 DEF SaveTo, WriteFile, Data
  <2> QED
    BY <2>1, <2>2, <2>3 DEF WriteResult
<1>3. CASE result = "saved"
  <2>1. /\ p \in Path /\ load_path' = p
        /\ credential' = [credential EXCEPT !.dirty = FALSE, !.name = name, !.home = p]
        /\ files' = [files EXCEPT ![p] = Rendered]
    BY <1>3 DEF SaveTo, WriteFile
  <2>2. credential' \in Credential
    BY <2>1 DEF Data, Credential
  <2>3. /\ credential'.owner = credential.owner /\ credential'.edits = credential.edits
        /\ credential'.home = p /\ ~credential'.dirty
    BY <2>1 DEF Data, Credential
  <2>4. files'[load_path'] = Rendered
    BY <2>1 DEF Data
  <2>5. Rendered' = Rendered
    BY <2>3 DEF Rendered
  <2> QED
    BY <1>2, <2>1, <2>2, <2>3, <2>4, <2>5 DEF CardAtHome, SavedAsItIs
<1>4. CASE result # "saved"
  <2>1. load_path' = load_path /\ credential' = [credential EXCEPT !.name = name]
    BY <1>4 DEF SaveTo
  <2>2. credential' \in Credential /\ credential'.owner = credential.owner
        /\ credential'.home = credential.home
    BY <2>1 DEF Data, Credential
  <2> QED
    BY <1>2, <1>4, <2>1, <2>2 DEF CardAtHome, Data
<1> QED
  BY <1>3, <1>4

\* Three ways to leave a scene, none of which takes the card off the menu.
LEMMA PushKeepsScenes ==
  ASSUME Scenes, stack # <<>>, NEW scene \in Scene, Level(Top(stack)) < Level(scene),
         Switch(Pushed(scene)),
         CardAtHome => CardAtHome',
         scene = "SavedMenu" => CardAtHome',
         scene = "SaveSuccess" => SavedAsItIs'
  PROVE  Scenes'
<1>1. /\ Climbs(Pushed(scene)) /\ Top(Pushed(scene)) = scene
      /\ HasMenu(Pushed(scene)) => HasMenu(stack) \/ scene = "SavedMenu"
  BY PushClimbs DEF Scenes, Pushed
<1> QED
  BY <1>1, SwitchKeepsScenes DEF Scenes

LEMMA BackKeepsScenes ==
  ASSUME Scenes, stack # <<>>, NEW stk, Below(stk), Switch(stk), CardAtHome => CardAtHome'
  PROVE  Scenes'
<1>1. Climbs(stk) /\ (HasMenu(stk) => HasMenu(stack)) /\ Top(stk) # "SaveSuccess"
  BY BackClimbs DEF Scenes
<1> QED
  BY <1>1, SwitchKeepsScenes DEF Scenes

LEMMA UnwindKeepsScenes ==
  ASSUME Scenes, stack # <<>>, NEW scene, Switch(UnwoundTo(scene)), CardAtHome => CardAtHome',
         Top(stack) = "SaveSuccess" => scene = "MainMenu"
  PROVE  Scenes'
<1>1. Climbs(stack)
  BY DEF Scenes
<1>2. CASE Below(UnwoundTo(scene))
  BY <1>2, BackKeepsScenes
<1>3. CASE ~Below(UnwoundTo(scene))
  <2>1. UnwoundTo(scene) = stack /\ Top(stack) # "SaveSuccess"
    BY <1>1, <1>3, UnwoundIsBelow
  <2> QED
    BY <1>1, <2>1, SwitchKeepsScenes DEF Scenes
<1> QED
  BY <1>2, <1>3

LEMMA CardTypes ==
  /\ \A owner \in Owner, edits \in 0..MaxEdits, name \in Names \cup {NoName},
        home \in Path \cup {NoPath} : Card(owner, edits, name, home) \in Credential
  /\ ClearedCard \in Credential
  /\ BlankCard \in Credential
<1>1. \A owner \in Owner, edits \in 0..MaxEdits, name \in Names \cup {NoName},
        home \in Path \cup {NoPath} : Card(owner, edits, name, home) \in Credential
  BY DEF Card, Credential
<1>2. 0 \in 0..MaxEdits /\ NoCard \in Owner /\ Blank \in Owner
  BY AppAssumption DEF Owner
<1> QED
  BY <1>1, <1>2 DEF ClearedCard, BlankCard

LEMMA AtScene ==
  ASSUME NEW scene \in Scene, At(scene)
  PROVE  stack # <<>> /\ Top(stack) = scene
BY DEF At, Top, Scene

LEMMA TakesAt ==
  ASSUME NEW scene \in Scene, NEW code, Takes(scene, code)
  PROVE  stack # <<>> /\ Top(stack) = scene
BY AtScene DEF Takes

-----------------------------------------------------------------------------
(* The handlers.                                                            *)

\* Menus: nothing but the stack, the queue and, for a blank card, the credential.
LEMMA MenusKeepIInv ==
  ASSUME IInv,
         \/ MainMenuSaved \/ MainMenuBlankCard \/ MainMenuAbout \/ SaveUnderName
         \/ \E scene \in {"Emulate", "Info", "Delete"} : SavedMenuChoice(scene)
  PROVE  IInv'
<1>0. Scenes /\ Data /\ Queued
  BY DEF IInv
<1>1. CASE MainMenuSaved
  <2>1. Takes("MainMenu", 0) /\ Switch(Pushed("FileSelect"))
    BY <1>1 DEF MainMenuSaved
  <2>2. stack # <<>> /\ Top(stack) = "MainMenu" /\ Queued'
    BY <1>0, <2>1, TakesAt, TakesKeepsQueue DEF Scene
  <2>3. Data' /\ (CardAtHome => CardAtHome')
    BY <1>0, <1>1 DEF MainMenuSaved, Data, CardAtHome
  <2> QED
    BY <1>0, <2>1, <2>2, <2>3, PushKeepsScenes, Levels DEF Scene, IInv
<1>2. CASE MainMenuBlankCard
  <2>1. Takes("MainMenu", 1) /\ Switch(Pushed("Emulate"))
    BY <1>2 DEF MainMenuBlankCard
  <2>2. stack # <<>> /\ Top(stack) = "MainMenu" /\ Queued'
    BY <1>0, <2>1, TakesAt, TakesKeepsQueue DEF Scene
  <2>3. BlankCard \in Credential
    BY CardTypes
  <2>4. Data'
    BY <1>0, <1>2, <2>3 DEF MainMenuBlankCard, Data
  <2>5. ~HasMenu(stack)
    BY <1>0, <2>2, TopIsHighest, Levels DEF Scenes
  <2>6. Climbs(Pushed("Emulate")) /\ ~HasMenu(Pushed("Emulate"))
        /\ Top(Pushed("Emulate")) = "Emulate"
    BY <1>0, <2>2, <2>5, PushClimbs, Levels DEF Scenes, Scene, Pushed
  <2> QED
    BY <1>0, <2>1, <2>2, <2>4, <2>6, SwitchKeepsScenes DEF IInv
<1>3. CASE MainMenuAbout
  <2>1. Takes("MainMenu", 2) /\ Switch(Pushed("About"))
    BY <1>3 DEF MainMenuAbout
  <2>2. stack # <<>> /\ Top(stack) = "MainMenu" /\ Queued'
    BY <1>0, <2>1, TakesAt, TakesKeepsQueue DEF Scene
  <2>3. Data' /\ (CardAtHome => CardAtHome')
    BY <1>0, <1>3 DEF MainMenuAbout, Data, CardAtHome
  <2> QED
    BY <1>0, <2>1, <2>2, <2>3, PushKeepsScenes, Levels DEF Scene, IInv
<1>4. CASE SaveUnderName
  <2>1. PICK code \in {1, 2} : Takes("MutationSave", code)
    BY <1>4 DEF SaveUnderName
  <2>2. stack # <<>> /\ Top(stack) = "MutationSave" /\ Queued'
    BY <1>0, <2>1, TakesAt, TakesKeepsQueue DEF Scene
  <2>3. Data' /\ (CardAtHome => CardAtHome') /\ Switch(Pushed("SaveName"))
    BY <1>0, <1>4 DEF SaveUnderName, Data, CardAtHome
  <2> QED
    BY <1>0, <2>2, <2>3, PushKeepsScenes, Levels DEF Scene, IInv
<1>5. ASSUME NEW scene \in {"Emulate", "Info", "Delete"}, SavedMenuChoice(scene) PROVE IInv'
  <2>1. Takes("SavedMenu", SubmenuIndex[scene]) /\ Switch(Pushed(scene))
    BY <1>5 DEF SavedMenuChoice
  <2>2. stack # <<>> /\ Top(stack) = "SavedMenu" /\ Queued'
    BY <1>0, <2>1, TakesAt, TakesKeepsQueue DEF Scene
  <2>3. Data' /\ (CardAtHome => CardAtHome')
    BY <1>0, <1>5 DEF SavedMenuChoice, Data, CardAtHome
  <2>4. scene \in Scene /\ Level(scene) = 3 /\ scene # "SavedMenu" /\ scene # "SaveSuccess"
    BY Levels DEF Scene
  <2> QED
    BY <1>0, <2>1, <2>2, <2>3, <2>4, PushKeepsScenes, Levels DEF IInv
<1> QED
  BY <1>1, <1>2, <1>3, <1>4, <1>5

\* The file browser loads a card, or clears the credential, before there is a menu.
LEMMA SelectFileKeepsIInv ==
  ASSUME IInv, NEW p \in Path, SelectFile(p)
  PROVE  IInv'
<1>1. Scenes /\ Data /\ Queued'
  BY DEF IInv, SelectFile, Queued
<1>2. stack # <<>> /\ Top(stack) = "FileSelect"
  BY AtScene DEF SelectFile, Scene
<1>3. p[1] \in Names /\ files[p] \in Contents
  BY <1>1 DEF Path, Data
<1>4. load_path' = p /\ credential' \in {Card(files[p].owner, files[p].edits, p[1], p), ClearedCard}
  BY DEF SelectFile, LoadedFrom
<1>5. credential' \in Credential
  BY <1>3, <1>4, CardTypes DEF Contents
<1>6. Data'
  BY <1>1, <1>4, <1>5 DEF SelectFile, Data
<1>7. credential'.owner # NoCard => CardAtHome'
  BY <1>4 DEF Card, ClearedCard, CardAtHome
<1>8. ~HasMenu(stack) /\ Climbs(stack)
  BY <1>1, <1>2, TopIsHighest, Levels DEF Scenes
<1>9. Scenes'
  <2>1. CASE credential'.owner # NoCard
    <3>1. Switch(Pushed("SavedMenu"))
      BY <2>1 DEF SelectFile
    <3> QED
      BY <1>1, <1>2, <1>7, <2>1, <3>1, PushKeepsScenes, Levels DEF Scene
  <2>2. CASE credential'.owner = NoCard
    <3>1. Switch(UnwoundTo("MainMenu"))
      BY <2>2 DEF SelectFile
    <3>2. Below(UnwoundTo("MainMenu"))
      BY <1>2, <1>8, UnwoundIsBelow
    <3>3. Climbs(UnwoundTo("MainMenu")) /\ ~HasMenu(UnwoundTo("MainMenu"))
          /\ Top(UnwoundTo("MainMenu")) # "SaveSuccess"
      BY <1>2, <1>8, <3>2, BackClimbs
    <3> QED
      BY <1>1, <3>1, <3>3, SwitchKeepsScenes
  <2> QED
    BY <2>1, <2>2
<1> QED
  BY <1>1, <1>6, <1>9 DEF IInv

\* The ways back: the saved menu's clears the credential as it leaves the stack.
LEMMA WaysBackKeepIInv ==
  ASSUME IInv, SavedMenuBack \/ PopupTimeout \/ BackButton \/ BackKey
  PROVE  IInv'
<1>0. Scenes /\ Data /\ Queued
  BY DEF IInv
<1>1. CASE SavedMenuBack
  <2>1. stack # <<>> /\ Top(stack) = "SavedMenu" /\ Switch(Popped)
    BY <1>1, AtScene DEF SavedMenuBack, Scene
  <2>2. Climbs(Popped) /\ ~HasMenu(Popped) /\ Top(Popped) # "SaveSuccess"
    BY <1>0, <2>1, PoppedIsBelow, BackClimbs, Levels DEF Scenes
  <2>3. Scenes'
    BY <1>0, <2>1, <2>2, SwitchKeepsScenes
  <2>4. Data' /\ Queued'
    BY <1>0, <1>1, CardTypes DEF SavedMenuBack, Data, Queued
  <2> QED
    BY <2>3, <2>4 DEF IInv
<1>2. CASE PopupTimeout
  <2>1. PICK scene \in {"SaveSuccess", "DeleteSuccess"} : Takes(scene, ViewExit)
    BY <1>2 DEF PopupTimeout
  <2>2. stack # <<>> /\ Queued'
    BY <1>0, <2>1, TakesAt, TakesKeepsQueue DEF Scene
  <2>3. Data' /\ (CardAtHome => CardAtHome') /\ Switch(UnwoundTo("MainMenu"))
    BY <1>0, <1>2 DEF PopupTimeout, Data, CardAtHome
  <2> QED
    BY <1>0, <2>2, <2>3, UnwindKeepsScenes DEF IInv
<1>3. CASE BackButton
  <2>1. PICK scene \in {"Delete", "Info", "About"} : Takes(scene, 0)
    BY <1>3 DEF BackButton
  <2>2. stack # <<>> /\ Queued'
    BY <1>0, <2>1, TakesAt, TakesKeepsQueue DEF Scene
  <2>3. Data' /\ (CardAtHome => CardAtHome') /\ Switch(Popped)
    BY <1>0, <1>3 DEF BackButton, Data, CardAtHome
  <2> QED
    BY <1>0, <2>2, <2>3, PoppedIsBelow, BackKeepsScenes DEF IInv, Scenes
<1>4. CASE BackKey
  <2>1. stack # <<>> /\ Switch(Popped)
    BY <1>4 DEF BackKey, Top
  <2>2. Data' /\ (CardAtHome => CardAtHome') /\ Queued'
    BY <1>0, <1>4 DEF BackKey, Data, CardAtHome, Queued
  <2> QED
    BY <1>0, <2>1, <2>2, PoppedIsBelow, BackKeepsScenes DEF IInv, Scenes
<1> QED
  BY <1>1, <1>2, <1>3, <1>4

LEMMA DeleteKeepsIInv ==
  ASSUME IInv, NEW removed \in BOOLEAN, Delete(removed)
  PROVE  IInv'
<1>0. Scenes /\ Data /\ Queued
  BY DEF IInv
<1>1. stack # <<>> /\ Top(stack) = "Delete" /\ Queued'
  BY <1>0, TakesAt, TakesKeepsQueue DEF Delete, Scene
<1>2. Absent \in Contents
  BY AppAssumption DEF Absent, Contents, Owner
<1>3. Data' /\ (CardAtHome => CardAtHome')
  BY <1>0, <1>2 DEF Delete, RemoveFile, Data, CardAtHome
<1>4. Scenes'
  <2>1. CASE Switch(Pushed("DeleteSuccess"))
    BY <1>0, <1>1, <1>3, <2>1, PushKeepsScenes, Levels DEF Scene
  <2>2. CASE Switch(UnwoundTo("MainMenu"))
    BY <1>0, <1>1, <1>3, <2>2, UnwindKeepsScenes
  <2> QED
    BY <2>1, <2>2 DEF Delete
<1> QED
  BY <1>1, <1>3, <1>4 DEF IInv

\* A write of the reader changes neither whose card it is nor where it is kept.
LEMMA ReaderWritesKeepsIInv == IInv /\ ReaderWrites => IInv'
<1> SUFFICES ASSUME IInv, ReaderWrites PROVE IInv'
  OBVIOUS
<1>0. Scenes /\ Data /\ Queued
  BY DEF IInv
<1>1. /\ credential' = [credential EXCEPT !.edits = credential.edits + 1, !.dirty = TRUE]
      /\ credential.edits < MaxEdits /\ emulation
      /\ UNCHANGED <<stack, leaving, emulation, load_path, emulate_from_blank, files, queue>>
  BY DEF ReaderWrites
<1>2. /\ credential' \in Credential
      /\ credential'.owner = credential.owner /\ credential'.home = credential.home
  <2>1. credential \in Credential /\ credential.edits \in 0..MaxEdits
    BY <1>0 DEF Data, Credential
  <2>2. credential.edits + 1 \in 0..MaxEdits
    BY <1>1, <2>1, AppAssumption
  <2> QED
    BY <1>1, <2>1, <2>2 DEF Credential
<1>3. Data' /\ Queued' /\ (CardAtHome => CardAtHome')
  BY <1>0, <1>1, <1>2 DEF Data, Queued, CardAtHome
<1>4. Top(stack) = "Emulate"
  BY <1>0, <1>1 DEF Scenes, EmulationOnlyOnScreen
<1>5. Scenes'
  BY <1>0, <1>1, <1>3, <1>4 DEF Scenes, EmulationOnlyOnScreen, Climbs, HasMenu, Top
<1> QED
  BY <1>3, <1>5 DEF IInv

LEMMA EmulateKeepsIInv ==
  ASSUME IInv, EmulateBack \/ EmulateLeft
  PROVE  IInv'
<1>0. Scenes /\ Data /\ Queued /\ Climbs(stack) /\ Climbs(leaving)
  BY DEF IInv, Scenes
<1>1. CASE EmulateLeft
  <2>1. Switch(leaving) /\ leaving # <<>>
    BY <1>1 DEF EmulateLeft
  <2>2. Data' /\ Queued' /\ (CardAtHome => CardAtHome')
    BY <1>0, <1>1 DEF EmulateLeft, Data, Queued, CardAtHome
  <2>3. Scenes'
    BY <1>0, <2>1, <2>2, SwitchKeepsScenes DEF Scenes
  <2> QED
    BY <2>2, <2>3 DEF IInv
<1>2. CASE EmulateBack
  <2>1. stack # <<>> /\ Top(stack) = "Emulate"
    BY <1>2, AtScene DEF EmulateBack, Scene
  <2>2. leaving' \in {Pushed("MutationSave"), Popped}
        /\ UNCHANGED <<stack, emulation, credential, load_path, files, queue>>
    BY <1>2 DEF EmulateBack
  <2>3. /\ Climbs(Pushed("MutationSave")) /\ Top(Pushed("MutationSave")) = "MutationSave"
        /\ HasMenu(Pushed("MutationSave")) => HasMenu(stack)
    BY <1>0, <2>1, PushClimbs, Levels DEF Pushed, Scene
  <2>4. Climbs(Popped) /\ (HasMenu(Popped) => HasMenu(stack)) /\ Top(Popped) # "SaveSuccess"
    BY <1>0, <2>1, PoppedIsBelow, BackClimbs
  <2>5. PICK stk \in {Pushed("MutationSave"), Popped} : leaving' = stk
    BY <2>2
  <2>6. Climbs(stk) /\ (HasMenu(stk) => HasMenu(stack)) /\ Top(stk) # "SaveSuccess"
    BY <2>3, <2>4, <2>5
  <2>7. Climbs(leaving)' /\ (HasMenu(leaving)' => HasMenu(stack)) /\ Top(leaving)' # "SaveSuccess"
    BY <2>5, <2>6 DEF Climbs, HasMenu, Top
  <2>8. Data' /\ Queued'
    BY <1>0, <1>2, <2>2 DEF EmulateBack, Data, Queued
  <2>9. Scenes'
    BY <1>0, <2>1, <2>2, <2>7
    DEF Scenes, EmulationOnlyOnScreen, CardAtHome, SavedAsItIs, Climbs, HasMenu, Top
  <2> QED
    BY <2>8, <2>9 DEF IInv
<1> QED
  BY <1>1, <1>2

\* The save prompt and the name input: a save that succeeds makes the written file
\* the card's home, one that fails leaves it where it was.
LEMMA PromptReturns ==
  ASSUME Scenes, Data, stack # <<>>, Top(stack) = "MutationSave", MutationSaveReturn,
         CardAtHome => CardAtHome'
  PROVE  Scenes' /\ emulate_from_blank' \in BOOLEAN
<1>1. PICK scene \in {"SavedMenu", "MainMenu"} : Switch(UnwoundTo(scene))
  BY DEF MutationSaveReturn
<1> QED
  BY <1>1, UnwindKeepsScenes DEF MutationSaveReturn

LEMMA PromptKeepsIInv ==
  ASSUME IInv, Discard \/ \E result \in WriteResult : Update(result) \/ NameEntered(result)
  PROVE  IInv'
<1>0. Scenes /\ Data /\ Queued
  BY DEF IInv
<1>1. CASE Discard
  <2>1. stack # <<>> /\ Top(stack) = "MutationSave" /\ Queued'
    BY <1>0, <1>1, TakesAt, TakesKeepsQueue DEF Discard, Scene
  <2>2. /\ credential' = [credential EXCEPT !.dirty = FALSE] /\ MutationSaveReturn
        /\ UNCHANGED <<load_path, files>>
    BY <1>1 DEF Discard
  <2>3. /\ credential' \in Credential
        /\ credential'.owner = credential.owner /\ credential'.home = credential.home
    BY <1>0, <2>2 DEF Data, Credential
  <2>4. CardAtHome => CardAtHome'
    BY <2>2, <2>3 DEF CardAtHome
  <2>5. Scenes' /\ emulate_from_blank' \in BOOLEAN
    BY <1>0, <2>1, <2>2, <2>4, PromptReturns
  <2>6. Data'
    BY <1>0, <2>2, <2>3, <2>5 DEF Data
  <2> QED
    BY <2>1, <2>5, <2>6 DEF IInv
<1>2. ASSUME NEW result \in WriteResult, Update(result) PROVE IInv'
  <2>1. stack # <<>> /\ Top(stack) = "MutationSave" /\ Queued'
    BY <1>0, <1>2, TakesAt, TakesKeepsQueue DEF Update, Scene
  <2>2. result # "untouched" => TextBeside(load_path) \in Path
    BY <1>0, <1>2 DEF Update, Data, TextBeside, Path
  <2>3. credential.name \in Names \cup {NoName}
    BY <1>0 DEF Data, Credential
  <2>4. SaveTo(TextBeside(load_path), credential.name, result)
    BY <1>2 DEF Update
  <2>5. /\ credential' \in Credential /\ load_path' \in Path \cup {NoPath}
        /\ files' \in [Path -> Contents]
        /\ CardAtHome => CardAtHome'
        /\ result = "saved" => SavedAsItIs'
    BY <1>0, <2>2, <2>3, <2>4, SaveToKeepsData
  <2>6. CASE result = "saved"
    <3>1. Switch(Pushed("SaveSuccess")) /\ UNCHANGED emulate_from_blank
      BY <1>2, <2>6 DEF Update
    <3>2. Scenes'
      BY <1>0, <2>1, <2>5, <2>6, <3>1, PushKeepsScenes, Levels DEF Scene
    <3> QED
      BY <1>0, <2>1, <2>5, <3>1, <3>2 DEF IInv, Data
  <2>7. CASE result # "saved"
    <3>1. MutationSaveReturn
      BY <1>2, <2>7 DEF Update
    <3>2. Scenes' /\ emulate_from_blank' \in BOOLEAN
      BY <1>0, <2>1, <2>5, <3>1, PromptReturns
    <3> QED
      BY <2>1, <2>5, <3>2 DEF IInv, Data
  <2> QED
    BY <2>6, <2>7
<1>3. ASSUME NEW result \in WriteResult, NameEntered(result) PROVE IInv'
  <2> DEFINE n == Head(queue).name
  <2>1. stack # <<>> /\ Top(stack) = "SaveName" /\ Queued' /\ n \in Names
    BY <1>0, <1>3, TakesAt, TakesKeepsQueue DEF NameEntered, Scene
  <2>2. SaveTo(<<n, "dfc">>, n, result) /\ UNCHANGED emulate_from_blank
    BY <1>3 DEF NameEntered
  <2>3. <<n, "dfc">> \in Path
    BY <2>1 DEF Path
  <2> HIDE DEF n
  <2>4. /\ credential' \in Credential /\ load_path' \in Path \cup {NoPath}
        /\ files' \in [Path -> Contents]
        /\ CardAtHome => CardAtHome'
        /\ result = "saved" => SavedAsItIs'
    BY <1>0, <2>1, <2>2, <2>3, SaveToKeepsData
  <2>5. CASE result = "saved"
    <3>1. Switch(Pushed("SaveSuccess"))
      BY <1>3, <2>5 DEF NameEntered
    <3>2. Scenes'
      BY <1>0, <2>1, <2>4, <2>5, <3>1, PushKeepsScenes, Levels DEF Scene
    <3> QED
      BY <1>0, <2>1, <2>2, <2>4, <3>2 DEF IInv, Data
  <2>6. CASE result # "saved"
    <3>1. Switch(UnwoundTo("MainMenu"))
      BY <1>3, <2>6 DEF NameEntered
    <3>2. Scenes'
      BY <1>0, <2>1, <2>4, <3>1, UnwindKeepsScenes
    <3> QED
      BY <1>0, <2>1, <2>2, <2>4, <3>2 DEF IInv, Data
  <2> QED
    BY <2>5, <2>6
<1> QED
  BY <1>1, <1>2, <1>3

\* A button or submenu press is a custom event, and enters no name.
LEMMA ButtonEvents ==
  ASSUME NEW codes, codes \subseteq 0..3 \cup {ViewExit}, NEW e \in Indexed(codes)
  PROVE  e \in CustomEvent /\ (e.code = TextInputDone => e.name \in Names)
<1>1. \A code \in codes : code \in Code /\ code # TextInputDone
  BY DEF Code, ViewExit, TextInputDone
<1>2. codes \subseteq Code /\ e \in [code: codes, name: {NoName}]
  BY <1>1 DEF Indexed
<1>3. e.code \in codes
  BY <1>2
<1>4. e \in [code: Code, name: Names \cup {NoName}]
  BY <1>2
<1> QED
  BY <1>1, <1>3, <1>4 DEF CustomEvent

\* The queue alone.
LEMMA EventsKeepIInv ==
  ASSUME IInv, Post \/ IgnoreEvent
  PROVE  IInv'
<1>0. Scenes /\ Data /\ Queued /\ queue \in Seq(CustomEvent)
  BY DEF IInv, Queued
<1>1. UNCHANGED <<stack, leaving, emulation, credential, load_path, emulate_from_blank, files>>
  BY DEF Post, IgnoreEvent
<1>2. Scenes' /\ Data'
  BY <1>0, <1>1
  DEF Scenes, Data, EmulationOnlyOnScreen, CardAtHome, SavedAsItIs, Rendered, Climbs, HasMenu, Top
<1>3. CASE Post
  <2>1. PICK e \in Offered(Top(stack)) : queue' = Append(queue, e)
    BY <1>3 DEF Post
  <2>2. e \in CustomEvent /\ (e.code = TextInputDone => e.name \in Names)
    <3>1. CASE Top(stack) = "SaveName"
      BY <2>1, <3>1
      DEF Offered, CustomEvent, Code, EnterableNames, TextInputDone
    <3>2. CASE Top(stack) # "SaveName"
      <4>1. CASE Top(stack) \in {"MainMenu", "SavedMenu"}
        <5>1. e \in Indexed(0..2)
          BY <2>1, <4>1 DEF Offered
        <5> QED
          BY <5>1, ButtonEvents
      <4>2. CASE Top(stack) \in {"Info", "Delete"}
        <5>1. e \in Indexed({0}) \/ e \in Indexed({0, 2})
          BY <2>1, <4>2 DEF Offered
        <5> QED
          BY <5>1, ButtonEvents
      <4>3. CASE Top(stack) = "MutationSave"
        <5>1. e \in Indexed({0, 1, 3}) \/ e \in Indexed({2, 3})
          BY <2>1, <4>3 DEF Offered
        <5> QED
          BY <5>1, ButtonEvents
      <4>4. CASE Top(stack) \in {"SaveSuccess", "DeleteSuccess"}
        <5>1. e \in Indexed({ViewExit})
          BY <2>1, <4>4 DEF Offered
        <5> QED
          BY <5>1, ButtonEvents
      <4> QED
        BY <2>1, <3>2, <4>1, <4>2, <4>3, <4>4 DEF Offered
    <3> QED
      BY <3>1, <3>2
  <2>3. /\ queue' \in Seq(CustomEvent) /\ Len(queue') = Len(queue) + 1 /\ Len(queue) \in Nat
        /\ \A i \in 1..Len(queue) : queue'[i] = queue[i]
        /\ queue'[Len(queue) + 1] = e
    BY <1>0, <2>1, <2>2, AppendProperties, LenProperties
  <2>4. Queued'
    BY <1>0, <2>2, <2>3 DEF Queued
  <2> QED
    BY <1>2, <2>4 DEF IInv
<1>4. CASE IgnoreEvent
  <2>1. queue # <<>> /\ queue' = Tail(queue)
    BY <1>4 DEF IgnoreEvent
  <2>2. /\ queue' \in Seq(CustomEvent) /\ Len(queue') = Len(queue) - 1
        /\ \A i \in 1..Len(queue') : queue'[i] = queue[i + 1]
        /\ Len(queue) \in Nat \ {0}
    BY <1>0, <2>1, HeadTailProperties, EmptySeq
  <2>3. \A i \in 1..Len(queue') : i + 1 \in 1..Len(queue)
    BY <2>2
  <2>4. Queued'
    BY <1>0, <2>2, <2>3 DEF Queued
  <2> QED
    BY <1>2, <2>4 DEF IInv
<1> QED
  BY <1>3, <1>4

LEMMA StutterKeepsIInv == IInv /\ UNCHANGED vars => IInv'
<1> SUFFICES ASSUME IInv, UNCHANGED vars PROVE IInv'
  OBVIOUS
<1>1. UNCHANGED <<stack, leaving, emulation, credential, load_path, emulate_from_blank, files, queue>>
  BY DEF vars
<1>2. Scenes'
  BY <1>1
  DEF IInv, Scenes, EmulationOnlyOnScreen, CardAtHome, SavedAsItIs, Rendered, Climbs, HasMenu, Top
<1>3. Data' /\ Queued'
  BY <1>1 DEF IInv, Data, Queued
<1> QED
  BY <1>2, <1>3 DEF IInv

-----------------------------------------------------------------------------
(* The theorems.                                                            *)
LEMMA InitIInv == Init => IInv
<1> SUFFICES ASSUME Init PROVE IInv
  OBVIOUS
<1>1. /\ stack = <<"MainMenu">> /\ leaving = <<>> /\ queue = <<>> /\ emulation = FALSE
      /\ credential = ClearedCard /\ load_path = NoPath /\ emulate_from_blank = FALSE
      /\ files = [p \in Path |-> IF p \in Saved THEN [owner |-> p, edits |-> 0] ELSE Absent]
  BY DEF Init
<1>2. Climbs(leaving) /\ ~HasMenu(leaving)
  BY <1>1, EmptySeq DEF Climbs, HasMenu
<1>3. stack \in Seq(Scene) /\ Len(stack) = 1 /\ DOMAIN stack = 1..1 /\ stack[1] = "MainMenu"
  BY <1>1 DEF Scene
<1>4. Climbs(stack) /\ ~HasMenu(stack) /\ Top(stack) = "MainMenu"
  <2>1. \A i, j \in DOMAIN stack : ~(i < j)
    BY <1>3
  <2>2. \A i \in DOMAIN stack : stack[i] = "MainMenu"
    BY <1>3
  <2>3. Top(stack) = "MainMenu"
    BY <1>1, <1>3 DEF Top
  <2> QED
    BY <1>3, <2>1, <2>2, <2>3 DEF Climbs, HasMenu
<1>5. Scenes
  BY <1>1, <1>2, <1>4 DEF Scenes, EmulationOnlyOnScreen
<1>6. credential \in Credential
  BY <1>1, CardTypes
<1>7. files \in [Path -> Contents]
  <2>1. Absent \in Contents
    BY AppAssumption DEF Absent, Contents, Owner
  <2>2. \A p \in Path : [owner |-> p, edits |-> 0] \in Contents
    BY AppAssumption DEF Contents, Owner
  <2> QED
    BY <1>1, <2>1, <2>2
<1>8. Data
  BY <1>1, <1>6, <1>7 DEF Data
<1>9. Queued
  BY <1>1, EmptySeq DEF Queued
<1> QED
  BY <1>5, <1>8, <1>9 DEF IInv

LEMMA NextIInv == IInv /\ [Next]_vars => IInv'
<1> SUFFICES ASSUME IInv, [Next]_vars PROVE IInv'
  OBVIOUS
<1>1. CASE \/ MainMenuSaved \/ MainMenuBlankCard \/ MainMenuAbout \/ SaveUnderName
           \/ \E scene \in {"Emulate", "Info", "Delete"} : SavedMenuChoice(scene)
  BY <1>1, MenusKeepIInv
<1>2. CASE \E p \in Path : SelectFile(p)
  BY <1>2, SelectFileKeepsIInv
<1>3. CASE SavedMenuBack \/ PopupTimeout \/ BackButton \/ BackKey
  BY <1>3, WaysBackKeepIInv
<1>4. CASE \E removed \in BOOLEAN : Delete(removed)
  BY <1>4, DeleteKeepsIInv
<1>5. CASE ReaderWrites
  BY <1>5, ReaderWritesKeepsIInv
<1>6. CASE EmulateBack \/ EmulateLeft
  BY <1>6, EmulateKeepsIInv
<1>7. CASE Discard \/ \E result \in WriteResult : Update(result) \/ NameEntered(result)
  BY <1>7, PromptKeepsIInv
<1>8. CASE Post \/ IgnoreEvent
  BY <1>8, EventsKeepIInv
<1>9. CASE UNCHANGED vars
  BY <1>9, StutterKeepsIInv
<1> QED
  BY <1>1, <1>2, <1>3, <1>4, <1>5, <1>6, <1>7, <1>8, <1>9 DEF Next

THEOREM Invariance == Spec => []IInv
BY InitIInv, NextIInv, PTL DEF Spec

\* The stack holds scenes, load_path is empty or names a possible file, the files hold
\* cards and the queue events, whatever the menus, the files and the reader do.
THEOREM TypeCorrectness == Spec => []TypeOK
<1>1. IInv => TypeOK
  BY DEF IInv, Scenes, Data, Queued, Climbs, TypeOK
<1> QED
  BY <1>1, Invariance, PTL

\* The listener and its engine exist only on the Emulate screen, so the assertion that
\* entering it finds no emulator holds (dfc_scene_emulate.c:102).
THEOREM EmulatorIsOnScreen == Spec => []EmulationOnlyOnScreen
<1>1. IInv => EmulationOnlyOnScreen
  BY DEF IInv, Scenes
<1> QED
  BY <1>1, Invariance, PTL

\* The saved menu and every scene above it have a card, loaded from or saved to load_path.
THEOREM MenuHasItsCard == Spec => []MenuCardIsLoaded
<1>1. IInv => MenuCardIsLoaded
  BY DEF IInv, Scenes, HasMenu, CardAtHome, MenuCardIsLoaded
<1> QED
  BY <1>1, Invariance, PTL

\* "Saved!" is shown only over a file that holds the card as it is.
THEOREM SavedIsWritten == Spec => []SavedMeansWritten
<1>1. IInv => SavedMeansWritten
  BY DEF IInv, Scenes, SavedAsItIs, SavedMeansWritten
<1> QED
  BY <1>1, Invariance, PTL

\* No scene is stacked twice, so the stack is never deeper than there are levels.
THEOREM SceneStackClimbs == Spec => []NoSceneTwice
<1>1. IInv => NoSceneTwice
  <2> SUFFICES ASSUME Climbs(stack), NEW i \in DOMAIN stack, NEW j \in DOMAIN stack,
                      stack[i] = stack[j]
               PROVE  i = j
    BY DEF IInv, Scenes, NoSceneTwice
  <2>1. i \in Nat /\ j \in Nat
    BY LenProperties DEF Climbs
  <2>2. Level(stack[i]) \in Int /\ Level(stack[j]) = Level(stack[i])
    BY Levels
  <2>3. ~(i < j) /\ ~(j < i)
    BY <2>2 DEF Climbs
  <2> QED
    BY <2>1, <2>3
<1> QED
  BY <1>1, Invariance, PTL

\* While the worker runs, no handler of the GUI thread replaces, renames or writes the
\* card the worker is using.
THEOREM RunningCardIsLeftAlone == Spec => GuiLeavesRunningCardAlone
<1> DEFINE Quiet ==
      /\ credential' = [credential EXCEPT !.edits = credential'.edits, !.dirty = credential'.dirty]
      /\ credential'.dirty \/ ~credential.dirty
      /\ UNCHANGED <<load_path, files>>
<1>1. ASSUME IInv, [Next]_vars, emulation, emulation' PROVE Quiet
  <2>1. Data /\ stack # <<>> /\ Top(stack) = "Emulate" /\ Climbs(stack)
    BY <1>1 DEF IInv, Scenes, EmulationOnlyOnScreen, Top
  <2>2. CASE UNCHANGED <<credential, load_path, files>>
    <3>1. credential = [credential EXCEPT !.edits = credential.edits, !.dirty = credential.dirty]
      BY <2>1 DEF Data, Credential
    <3> QED
      BY <2>2, <3>1
  <2>3. CASE ReaderWrites
    <3>1. credential' = [credential EXCEPT !.edits = credential.edits + 1, !.dirty = TRUE]
          /\ UNCHANGED <<load_path, files>>
      BY <2>3 DEF ReaderWrites
    <3>2. credential \in Credential
      BY <2>1 DEF Data
    <3>3. credential'.edits = credential.edits + 1 /\ credential'.dirty = TRUE
      BY <3>1, <3>2 DEF Credential
    <3>4. credential' = [credential EXCEPT !.edits = credential'.edits, !.dirty = credential'.dirty]
      BY <3>1, <3>3
    <3> QED
      BY <3>1, <3>3, <3>4
  \* The rest belongs to other scenes.
  <2>4. CASE ~ReaderWrites /\ ~UNCHANGED <<credential, load_path, files>>
    <3>1. \/ MainMenuBlankCard \/ \E p \in Path : SelectFile(p)
          \/ SavedMenuBack \/ Discard
          \/ \E removed \in BOOLEAN : Delete(removed)
          \/ \E result \in WriteResult : Update(result) \/ NameEntered(result)
      BY <1>1, <2>4
      DEF Next, vars, MainMenuSaved, MainMenuAbout, SavedMenuChoice, EmulateBack, EmulateLeft,
          SaveUnderName, PopupTimeout, BackButton, BackKey, Post, IgnoreEvent
    <3>2. \E scene \in Scene \ {"Emulate"} : At(scene)
      BY <3>1
      DEF MainMenuBlankCard, SelectFile, SavedMenuBack, Discard, Delete, Update, NameEntered,
          Takes, Scene
    <3> QED
      BY <2>1, <3>2 DEF At
  <2> QED
    BY <2>2, <2>3, <2>4
<1>2. IInv /\ [Next]_vars => [emulation /\ emulation' => Quiet]_vars
  BY <1>1
<1> QED
  BY <1>2, Invariance, PTL DEF Spec, GuiLeavesRunningCardAlone
=============================================================================
