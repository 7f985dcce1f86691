# A TLA+ model of dfc-flipper

dfc-flipper emulates a MIFARE DESFire card on a Flipper Zero. The command
engine, its crypto and the credential codecs live in the submodule `lib/core`,
which is not part of this tree; this repository is everything around it: the
ISO-DEP transport, the application with its scenes, the credential files and a
card reader. These modules model that program, TLC checks them on small
instances, and TLAPS proves their state properties, and that the link implements
its service as long as no frame of a chain is lost, for every value of the constants.

## The system

| Part | Code | State | Operations | Module |
|---|---|---|---|---|
| ISO-DEP listener | `dfc_emulator_listener.c`, started in `scenes/dfc_scene_emulate.c:113-130` | the `iso_dep_*` fields of `struct Dfc`, the engine's `tx_buffer` | one callback: a received frame (PPS, R, S, I block), Halted, FieldOff | `IsoDepListener`, `IsoDepLink` |
| Application and scenes | `dfc.c`, `scenes/` | the scene manager's stack, the custom-event queue, `credential`, `listener`, `dfc_emulator`, `emulate_from_blank` | on_enter, on_event, on_exit of each scene | `DfcApp` |
| Credential storage | `dfc_credential_storage.c` | `store.load_path`, the files; while it works, `raw`, `octets`, the plugin | load, save, save beside, delete | `CredentialStorage`, `DfcApp` |
| Text codec plugins | `text_plugin/`, `dfc_text_codec_plugin.h` | bound host table | load, parse, write, unload | `CredentialStorage` |
| Radio ATS | `dfc_credential_storage.c:141-161`, `scenes/dfc_scene_emulate.c:15-42` | none | check at load, unpack at start | `RadioAts` |
| Reader | `dfc_reader.c`, `scenes/dfc_scene_read*.c` | `DfcReader`, secure messaging, the credential being filled | select, authenticate, read files, post a verdict | `DfcReader` |
| Platform port | `port/` | `DfcByteBuf` | bounded append, event forwarding | none |
| About text | `scenes/dfc_scene_about.c` | none | wrap and justify | none |

How they interact. The GUI thread runs one scene handler at a time. While the
Emulate scene is on screen a second thread, the firmware's NFC worker, calls
the listener callback for every frame; the callback calls the engine, which
changes `dfc->credential` and sets its `dirty` flag, and posts custom events to
the GUI queue. The GUI thread reads `dirty` when the user leaves, and stops the
worker only afterwards, in `on_exit`. Storage is called from the GUI thread
only, but its `load_path` is one string shared by the file browser, the save
prompt and the name validator, and it outlives the credential it belongs to.
The ATS a load accepts is unpacked, by other code, when an emulation starts.
The reader runs in the worker's callback too: it overwrites the UID and the
files of `dfc->credential` as it goes and posts one verdict to the Read screen.

What is hard. In the listener: frames lost, repeated and late; two block
numbers, a chunk offset, a kept frame and a half-gathered command that have to
agree after every one of about a dozen branches; three copies of a reset list.
In the application: the worker writing between two steps of the GUI thread;
flags and paths that survive the card they describe; saves that fail halfway;
a stack walked by searching backwards; events that are bare numbers, queued, and
handled by whichever scene is current by then. In storage: early returns that
must release exactly what was acquired, on a heap too small for two copies, where
`malloc` halts instead of failing. In the reader: a read that fails halfway, the next
one with another card, and a GUI that leaves while the callback runs. What makes each part correct:

* listener: a command is handed to the engine whole, once, and its own response
  is what the reader gets; a retransmission is exact; nothing crosses an
  activation; buffers hold; a session keeps its CID; a retry is answered;
* application: the emulator exists only on its screen; the GUI leaves a running
  card alone; a write is never left without the prompt; the stack stays finite;
* storage: "Saved!" means the file holds the card; the path names the card's
  own file; a failed load leaves no card and no buffer behind; a text file's
  buffer leaves its parser room; an accepted ATS is the one that is answered;
* reader: a card shown as read is one card; one read gives one verdict, to the
  screen that waits for it; a read ends.

## The modules

**`IsoDepListener`** models the build without `type_4_tag.h`, where the
repository does its own framing. Each variable is one `iso_dep_*` field (a
length and its array are one sequence, `iso_dep_cid_valid` and `iso_dep_cid` are
one `cid`, and `response_offset` counts payload octets instead of octets of the
buffer), each action one branch of `dfc_worker_listener_callback`, in the order
the code tests them. Octets are pairs `<<origin, position>>`, so that a property can
say where an octet was written and which one it is. `Dispatch` gives every
outcome the engine may have; the engine itself is external. `Transmit`
may fail, as `send_frame` may. The peer is arbitrary: every kind of frame the
code tells apart may arrive at any time.

**`IsoDepLink`** composes the same actions with a reader that keeps the block
protocol rules of ISO/IEC 14443-4 and a radio that loses frames and lets
time-outs come too early. The reader and the radio are external to this
repository. **`CommandService`** is what both ends should amount to: issue,
execute at most once, return the response. `ImplementsService` states the
refinement: the pending command is the one the reader is sending or reading
the response of, its response is what the engine left in `tx_buffer`.
`RunAndAnsweredOnce` says in the link's own variables what the service promises of
retransmission.

**`DfcApp`** is the stack of scenes, the event queue, the credential, the flags,
the files and the worker. Every handler of the GUI thread is one step, but
leaving Emulate is two: `on_event` reads `dirty` and chooses the way, `on_exit`
stops the worker. A key press only queues its number; `HandleEvent` gives it
to the scene that is current by then, where the numbers of submenu items and
dialog buttons overlap as they do in the code. The Back key is not queued.
`ReaderWrites` may happen whenever the worker runs. A save may succeed, tear the
file or leave it alone, a load may fail or succeed (also on a torn file, which may
parse), a deletion may fail, entering Emulate may fail. The card itself is whose
it is and how many writes it has seen. Scene manager, file browser, file system
and engine are external.

**`CredentialStorage`** looks inside two of the steps of `DfcApp`: the stages of a load
(`dfc_credential_storage.c:276-384`) and of writing a file, over a heap that
is a set of blocks with sizes. `raw` and `octets` point to blocks, `codec` is the plugin in
memory; a stage that allocates, frees, parses or converts is an action, and
each early exit is an action of its own. Blocks are freed one by one, and a block
freed twice stays marked as corrupt. `free_heap` is what `memmgr_get_free_heap`
would report, any of `Heaps` when an operation starts; the heap guard computes on it
modulo `2^Width`. **`RadioAts`** has the check of an ATS and its unpacking, both
cursors over the octets, as functions; `CredentialStorage` uses them where
the code does.

**`DfcReader`** has the worker's callback exchange by exchange
(`dfc_worker_poller_dispatch`, `dfc_state_machine`) and the Read, ReadSuccess and
ReadError scenes with what leads on from them. The credential is whose UID it holds and
whose contents each file holds, or nothing. A UID is taken over only from a card of
`Fitting`, as `dfc_reader_capture_uid` does (`dfc_reader.c:59`). As with Emulate, leaving
Read is two steps, `on_event` and the stop of the poller, which waits for a running
callback. Back from a SavedMenu clears the credential and goes back to the screen below
(`dfc_scene_saved_menu.c:55-60`); the other scenes of `DfcApp` on top of MainMenu, SaveName and
SavedMenu are one scene, `Elsewhere`, that comes back where it likes. No scene of this
commit enters Read, so the way in is external: an item of the main menu, whose presses are
queued as those of the other items are. `entry` is a history variable, for the properties:
what was waiting in the queue when Read was last entered, nothing ("fresh"),
a further press of the entry ("again") or a verdict of an earlier read ("overdue").

**`MC*`** modules instantiate these; **`*_proofs`** hold the proofs.
Operators marked `mutant` are the plausible bugs the properties are tried
against; nothing else uses them.

## What each run shows

| Run | Bounds | Result |
|---|---|---|
| `listener` | frames of 3 octets, command array of 2, responses of 0 and 3, payloads 0, 1, 3, one CID, 2 commands in each of 3 activations | `TypeOK`, `ActivationIsolation`, `LastFrameIsLastChunk`, `PendingResponse`, `CommandFits`, `CidFixedOnceEngineRan` hold |
| `link_service` | 3 commands of 1 to 3 blocks, 2 activations, with and without CID, 3 faults on one-block commands, fair | `ImplementsService`, `RunAndAnsweredOnce`, `AnsweredOnceBound`, `FarewellIsReturned` hold |
| `link_lossy_results` | commands of 1 to 3 blocks, one fault | `ResultsAnswerTheirCommand` fails |
| `link_lossy_commands` | commands of 1 or 4 blocks, one fault | `EngineGetsIssuedCommands` fails |
| `link_cid_lossy` | one command, CID, one fault, fair | `EveryCommandAnswered` fails |
| `link_overflow` | a command of 4 blocks for an array of 2, no faults | `EngineGetsIssuedCommands` fails |
| `app` | two names, a text and a compiled file of one of them, 2 writes per card, 2 queued events | `TypeOK`, `EmulationOnlyOnScreen`, `MenuCardIsLoaded`, `SavedMeansWritten`, `NoSceneTwice`, `GuiLeavesRunningCardAlone` hold |
| `app_prompt` | as `app`, 1 write | `LeavingPromptsToSave` fails |
| `app_load_path` | as `app`, 1 write | `LoadPathIsTheCardsOwn` fails |
| `app_blank_flag` | as `app`, 1 write | `BlankFlagTellsTheWayIn` fails |
| `storage` | files of 0, 1, 4 and 9 octets, 2 or 10 octets of heap free and 2 blocks to hand out, a 4-bit `size_t`, ATS of 0 to 6 octets around every limit | `TypeOK`, `BlocksAreOwned`, `SourceGoneBeforeCopy`, `ReserveIsLeft`, `LoadVerdictIsTrue`, `AtsReachesTheAir`, `OldFileKeptUntilRendered` hold |
| `reader` | 3 cards, one with a UID that does not fit, 3 files (the second of another application), 3 queued events, fair | `TypeOK`, `SessionOnlyOnScreen`, `ReadCardIsOneCard`, `OneVerdict`, `OverdueNeedsTwoPresses`, `ReadEnds` hold |

Why the bounds are enough. A frame of 3 octets is the smallest that leaves room
for payload behind a CID; a response of 3 octets then takes two or three chunks, so
there is a first, a middle and a last one. A command array of 2 octets is
filled, overflowed by a chain and exceeded by one block. Block numbers have
period two, so two commands and a retry already meet every pairing of the two sides'
numbers; `link_service` has a third command, to see what the second one's
leftovers do. `LossyBlocks` keeps its faults to one-block commands, because a
loss inside a chain does break the service (the two lossy runs). Three
activations show what survives two different ends of a session.
In `app`, a second name gives a copy a place to go and a compiled file gives
Update File a neighbour to meet; a second write distinguishes a card saved from
a card written since; two queued events are one that is stale and one that
follows it, and the stack is bounded whatever the queue holds. In `storage`, a load
holds at most two blocks (source and copy), so two block names let a third,
or a leaked one, be noticed; the sizes lie below, at and above what fits, the smaller heap is less than
the reserve, and a 4-bit `size_t` wraps within reach. In `reader`, the second card follows the
first after any partial read, the third comes without a UID after either, the middle file
must be skipped, and three queued events are two presses of the entry and what
follows; verdicts are not bounded. The deadlock
check is on in `listener` and `reader`; the link runs stop when the reader has issued
its last command, `app` when the user has left the application, `storage` when an allocation has halted
the firmware, so it is off there.

Fairness. `FairLinkSpec` assumes weak fairness of three actions: the worker
thread calls the callback for a frame that has arrived, the reader handles a
frame that has arrived, and the reader's frame waiting time expires when nothing
is on its way. Losses are bounded by `MaxFaults`: under unbounded loss nothing can
be promised. `FairSpec` of `DfcReader` assumes it of the callback (each exchange with
the card ends, by an answer or a time-out of the radio), of the GUI thread
handling its queue, and of its return from waiting for the worker. Nobody has to
issue a command, lose a frame, leave the field, present a card or press a key.

### What the failing runs show

* **A lost block of a chained command.** The R-block branch
  (`dfc_emulator_listener.c:146`) does not ask whether a command is being
  gathered, as the I-block branch does at line 183, and chaining never updates
  `picc_block`. If the last block is lost, R(NAK) carries the number of the response
  to the command before, which is sent again and accepted as the answer
  (`link_lossy_results`). If a middle block is lost, R(ACK) (line 158) names it and the
  reader goes on; of four blocks the engine is handed the first and the last as one
  command (`link_lossy_commands`). "hands the engine a bare command, and returns the
  response the engine wrote" (lines 3-5) then holds of neither. Without a loss, and
  for commands of one block, it does (`link_service`).
* **The tail of a command that is too long.** An overflow drops what was
  gathered but leaves `expected_pcd_block` as it is (line 220). The reader's
  retry is acknowledged so that it sends the block again, which now is the first of a
  new chain: the engine is handed the command's tail, with no frame lost
  (`link_overflow`).
* **A lost first block with a CID.** Until a first I-block arrives the
  card knows no CID, and line 145 drops every R-block that carries one: the
  reader's retries stay unanswered (`link_cid_lossy`).
* **A write that escapes the prompt.** `dirty` is read at
  `dfc_scene_emulate.c:157`, the worker stops at 175 (`app_prompt`).
* **A path that outlives its card.** Blank Card does not clear `load_path`, which names the
  file chosen last, also one whose load was refused (TLC's shortest trace), so the
  save prompt offers Update File over that file (`app_load_path`). When no
  SavedMenu is on the stack, Discard then finds nowhere to go back to.
* **A flag that outlives the blank card.** The name screen a written blank card is saved
  from (`dfc_scene_save_name.c:60-66`) does not reset `emulate_from_blank`: a save
  that fails ends in the main menu with the flag set (the shortest trace), one that
  succeeds gets there through SaveSuccess. The next saved card is emulated with it
  (`app_blank_flag`).

### What holds only with an exception

Four things the code does are no divergence from any text of the repository, but
limit what the properties of `reader` and `storage` say:

* a card whose UID is absent or too long leaves the UID that was there beside its own
  files (`dfc_reader.c:59`); `ReadCardIsOneCard` speaks of the UID of fitting cards only;
* Back from a SavedMenu that was reached from ReadSuccess returns to "Card Read" with
  the credential cleared (`dfc_scene_saved_menu.c:59`); `ReadCardIsOneCard` asks
  that nothing is left of the card then;
* a verdict is tied to no read (`dfc_scene_read.c:33-40`): if the entry is pressed twice, and Back
  leaves the first Read while its callback ends, the second Read shows the first one's
  verdict. `OneVerdict` and `ReadCardIsOneCard` except such a Read, and
  `OverdueNeedsTwoPresses` says that there is no other way to it;
* the reserve for the text parser is chosen by the file's extension
  (`dfc_credential_storage.c:278-283`), the parser by its first octet (324): a text in a `.dfcb` file
  is parsed without a reserve, and `ReserveIsLeft` speaks of `.dfc` files.

## What is proved

The theorems hold for every value of the constants, under the named assumption of the
module (`AppAssumption`, `StorageAssumption`, `ReaderAssumption`, `LinkAssumption`; four in
`IsoDepListener`) and, for the link, the limits named below.
Each component's theorems share one inductive invariant, checked with TLC first, of
which every stated property is a part or a consequence.

**`IsoDepListener_proofs`**: `TypeCorrectness`, `ActivationsAreIsolated`,
`RetransmissionIsExact`, `ResponseIsNotOvertaken`, `CommandIsBounded`,
`CidIsFixed`, for every `FrameMax >= 3` and `CommandCap > 0`. The invariant adds two
facts to the properties. Octets of `tx_buffer` come from this activation (or are
the fixed length error), because a chunk cut later is a slice of `tx_buffer`, so
without it `ActivationIsolation` does not survive `ContinueResponse`. And an
engine that ran has left a response, because that is what binds the session
to its CID. `PendingResponse` is needed by `LastFrameIsLastChunk`: a command handled
while chunks remain would replace the buffer they are cut from.

**`IsoDepLinkCard_proofs`** and **`IsoDepLink_proofs`**: `LinkImplementsService`, the
refinement of `CommandService`, for any number of commands, blocks, activations, faults
and frames in flight and any CIDs, and from the same invariant
`EngineIsHandedIssuedCommands`, `ResultsAreAnswers` and `CommandsRunAndAnsweredOnce`. The
first two of these state `EngineGetsIssuedCommands` and `ResultsAnswerTheirCommand`, which three of
the failing runs violate outside the limits. All of them
assume `LinkWithinLimits`, and each of its three limits is needed:

* `LossyBlocks <= 1`: faults befall one-block commands only. With 2, TLC refutes the
  refinement (so do the two lossy runs, further on);
* every command fits the array: `link_overflow` shows what happens otherwise;
* no wrapped command lies about its length: the listener answers that one itself
  (`dfc_emulator_listener.c:270-279`), which the service does not know.

The invariant, `LinkInv`, has five phases, by what the reader is doing: idle, saying
goodbye, sending a command, waiting for the answer the engine has written, fetching the
rest of it. A phase relates the block numbers of both ends, the gathered command to the
blocks sent, the kept frame and the offset to what was read, and says what may
be on its way, and in what order: the blocks of a command in theirs, frames of the exchange
before never between two of them, the acknowledgement of a chunk behind all that is
older. The order is needed. A repeated block may still be on its way when the
reader has got its answer and gone on; it is harmless because it arrives before the next
block does, while its number is still the one the listener takes for a repetition. The
first module has the card's steps, the second the reader's and the faults, and shows
of each that the mapped variables take a step of the service or none. `ResultsOK`
is the second invariant: each result is an answer to a command that was run, in
order; it rests on `LinkInv`, which says that the response being read is of the
command run last.

**`DfcApp_proofs`**: `TypeCorrectness`, `EmulatorIsOnScreen`,
`MenuHasItsCard`, `SavedIsWritten`, `SceneStackClimbs`,
`RunningCardIsLeftAlone`, for any names, files and queue length. That a stack never
holds a scene twice is not inductive. What is: each scene has a level, and along
the stack levels strictly climb. A scene only pushes scenes above its own, and
what is searched backwards lies below. Because an event may be stale, the
level order has to hold for every event in every scene, not only for those the
scene drew.

**`CredentialStorage_proofs`**: `TypeCorrectness`, `BlocksHaveOwners`,
`CopyIsAlone`, `ReserveIsKept`, `VerdictsAreTrue`, `AcceptedAtsIsDelivered`,
`OldFileIsKept`, and `HeapGuardIsExact`: for a `size_t` of any width the
guard's three tests hold exactly when block and reserve fit, so the difference
never wraps; `ReserveIsKept` rests on it. The invariant says, stage by stage, which
pointers own a block, that no block is freed twice, and what the guard's answer
left free.

**`RadioAts_proofs`**: `SupportedAtsIsAnswered` and `SupportedAtsIsDeliverable`, for
an ATS of any length. Check and unpacking move their cursors by different tests;
the lemma between them is that both stand at the same octet after
each optional interface byte of an ATS that is accepted.

**`DfcReader_proofs`**: `TypeCorrectness`, `SessionIsOnScreen`,
`CardReadIsOneCard`, `VerdictIsSingle`, `NextReadIsNotOverdue`, for any cards, with and without
a UID that fits, any files and any queue. The
invariant has five parts. `Shape`: there are only nine stacks. `Typed`. `Session`: the
callback runs only while Read is on top. `Progress`: every primary file before
`next` is this attempt's card's, and no other file was touched; a read is
complete when none is left at or after `next`, which needs that a non-empty set of
naturals has a least element. `Verdicted`: where a verdict may wait, and
that a good one waits only beside a complete card. The last two need each other. Of a
Read entered fresh `Verdicted` also says that no verdict waits behind a press
of the entry: none was waiting when it was entered, and none can be made while it is on
screen. A later press of the entry therefore finds the verdicts taken before it.

## What is only model-checked

`AnsweredOnceBound`, `FarewellIsReturned` and `ReadEnds`: liveness
under fairness is out of the prover's reach, as ENABLED is. No module uses a RECURSIVE
operator, and no theorem needs an induction over data. What holds of the link outside its limits is known
only from the runs that show it failing.

## What is not modelled

* The listener in the build with `type_4_tag.h`: the firmware frames there, and
  no protocol state is left in this repository.
* The engine, its crypto and codecs (`lib/core`, absent from this tree); the keys
  and ciphers of the reader are abstracted to success or failure.
* `DfcByteBuf` and the event forwarding of `port/`: a bounded append, and a queue
  entry that Emulate only redraws for.
* The About text: wrapping and justifying one fixed string, with no effect
  on anything else.
* The body of the text plugins, a table of forwarding calls.
* The firmware's scene manager, queue and radio beyond what the code relies on,
  among it whether a send to a full queue blocks the worker
  (`dfc_scene_emulate.c:175` would then wait for a thread that waits for it).
* View contents, icons, logging, host tests and tools.

## Plan

Done, in the order of what depends on what: the listener; the link, which
says what the listener is for (and, last of all, the proof that it does it); the application, where the two threads
meet, then its event queue; the storage stages and the ATS; the reader.
Left:

1. `DfcReader` composed with the whole of `DfcApp`, once Read has an entry, in place of
   `Elsewhere`.
2. The link with a wrapped command that lies about its length, answered
   without the engine: `CommandService` would need an answer that no execution
   precedes. That would remove one of the limits of the refinement.
3. Discard and a failed write half way (`dfc_scene_mutation_save.c:72`,
   `dfc_credential_storage.c:202`), once the repository says what they restore.
