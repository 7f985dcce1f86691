-------------------------- MODULE CredentialStorage --------------------------
(***************************************************************************)
(* dfc_credential_storage.c: one load and one save at a time, stage by       *)
(* stage.  The stages of a load share the pointers raw and octets and the    *)
(* codec plugin; any of them may fail, and every failure leaves by the same  *)
(* cleanup.  A block is a number the allocator may hand out again as soon as *)
(* it is free, so a pointer kept too long can come to name another buffer.   *)
(*                                                                          *)
(* The allocator, the file system, the plugin manager and the codecs of      *)
(* lib/core are external.  memmgr's malloc does not return when nothing      *)
(* fits: the firmware halts.  The firmware's other threads allocate and free *)
(* between two operations, not within one.                                   *)
(***************************************************************************)
EXTENDS RadioAts

CONSTANTS
  Width,        \* bits of a size_t
  Heaps,        \* octets that may be free when an operation starts
  CodecSize,    \* what a loaded plugin takes
  MaxSize,      \* DFC_FLIPPER_CREDENTIAL_MAX_SIZE
  TextReserve,  \* DFC_TEXT_LOAD_HEAP_RESERVE
  Sizes,        \* sizes of files, and of what the codecs produce
  Atses,        \* the ATS a decoded credential may carry
  Block         \* the allocator's blocks

Null == 0
SizeT == 0..(2^Width - 1)

ASSUME StorageAssumption ==
  /\ Width \in Nat \ {0} /\ 2^Width \in Nat
  /\ Heaps \subseteq SizeT /\ CodecSize \in Nat
  /\ MaxSize \in SizeT /\ TextReserve \in SizeT
  /\ Sizes \subseteq SizeT
  /\ Atses \subseteq Seq(Byte)
  /\ Null \notin Block

VARIABLES
  stage,        \* where the running operation is, "idle" between two
  file,         \* the file being loaded: its size, extension and first octet
  raw, octets,  \* dfc_credential_file_load's pointers
  text,         \* dfc_credential_write_file's
  needed,       \* the size a codec has announced
  live,         \* the size of every allocated block, 0 of a free one
  free_heap,    \* what memmgr_get_free_heap reports
  codec,        \* "closed", "import" or "export"
  credential,   \* what dfc->credential holds: see Model
  status,       \* *status
  target        \* the file being saved

pointers == <<raw, octets, text>>
heap == <<live, free_heap>>
memory == <<pointers, needed, heap, codec>>
vars == <<stage, file, memory, credential, status, target>>

SelectedFile == [size: Sizes, ext: {"dfc", "dfcb"}, binary: BOOLEAN]
NoFile == [size |-> 0, ext |-> "dfc", binary |-> FALSE]
Status == {"Ok", "OpenFailed", "UnsupportedFormat", "MalformedFile", "CodecUnavailable", "Capacity"}
CodecStatusUnmapped == {"DfcTextUnsupported", "DfcTextMalformed", "DfcTextCapacity"}  \* mutant
CodecStatus == {"UnsupportedFormat", "MalformedFile", "Capacity"}   \* dfc_credential_status_for
\* Nothing; the model the text parser left; half a model; the model decoded
\* from binary octets, with its ATS and whether its UID can be detected.
Cleared == [model |-> "none", ats |-> <<>>, detectable |-> FALSE]
Model(m, ats, d) == [model |-> m, ats |-> ats, detectable |-> d]
Usable == credential.model = "decoded" /\ credential.detectable /\ RadioSupported(credential.ats)

LoadStages == {"read", "fill", "first octet", "parse", "encoded size", "copy", "encode",
               "decode", "check"}
SaveStages == {"export", "measure", "render", "truncate", "write"}

-----------------------------------------------------------------------------
(* The heap.                                                                *)
Minus(a, b) == (a - b + 2^Width) % 2^Width       \* on size_t

HasHeapForReserveFirst(allocation, reserve, largest, available) ==   \* mutant
  allocation <= largest /\ allocation <= Minus(available, reserve)
\* dfc_credential_has_heap_for, given what memmgr reports.
HasHeapFor(allocation, reserve, largest, available) ==
  /\ allocation <= largest
  /\ allocation <= available
  /\ reserve <= Minus(available, allocation)

NoBlock(b) == live[b] = 0
Malloc(size, b) == live' = [live EXCEPT ![b] = size] /\ free_heap' = free_heap - size

\* free(NULL) does nothing; freeing a block twice corrupts the heap.
Corrupt == -1
Freed(sizes, p) ==
  [b \in Block |-> IF b # p THEN sizes[b] ELSE IF sizes[b] > 0 THEN 0 ELSE Corrupt]
SizeOf(sizes, p) == IF p \in Block THEN sizes[p] ELSE 0
Free(p) == live' = Freed(live, p) /\ free_heap' = free_heap + SizeOf(live, p)

CodecTakes == IF codec = "closed" THEN 0 ELSE CodecSize
OpenCodec(for) ==
  CodecSize <= free_heap /\ codec' = for /\ free_heap' = free_heap - CodecSize /\ UNCHANGED live
CloseCodec ==
  codec' = "closed" /\ free_heap' = free_heap + CodecTakes /\ UNCHANGED live

Fail(why) == status' = why /\ stage' = "cleanup"

-----------------------------------------------------------------------------
(* dfc_credential_read_whole_file                                            *)
StartLoad(f) ==
  /\ stage = "idle"
  /\ stage' = "read"
  /\ file' = f
  /\ status' = "MalformedFile"
  /\ raw' = Null /\ octets' = Null
  /\ free_heap' \in Heaps
  /\ UNCHANGED <<text, needed, live, codec, credential, target>>

\* No buffer: the load returns at once, and its caller clears the credential.
ReturnUnread(why) ==
  /\ stage' = "idle" /\ status' = why
  /\ raw' = Null
  /\ file' = NoFile
  /\ credential' = Cleared
  /\ UNCHANGED <<octets, text, needed, codec, target>>

OpenFails == stage = "read" /\ ReturnUnread("OpenFailed") /\ UNCHANGED heap

ReserveOf(f) == IF f.ext = "dfc" THEN TextReserve ELSE 0
SizeAllowed == file.size # 0 /\ file.size <= MaxSize

SizeRefused ==
  /\ stage = "read" /\ ~SizeAllowed
  /\ ReturnUnread(IF file.size = 0 THEN "MalformedFile" ELSE "Capacity")
  /\ UNCHANGED heap

AllocateRaw(largest) ==
  /\ stage = "read" /\ SizeAllowed
  /\ IF HasHeapFor(file.size, ReserveOf(file), largest, free_heap)
       THEN /\ \E b \in Block : NoBlock(b) /\ Malloc(file.size, b) /\ raw' = b
            /\ stage' = IF file.size <= largest THEN "fill" ELSE "halted"
            /\ UNCHANGED <<file, octets, text, needed, codec, credential, status, target>>
       ELSE ReturnUnread("Capacity") /\ UNCHANGED heap

ShortRead ==
  /\ stage = "fill"
  /\ Free(raw)
  /\ ReturnUnread("OpenFailed")

FileRead ==
  /\ stage = "fill"
  /\ stage' = "first octet"
  /\ UNCHANGED <<file, memory, credential, status, target>>

-----------------------------------------------------------------------------
(* dfc_credential_file_load                                                  *)
BinaryFile ==
  /\ stage = "first octet" /\ file.binary
  /\ octets' = raw
  /\ stage' = "decode"
  /\ UNCHANGED <<file, raw, text, needed, heap, codec, credential, status, target>>

OpenImport ==
  /\ stage = "first octet" /\ ~file.binary
  /\ \/ OpenCodec("import") /\ stage' = "parse" /\ UNCHANGED status
     \/ Fail("CodecUnavailable") /\ UNCHANGED <<codec, heap>>
  /\ UNCHANGED <<file, pointers, needed, credential, target>>

Parse ==
  /\ stage = "parse"
  /\ credential' = Model("parsed", <<>>, FALSE)
  /\ CloseCodec
  /\ stage' = "encoded size"
  /\ UNCHANGED <<file, pointers, needed, status, target>>

ParseFails(why) ==
  /\ stage = "parse"
  /\ credential' = Model("partial", <<>>, FALSE)
  /\ Fail(why)
  /\ UNCHANGED <<file, memory, target>>

EncodedSizeKeepingRaw(size) ==                                   \* mutant
  /\ stage = "encoded size"
  /\ needed' = size
  /\ Free(raw)
  /\ stage' = "copy"
  /\ UNCHANGED <<file, pointers, codec, credential, status, target>>

EncodedSizeFreeingLate(size) ==                                  \* mutant
  /\ stage = "encoded size"
  /\ needed' = size
  /\ stage' = "copy"
  /\ UNCHANGED <<file, pointers, heap, codec, credential, status, target>>

\* The source is released before its binary copy is allocated.
EncodedSize(size) ==
  /\ stage = "encoded size"
  /\ needed' = size
  /\ Free(raw)
  /\ raw' = Null
  /\ stage' = "copy"
  /\ UNCHANGED <<file, octets, text, codec, credential, status, target>>

AllocateCopy(largest) ==
  /\ stage = "copy"
  /\ IF HasHeapFor(needed, 0, largest, free_heap)
       THEN /\ \E b \in Block : NoBlock(b) /\ Malloc(needed, b) /\ octets' = b
            /\ stage' = IF needed <= largest THEN "encode" ELSE "halted"
            /\ UNCHANGED status
       ELSE Fail("Capacity") /\ UNCHANGED <<octets, heap>>
  /\ UNCHANGED <<file, raw, text, needed, codec, credential, target>>

EncodeAndCheck ==                                                \* mutant
  /\ stage = "encode"
  /\ stage' = "check"
  /\ \E ats \in Atses, d \in BOOLEAN : credential' = Model("parsed", ats, d)
  /\ UNCHANGED <<file, memory, status, target>>

Encode ==
  /\ stage = "encode"
  /\ stage' = "decode"
  /\ UNCHANGED <<file, memory, credential, status, target>>

\* dfc_der_encoded_size and dfc_der_encode may refuse what the parser took.
EncoderFails(why) ==
  /\ stage \in {"encoded size", "encode"}
  /\ Fail(why)
  /\ UNCHANGED <<file, memory, credential, target>>

Decode(ats, detectable) ==
  /\ stage = "decode"
  /\ credential' = Model("decoded", ats, detectable)
  /\ stage' = "check"
  /\ UNCHANGED <<file, memory, status, target>>

DecodeFails(why) ==
  /\ stage = "decode"
  /\ credential' = Model("partial", <<>>, FALSE)
  /\ Fail(why)
  /\ UNCHANGED <<file, memory, target>>

\* An undetectable UID leaves the status as the load set it at its start.
Check ==
  /\ stage = "check"
  /\ status' = CASE ~credential.detectable          -> status
                 [] ~Consistent(credential.ats) \/ ~RadioSupported(credential.ats) ->
                      "UnsupportedFormat"
                 [] OTHER                           -> "Ok"
  /\ stage' = "cleanup"
  /\ UNCHANGED <<file, memory, credential, target>>

CleanupFreeingBoth ==                                            \* mutant
  /\ stage = "cleanup"
  /\ LET left == Freed(live, octets)
     IN  /\ live' = Freed(left, raw)
         /\ free_heap' = free_heap + SizeOf(live, octets) + SizeOf(left, raw) + CodecTakes
  /\ raw' = Null /\ octets' = Null
  /\ codec' = "closed"
  /\ credential' = IF status = "Ok" THEN credential ELSE Cleared
  /\ stage' = "idle"
  /\ file' = NoFile /\ needed' = 0
  /\ UNCHANGED <<text, status, target>>

\* Lines 399-410, whichever way the load got here, and 430-432.
Cleanup ==
  /\ stage = "cleanup"
  /\ LET copy == IF octets # raw THEN octets ELSE Null
         left == Freed(live, copy)
     IN  /\ live' = Freed(left, raw)
         /\ free_heap' = free_heap + SizeOf(live, copy) + SizeOf(left, raw) + CodecTakes
  /\ raw' = Null /\ octets' = Null        \* the pointers go out of scope
  /\ codec' = "closed"
  /\ credential' = IF status = "Ok" THEN credential ELSE Cleared
  /\ stage' = "idle"
  /\ file' = NoFile /\ needed' = 0
  /\ UNCHANGED <<text, status, target>>

-----------------------------------------------------------------------------
(* dfc_credential_write_file                                                 *)
StartSave ==
  /\ stage = "idle"
  /\ credential.model = "decoded"
  /\ stage' = "export"
  /\ target' = "old"
  /\ free_heap' \in Heaps
  /\ UNCHANGED <<file, pointers, needed, live, codec, credential, status>>

OpenExport ==
  /\ stage = "export"
  /\ \/ OpenCodec("export") /\ stage' = "measure"
     \/ stage' = "save cleanup" /\ UNCHANGED <<codec, heap>>
  /\ UNCHANGED <<file, pointers, needed, credential, status, target>>

\* The first call only measures; the second needs room for a terminator.
Measure(size, largest) ==
  /\ stage = "measure"
  /\ needed' = size + 1
  /\ \/ /\ size <= MaxSize
        /\ \E b \in Block : NoBlock(b) /\ Malloc(size + 1, b) /\ text' = b
        /\ stage' = IF size + 1 <= largest THEN "render" ELSE "halted"
     \/ stage' = "save cleanup" /\ UNCHANGED <<text, heap>>
  /\ UNCHANGED <<file, raw, octets, codec, credential, status, target>>

RenderAfterTruncating ==                                         \* mutant
  /\ stage = "render"
  /\ target' = "torn"
  /\ \/ CloseCodec /\ stage' = "write"
     \/ stage' = "save cleanup" /\ UNCHANGED <<codec, heap>>
  /\ UNCHANGED <<file, pointers, needed, credential, status>>

Render ==
  /\ stage = "render"
  /\ \/ CloseCodec /\ stage' = "truncate"
     \/ stage' = "save cleanup" /\ UNCHANGED <<codec, heap>>
  /\ UNCHANGED <<file, pointers, needed, credential, status, target>>

Truncate ==
  /\ stage = "truncate"
  /\ \/ target' = "torn" /\ stage' = "write"
     \/ stage' = "save cleanup" /\ UNCHANGED target
  /\ UNCHANGED <<file, memory, credential, status>>

Write ==
  /\ stage = "write"
  /\ target' \in {"torn", "new"}
  /\ stage' = "save cleanup"
  /\ UNCHANGED <<file, memory, credential, status>>

SaveCleanup ==
  /\ stage = "save cleanup"
  /\ live' = Freed(live, text)
  /\ free_heap' = free_heap + SizeOf(live, text) + CodecTakes
  /\ text' = Null
  /\ codec' = "closed"
  /\ stage' = "idle"
  /\ needed' = 0
  /\ UNCHANGED <<file, raw, octets, credential, status, target>>

-----------------------------------------------------------------------------
Init ==
  /\ stage = "idle"
  /\ file = NoFile
  /\ raw = Null /\ octets = Null /\ text = Null
  /\ needed = 0
  /\ live = [b \in Block |-> 0]
  /\ free_heap \in Heaps
  /\ codec = "closed"
  /\ credential = Cleared
  /\ status = "MalformedFile"
  /\ target = "old"

Load ==
  \/ \E f \in SelectedFile : StartLoad(f)
  \/ OpenFails \/ SizeRefused \/ ShortRead \/ FileRead
  \/ \E largest \in 0..free_heap : AllocateRaw(largest) \/ AllocateCopy(largest)
  \/ BinaryFile \/ OpenImport \/ Parse
  \/ \E size \in Sizes \ {0} : EncodedSize(size)
  \/ Encode
  \/ \E ats \in Atses, detectable \in BOOLEAN : Decode(ats, detectable)
  \/ \E why \in CodecStatus : ParseFails(why) \/ EncoderFails(why) \/ DecodeFails(why)
  \/ Check \/ Cleanup

Save ==
  \/ StartSave \/ OpenExport
  \/ \E size \in Sizes, largest \in 0..free_heap : Measure(size, largest)
  \/ Render \/ Truncate \/ Write \/ SaveCleanup

Next == Load \/ Save

Spec == Init /\ [][Next]_vars

-----------------------------------------------------------------------------
TypeOK ==
  /\ stage \in {"idle", "cleanup", "save cleanup", "halted"} \cup LoadStages \cup SaveStages
  /\ file \in SelectedFile \cup {NoFile}
  /\ {raw, octets, text} \subseteq Block \cup {Null}
  /\ needed \in Nat
  /\ live \in [Block -> Int] /\ free_heap \in Int
  /\ codec \in {"closed", "import", "export"}
  /\ credential \in [model: {"none", "parsed", "partial", "decoded"},
                     ats: Seq(Byte), detectable: BOOLEAN]
  /\ status \in Status
  /\ target \in {"old", "torn", "new"}

\* Whatever stage fails, a pointer that is not NULL names an allocated block, so
\* none is used or freed after its block is; every block that is not free has a
\* pointer that will free it, and none is freed twice; and between two operations
\* no block is left and the plugin is gone ("unloads before emulation",
\* README.md:127).
BlocksAreOwned ==
  stage # "halted" =>
    /\ \A p \in {raw, octets, text} \ {Null} : live[p] > 0
    /\ \A b \in Block : live[b] # 0 => b \in {raw, octets, text}
    /\ stage = "idle" => codec = "closed" /\ \A b \in Block : live[b] = 0

\* "Text loading releases the parser plugin and source before allocating its
\* binary round-trip copy" (README.md:133-134).
SourceGoneBeforeCopy ==
  octets # Null /\ octets # raw =>
    /\ codec = "closed"
    /\ \A b \in Block \ {octets} : live[b] = 0

\* The heap a text file is read into keeps the reserve free for its parser, until
\* that is loaded: at no size of file and of heap does the guard's subtraction wrap
\* and let a buffer take octets of the reserve.
ReserveIsLeft ==
  stage \in {"fill", "first octet"} /\ file.ext = "dfc" => TextReserve <= free_heap

\* A load that says Ok has read its model back from binary octets (lines 126-129),
\* with a UID and an ATS the emulation can show; any other leaves no model.
LoadVerdictIsTrue ==
  stage = "idle" => IF status = "Ok" THEN Usable ELSE credential = Cleared

\* An ATS that was let through reaches the air as it stands: the listener's fields
\* spell the same octets, and name only what this listener can deliver
\* ("rejects an ATS that advertises more than the listener can deliver",
\* README.md:47-48).
AtsReachesTheAir ==
  stage = "idle" /\ status = "Ok" =>
    /\ Answer(Unpack(credential.ats)) = credential.ats
    /\ Deliverable(Unpack(credential.ats))

\* The old file is only touched once the whole text of the new one is in memory
\* and the exporter has been unloaded: no failure to load the plugin, to render
\* or to fit the card costs the file.
OldFileKeptUntilRendered ==
  [][target' # target /\ target = "old" => stage = "truncate" /\ text # Null /\ codec = "closed"]_vars
=============================================================================
