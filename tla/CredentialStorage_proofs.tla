---------------------- MODULE CredentialStorage_proofs ----------------------
(***************************************************************************)
(* Theorems about CredentialStorage, for every heap, plugin size, reserve,   *)
(* set of sizes and of ATS, and every allocator.                             *)
(***************************************************************************)
EXTENDS CredentialStorage, RadioAts_proofs

-----------------------------------------------------------------------------
(* The heap guard.                                                          *)

\* A difference that is not negative survives the wrap of size_t.
LEMMA MinusIsExact ==
  ASSUME NEW a \in SizeT, NEW b \in 0..a
  PROVE  Minus(a, b) = a - b
<1> DEFINE M == 2^Width
<1>1. M \in Nat
  BY StorageAssumption
<1>2. a \in 0..(M - 1)
  BY DEF SizeT
<1> HIDE DEF M
<1>3. a - b \in 0..(M - 1)
  BY <1>1, <1>2
<1>4. ASSUME NEW r \in 0..(M - 1) PROVE (r + M) % M = r
  BY <1>1, <1>4, SMTT(30)
<1>5. (a - b + M) % M = a - b
  BY <1>3, <1>4
<1> QED
  BY <1>5 DEF Minus, M

\* dfc_credential_has_heap_for never wraps: it grants exactly what fits one block
\* and leaves the reserve.
THEOREM HeapGuardIsExact ==
  ASSUME NEW allocation \in SizeT, NEW reserve \in SizeT, NEW largest \in SizeT,
         NEW available \in SizeT
  PROVE  HasHeapFor(allocation, reserve, largest, available)
           <=> allocation <= largest /\ allocation + reserve <= available
<1>1. SizeT \subseteq Nat
  BY StorageAssumption DEF SizeT
<1>2. allocation <= available => Minus(available, allocation) = available - allocation
  BY <1>1, MinusIsExact
<1> QED
  BY <1>1, <1>2 DEF HasHeapFor

-----------------------------------------------------------------------------
(* Types.                                                                   *)
LEMMA SizesAreNat == Sizes \subseteq Nat
BY StorageAssumption DEF SizeT

LEMMA RoomForTerminator == \A size \in Sizes : size + 1 \in Nat /\ size + 1 # 0
BY SizesAreNat

LEMMA FileSizeIsNat ==
  ASSUME TypeOK
  PROVE  file.size \in Nat
<1>1. CASE file \in SelectedFile
  BY <1>1, SizesAreNat DEF SelectedFile
<1>2. CASE file = NoFile
  BY <1>2 DEF NoFile
<1> QED
  BY <1>1, <1>2 DEF TypeOK

\* What malloc, free and a plugin's loading and unloading leave of the types.
LEMMA HeapTypes ==
  ASSUME TypeOK
  PROVE  /\ \A size \in Nat, b \in Block :
              Malloc(size, b) => live' \in [Block -> Int] /\ free_heap' \in Int
         /\ \A p : /\ Freed(live, p) \in [Block -> Int]
                   /\ free_heap + SizeOf(live, p) + CodecTakes \in Int
         /\ \A p, q :
              /\ Freed(Freed(live, p), q) \in [Block -> Int]
              /\ free_heap + SizeOf(live, p) + SizeOf(Freed(live, p), q) + CodecTakes \in Int
         /\ \A p : Free(p) => live' \in [Block -> Int] /\ free_heap' \in Int
         /\ \A for : OpenCodec(for) => live' \in [Block -> Int] /\ free_heap' \in Int
         /\ CloseCodec => live' \in [Block -> Int] /\ free_heap' \in Int
<1>a. CodecSize \in Int
  BY StorageAssumption
<1>b. live \in [Block -> Int] /\ free_heap \in Int
  BY DEF TypeOK
<1>0. live \in [Block -> Int] /\ free_heap \in Int /\ CodecSize \in Int
  BY <1>a, <1>b
<1>1. \A size \in Nat, b \in Block :
        Malloc(size, b) => live' \in [Block -> Int] /\ free_heap' \in Int
  BY <1>0 DEF Malloc
<1>2. ASSUME NEW sizes \in [Block -> Int], NEW p
      PROVE  Freed(sizes, p) \in [Block -> Int] /\ SizeOf(sizes, p) \in Int
  BY DEF Freed, SizeOf, Corrupt
<1>3. CodecTakes \in Int
  BY <1>0 DEF CodecTakes
<1>4. \A for : OpenCodec(for) => live' \in [Block -> Int] /\ free_heap' \in Int
  BY <1>0 DEF OpenCodec
<1>5. CloseCodec => live' \in [Block -> Int] /\ free_heap' \in Int
  BY <1>0, <1>3 DEF CloseCodec
<1>6. \A p : Free(p) => live' \in [Block -> Int] /\ free_heap' \in Int
  BY <1>0, <1>2 DEF Free
<1> QED
  BY <1>0, <1>1, <1>2, <1>3, <1>4, <1>5, <1>6

LEMMA LargestIsSize ==
  ASSUME free_heap \in SizeT, NEW largest \in 0..free_heap
  PROVE  largest \in SizeT
BY StorageAssumption DEF SizeT

LEMMA HeapsAreSizes == Heaps \subseteq SizeT /\ SizeT \subseteq Nat
BY StorageAssumption DEF SizeT

LEMMA InitTypeOK == Init => TypeOK
BY HeapsAreSizes DEF Init, TypeOK, NoFile, Cleared, Status

\* Steps of a load.
LEMMA LoadTypeOK == TypeOK /\ Load => TypeOK'
<1> SUFFICES ASSUME TypeOK, Load PROVE TypeOK'
  OBVIOUS
<1> USE DEF TypeOK, LoadStages, SaveStages, heap
<1> DEFINE Credential == [model: {"none", "parsed", "partial", "decoded"}, ats: Seq(Byte),
                          detectable: BOOLEAN]
<1>a. <<>> \in Seq(Byte)
  BY EmptySeq
<1>0. Cleared \in Credential
  BY <1>a DEF Cleared
<1>b. \A m \in {"none", "parsed", "partial", "decoded"}, ats \in Seq(Byte), d \in BOOLEAN :
        Model(m, ats, d) \in Credential
  BY DEF Model
<1>1. ASSUME NEW f \in SelectedFile, StartLoad(f) PROVE TypeOK'
  BY <1>1, HeapsAreSizes DEF StartLoad, Status
<1>2. ASSUME NEW why \in Status, ReturnUnread(why),
             live' \in [Block -> Int], free_heap' \in Int
      PROVE  TypeOK'
  BY <1>2, <1>0 DEF ReturnUnread
<1>3. CASE OpenFails \/ SizeRefused \/ ShortRead
  BY <1>2, <1>3, HeapTypes DEF OpenFails, SizeRefused, ShortRead, Status
<1>4. CASE FileRead
  BY <1>4 DEF FileRead, memory, pointers
<1>5. ASSUME NEW largest, AllocateRaw(largest) PROVE TypeOK'
  <2>1. CASE HasHeapFor(file.size, ReserveOf(file), largest, free_heap)
    <3>1. file.size \in Nat
      BY FileSizeIsNat
    <3> QED
      BY <1>5, <2>1, <3>1, HeapTypes DEF AllocateRaw
  <2>2. CASE ~HasHeapFor(file.size, ReserveOf(file), largest, free_heap)
    BY <1>2, <1>5, <2>2 DEF AllocateRaw, Status
  <2> QED
    BY <2>1, <2>2
<1>6. ASSUME NEW largest, AllocateCopy(largest) PROVE TypeOK'
  <2>1. CASE HasHeapFor(needed, 0, largest, free_heap)
    <3>1. PICK b \in Block : Malloc(needed, b) /\ octets' = b
      BY <1>6, <2>1 DEF AllocateCopy
    <3>2. needed \in Nat
      OBVIOUS
    <3>3. live' \in [Block -> Int] /\ free_heap' \in Int
      BY <3>1, <3>2, HeapTypes
    <3>4. octets' \in Block
      BY <3>1
    <3> QED
      BY <1>6, <2>1, <3>3, <3>4 DEF AllocateCopy
  <2>2. CASE ~HasHeapFor(needed, 0, largest, free_heap)
    BY <1>6, <2>2 DEF AllocateCopy, Fail, Status
  <2> QED
    BY <2>1, <2>2
<1>7. CASE BinaryFile \/ OpenImport
  <2>1. CASE BinaryFile
    BY <2>1 DEF BinaryFile
  <2>2. CASE OpenImport /\ OpenCodec("import")
    <3>1. live' \in [Block -> Int] /\ free_heap' \in Int
      BY <2>2, HeapTypes
    <3> QED
      BY <2>2, <3>1 DEF OpenImport, OpenCodec, Fail, Status, pointers
  <2>3. CASE OpenImport /\ ~OpenCodec("import")
    BY <2>3 DEF OpenImport, Fail, Status, pointers
  <2> QED
    BY <1>7, <2>1, <2>2, <2>3
<1>8. CASE Parse
  BY <1>8, <1>a, <1>b, HeapTypes DEF Parse, CloseCodec, pointers
<1>9. ASSUME NEW size \in Sizes \ {0}, EncodedSize(size) PROVE TypeOK'
  BY <1>9, HeapTypes, SizesAreNat DEF EncodedSize
<1>10. CASE Encode
  BY <1>10 DEF Encode, memory, pointers
<1>11. ASSUME NEW ats \in Atses, NEW detectable \in BOOLEAN, Decode(ats, detectable)
       PROVE  TypeOK'
  BY <1>11, <1>b, StorageAssumption DEF Decode, memory, pointers
<1>12. ASSUME NEW why \in CodecStatus, ParseFails(why) \/ EncoderFails(why) \/ DecodeFails(why)
       PROVE  TypeOK'
  <2>1. why \in Status
    BY DEF CodecStatus, Status
  <2>2. Model("partial", <<>>, FALSE) \in Credential
    BY <1>a, <1>b
  <2>3. CASE ParseFails(why)
    BY <2>1, <2>2, <2>3 DEF ParseFails, Fail, memory, pointers
  <2>4. CASE EncoderFails(why)
    BY <2>1, <2>4 DEF EncoderFails, Fail, memory, pointers
  <2>5. CASE DecodeFails(why)
    BY <2>1, <2>2, <2>5 DEF DecodeFails, Fail, memory, pointers
  <2> QED
    BY <1>12, <2>3, <2>4, <2>5
<1>13. CASE Check
  BY <1>13 DEF Check, Status, memory, pointers
<1>14. CASE Cleanup
  <2> DEFINE copy == IF octets # raw THEN octets ELSE Null
             left == Freed(live, copy)
  <2>1. /\ live' = Freed(left, raw)
        /\ free_heap' = free_heap + SizeOf(live, copy) + SizeOf(left, raw) + CodecTakes
    BY <1>14 DEF Cleanup
  <2>2. live' \in [Block -> Int] /\ free_heap' \in Int
    BY <2>1, HeapTypes
  <2> QED
    BY <1>14, <1>0, <2>2 DEF Cleanup
<1> QED
  BY <1>1, <1>3, <1>4, <1>5, <1>6, <1>7, <1>8, <1>9, <1>10, <1>11, <1>12, <1>13, <1>14 DEF Load

\* Steps of a save.
LEMMA SaveTypeOK == TypeOK /\ Save => TypeOK'
<1> SUFFICES ASSUME TypeOK, Save PROVE TypeOK'
  OBVIOUS
<1> USE DEF TypeOK, LoadStages, SaveStages, heap
<1>0. CASE StartSave
  BY <1>0, HeapsAreSizes DEF StartSave, pointers
<1>1. CASE OpenExport
  BY <1>1, HeapTypes DEF OpenExport, OpenCodec, pointers
<1>2. ASSUME NEW size \in Sizes, NEW largest, Measure(size, largest) PROVE TypeOK'
  <2>1. size + 1 \in Nat
    BY RoomForTerminator
  <2>2. live' \in [Block -> Int] /\ free_heap' \in Int /\ text' \in Block \cup {Null}
    <3>1. CASE \E b \in Block : Malloc(size + 1, b) /\ text' = b
      BY <2>1, <3>1, HeapTypes
    <3>2. CASE UNCHANGED <<text, heap>>
      BY <3>2
    <3> QED
      BY <1>2, <3>1, <3>2 DEF Measure
  <2>3. /\ needed' \in Nat
        /\ stage' \in {"render", "halted", "save cleanup"}
        /\ UNCHANGED <<file, raw, octets, codec, credential, status, target>>
    BY <1>2, <2>1 DEF Measure
  <2> QED
    BY <2>2, <2>3
<1>3. CASE Render \/ Truncate \/ Write
  BY <1>3, HeapTypes DEF Render, CloseCodec, Truncate, Write, memory, pointers
<1>4. CASE SaveCleanup
  <2>1. live' = Freed(live, text) /\ free_heap' = free_heap + SizeOf(live, text) + CodecTakes
    BY <1>4 DEF SaveCleanup
  <2>2. live' \in [Block -> Int] /\ free_heap' \in Int
    BY <2>1, HeapTypes
  <2> QED
    BY <1>4, <2>2 DEF SaveCleanup
<1> QED
  BY <1>0, <1>1, <1>2, <1>3, <1>4 DEF Save

\* Every pointer is NULL or one of the allocator's blocks, every size a size and
\* every status one the module's callers know.
THEOREM TypeCorrectness == Spec => []TypeOK
<1>1. TypeOK /\ UNCHANGED vars => TypeOK'
  BY DEF TypeOK, vars, memory, pointers, heap
<1>2. TypeOK /\ [Next]_vars => TypeOK'
  BY <1>1, LoadTypeOK, SaveTypeOK DEF Next
<1> QED
  BY InitTypeOK, <1>2, PTL DEF Spec

-----------------------------------------------------------------------------
(* Which blocks, plugin and verdict belong to each stage.                    *)
Owned ==
  /\ \A p \in {raw, octets, text} \ {Null} : live[p] > 0
  /\ \A b \in Block : live[b] # 0 => b \in {raw, octets, text}

PointersOfStage ==
  /\ stage \notin {"render", "truncate", "write", "save cleanup", "halted"} => text = Null
  /\ stage \in {"render", "truncate", "write", "halted"} => text # Null
  /\ stage \in {"fill", "first octet", "parse", "encoded size"} => raw # Null /\ octets = Null
  /\ stage = "copy" => raw = Null /\ octets = Null /\ needed # 0
  /\ stage = "encode" => raw = Null /\ octets # Null
  /\ stage \in {"decode", "check"} => octets # Null /\ raw \in {Null, octets}
  /\ stage = "cleanup" => octets = Null \/ raw \in {Null, octets}
  /\ stage \in {"idle", "read", "save cleanup", "halted"} \cup SaveStages =>
       raw = Null /\ octets = Null

CodecOfStage ==
  /\ stage \in {"idle", "read", "fill", "first octet", "encoded size", "copy", "encode",
                "decode", "check", "export", "truncate", "write"} => codec = "closed"
  /\ stage = "cleanup" /\ octets # Null => codec = "closed"

HeapOfStage ==
  /\ stage = "read" => free_heap \in SizeT
  /\ stage \in {"fill", "first octet"} /\ file.ext = "dfc" => TextReserve <= free_heap

VerdictOfStage ==
  /\ stage \in LoadStages => status = "MalformedFile"
  /\ stage \in {"idle", "save cleanup", "halted"} \cup SaveStages =>
       IF status = "Ok" THEN Usable ELSE credential = Cleared
  /\ stage = "check" => credential.model = "decoded"
  /\ stage = "cleanup" /\ status = "Ok" => Usable
  /\ stage = "write" => target = "torn"

IInv ==
  TypeOK /\ Owned /\ PointersOfStage /\ CodecOfStage /\ HeapOfStage /\ VerdictOfStage

LEMMA InitIInv == Init => IInv
<1> SUFFICES ASSUME Init PROVE IInv
  OBVIOUS
<1>1. TypeOK
  BY InitTypeOK
<1>2. Owned
  BY DEF Init, Owned
<1>3. PointersOfStage /\ CodecOfStage /\ HeapOfStage
  BY DEF Init, PointersOfStage, CodecOfStage, HeapOfStage, SaveStages
<1>4. VerdictOfStage
  BY DEF Init, VerdictOfStage, LoadStages, SaveStages
<1> QED
  BY <1>1, <1>2, <1>3, <1>4 DEF IInv

\* Who owns the blocks, whatever the stage.
LEMMA NothingMoved ==
  ASSUME Owned, UNCHANGED <<pointers, live>>
  PROVE  Owned'
BY DEF Owned, pointers

\* One block more, with a pointer that was NULL.
LEMMA BlockTaken ==
  ASSUME TypeOK, Owned, NEW size \in Nat \ {0}, NEW b \in Block, NoBlock(b), Malloc(size, b),
         \/ raw = Null /\ raw' = b /\ UNCHANGED <<octets, text>>
         \/ octets = Null /\ octets' = b /\ UNCHANGED <<raw, text>>
         \/ text = Null /\ text' = b /\ UNCHANGED <<raw, octets>>
  PROVE  Owned'
<1>1. live' = [live EXCEPT ![b] = size] /\ live[b] = 0 /\ live \in [Block -> Int]
  BY DEF Malloc, NoBlock, TypeOK
<1>2. {raw, octets, text} \subseteq Block \cup {Null}
  BY DEF TypeOK
<1> QED
  BY <1>1, <1>2, StorageAssumption DEF Owned

\* A block freed with every pointer that named it.
LEMMA BlockReturned ==
  ASSUME TypeOK, Owned, NEW gone \in {raw, octets, text, Null}, live' = Freed(live, gone),
         {raw, octets, text} \subseteq {raw', octets', text'} \cup {gone, Null},
         {raw', octets', text'} \subseteq ({raw, octets, text} \ {gone}) \cup {Null}
  PROVE  Owned'
<1>1. live' = [b \in Block |-> IF b # gone THEN live[b]
                               ELSE IF live[b] > 0 THEN 0 ELSE Corrupt]
  BY DEF Freed
<1>2. {raw, octets, text} \subseteq Block \cup {Null}
  BY DEF TypeOK
<1>3. gone # Null => live[gone] > 0
  BY DEF Owned
<1> QED
  BY <1>1, <1>2, <1>3, StorageAssumption DEF Owned

\* A load that could not read the file.
LEMMA UnreadKeepsIInv ==
  ASSUME IInv, TypeOK', NEW why \in Status, why # "Ok", ReturnUnread(why),
         stage \in {"read", "fill"},
         (UNCHANGED live /\ raw = Null) \/ live' = Freed(live, raw)
  PROVE  IInv'
<1>1. raw' = Null /\ octets = Null /\ octets' = Null /\ text = Null /\ text' = Null
  BY DEF IInv, PointersOfStage, ReturnUnread, SaveStages
<1>2. Owned'
  <2>1. CASE UNCHANGED live /\ raw = Null
    BY <1>1, <2>1, NothingMoved DEF IInv, pointers
  <2>2. CASE live' = Freed(live, raw)
    BY <1>1, <2>2, BlockReturned DEF IInv
  <2> QED
    BY <2>1, <2>2
<1>3. PointersOfStage' /\ CodecOfStage' /\ HeapOfStage'
  BY <1>1 DEF IInv, PointersOfStage, CodecOfStage, HeapOfStage, ReturnUnread, SaveStages
<1>4. VerdictOfStage'
  BY DEF VerdictOfStage, LoadStages, SaveStages, ReturnUnread
<1> QED
  BY <1>2, <1>3, <1>4 DEF IInv

LEMMA LoadKeepsIInv == IInv /\ Load => IInv'
<1> SUFFICES ASSUME IInv, Load PROVE IInv'
  OBVIOUS
<1>0. TypeOK /\ TypeOK'
  BY LoadTypeOK DEF IInv
<1> USE DEF PointersOfStage, CodecOfStage, HeapOfStage, VerdictOfStage, LoadStages, SaveStages,
            heap
<1>1. ASSUME NEW f \in SelectedFile, StartLoad(f) PROVE IInv'
  <2>1. Owned'
    BY <1>1, NothingMoved DEF IInv, StartLoad, pointers
  <2>2. PointersOfStage' /\ CodecOfStage' /\ HeapOfStage' /\ VerdictOfStage'
    BY <1>1, HeapsAreSizes DEF IInv, StartLoad
  <2> QED
    BY <1>0, <2>1, <2>2 DEF IInv
<1>2. CASE OpenFails \/ SizeRefused \/ ShortRead
  <2>1. raw = Null \/ stage = "fill"
    BY <1>2 DEF IInv, OpenFails, SizeRefused, ShortRead
  <2> QED
    BY <1>0, <1>2, <2>1, UnreadKeepsIInv DEF OpenFails, SizeRefused, ShortRead, Free, Status
<1>3. CASE FileRead \/ BinaryFile \/ OpenImport \/ Parse \/ Encode
  <2>1. CASE FileRead
    <3>1. Owned'
      BY <2>1, NothingMoved DEF IInv, FileRead, memory
    <3> QED
      BY <1>0, <2>1, <3>1 DEF IInv, FileRead, memory, pointers
  <2>2. CASE BinaryFile
    <3>1. Owned'
      BY <2>2 DEF IInv, Owned, BinaryFile
    <3> QED
      BY <1>0, <2>2, <3>1 DEF IInv, BinaryFile
  <2>3. CASE OpenImport
    <3>1. Owned'
      BY <2>3, NothingMoved DEF IInv, OpenImport, OpenCodec
    <3> QED
      BY <1>0, <2>3, <3>1 DEF IInv, OpenImport, OpenCodec, Fail, pointers
  <2>4. CASE Parse
    <3>1. Owned'
      BY <2>4, NothingMoved DEF IInv, Parse, CloseCodec
    <3> QED
      BY <1>0, <2>4, <3>1 DEF IInv, Parse, CloseCodec, pointers
  <2>5. CASE Encode
    <3>1. Owned'
      BY <2>5, NothingMoved DEF IInv, Encode, memory
    <3> QED
      BY <1>0, <2>5, <3>1 DEF IInv, Encode, memory, pointers
  <2> QED
    BY <1>3, <2>1, <2>2, <2>3, <2>4, <2>5
<1>4. ASSUME NEW largest \in 0..free_heap, AllocateRaw(largest) PROVE IInv'
  <2>1. raw = Null /\ octets = Null /\ text = Null
    BY <1>4 DEF IInv, AllocateRaw
  <2>2. CASE HasHeapFor(file.size, ReserveOf(file), largest, free_heap)
    <3>1. PICK b \in Block : NoBlock(b) /\ Malloc(file.size, b) /\ raw' = b
      BY <1>4, <2>2 DEF AllocateRaw
    <3>2. file.size \in Nat \ {0}
      BY <1>0, <1>4, FileSizeIsNat DEF AllocateRaw, SizeAllowed
    <3>3. stage' = "fill"
      BY <1>4, <2>2 DEF AllocateRaw, HasHeapFor
    <3>4. Owned'
      BY <1>0, <1>4, <2>1, <2>2, <3>1, <3>2, BlockTaken DEF IInv, AllocateRaw
    <3>5. raw' # Null
      BY <3>1, StorageAssumption
    <3>6. file'.ext = "dfc" => TextReserve <= free_heap'
      <4>1. /\ free_heap \in SizeT /\ largest \in SizeT /\ file.size \in SizeT
            /\ ReserveOf(file) \in SizeT /\ SizeT \subseteq Nat
        BY <1>0, <1>4, <3>2, HeapsAreSizes, LargestIsSize, StorageAssumption
          DEF IInv, AllocateRaw, SizeAllowed, ReserveOf, SizeT
      <4>2. file.size + ReserveOf(file) <= free_heap
        BY <2>2, <4>1, HeapGuardIsExact
      <4>3. free_heap' = free_heap - file.size /\ file' = file
        BY <1>4, <2>2, <3>1 DEF AllocateRaw, Malloc
      <4>4. free_heap \in Nat /\ file.size \in Nat /\ ReserveOf(file) \in Nat
        BY <4>1
      <4>5. ReserveOf(file) <= free_heap'
        BY <4>2, <4>3, <4>4
      <4> QED
        BY <4>3, <4>5 DEF ReserveOf
    <3> QED
      BY <1>0, <1>4, <2>1, <2>2, <3>3, <3>4, <3>5, <3>6 DEF IInv, AllocateRaw
  <2>3. CASE ~HasHeapFor(file.size, ReserveOf(file), largest, free_heap)
    BY <1>0, <1>4, <2>1, <2>3, UnreadKeepsIInv DEF AllocateRaw, Status
  <2> QED
    BY <2>2, <2>3
<1>5. ASSUME NEW size \in Sizes \ {0}, EncodedSize(size) PROVE IInv'
  <2>1. Owned'
    BY <1>0, <1>5, BlockReturned DEF IInv, EncodedSize, Free
  <2> QED
    BY <1>0, <1>5, <2>1 DEF IInv, EncodedSize
<1>6. ASSUME NEW largest, AllocateCopy(largest) PROVE IInv'
  <2>1. raw = Null /\ octets = Null /\ text = Null /\ needed \in Nat \ {0}
    BY <1>0, <1>6 DEF IInv, AllocateCopy, TypeOK
  <2>2. CASE HasHeapFor(needed, 0, largest, free_heap)
    <3>1. PICK b \in Block : NoBlock(b) /\ Malloc(needed, b) /\ octets' = b
      BY <1>6, <2>2 DEF AllocateCopy
    <3>2. stage' = "encode"
      BY <1>6, <2>2 DEF AllocateCopy, HasHeapFor
    <3>3. Owned'
      BY <1>0, <1>6, <2>1, <3>1, BlockTaken DEF IInv, AllocateCopy
    <3>4. octets' # Null
      BY <3>1, StorageAssumption
    <3> QED
      BY <1>0, <1>6, <2>1, <2>2, <3>2, <3>3, <3>4 DEF IInv, AllocateCopy
  <2>3. CASE ~HasHeapFor(needed, 0, largest, free_heap)
    <3>1. Owned'
      BY <1>6, <2>3, NothingMoved DEF IInv, AllocateCopy, pointers
    <3> QED
      BY <1>0, <1>6, <2>1, <2>3, <3>1 DEF IInv, AllocateCopy, Fail
  <2> QED
    BY <2>2, <2>3
<1>7. ASSUME NEW ats \in Atses, NEW detectable \in BOOLEAN, Decode(ats, detectable)
      PROVE  IInv'
  <2>1. Owned'
    BY <1>7, NothingMoved DEF IInv, Decode, memory
  <2> QED
    BY <1>0, <1>7, <2>1 DEF IInv, Decode, Model, memory, pointers
<1>8. ASSUME NEW why \in CodecStatus, ParseFails(why) \/ EncoderFails(why) \/ DecodeFails(why)
      PROVE  IInv'
  <2>1. why # "Ok"
    BY DEF CodecStatus
  <2>2. Owned'
    BY <1>8, NothingMoved DEF IInv, ParseFails, EncoderFails, DecodeFails, memory
  <2> QED
    BY <1>0, <1>8, <2>1, <2>2 DEF IInv, ParseFails, EncoderFails, DecodeFails, Fail, memory, pointers
<1>9. CASE Check
  <2>1. Owned'
    BY <1>9, NothingMoved DEF IInv, Check, memory
  <2>2. status' = "Ok" => Usable /\ UNCHANGED credential
    BY <1>9 DEF IInv, Check, Usable
  <2>3. status' = "Ok" => Usable'
    BY <2>2 DEF Usable
  <2> QED
    BY <1>0, <1>9, <2>1, <2>3 DEF IInv, Check, memory, pointers
<1>10. CASE Cleanup
  <2>1. Owned'
    <3> DEFINE copy == IF octets # raw THEN octets ELSE Null
               gone == IF octets = Null THEN raw ELSE octets
    <3>1. live' = Freed(Freed(live, copy), raw)
      BY <1>10 DEF Cleanup
    <3>2. \A sizes \in [Block -> Int] : Freed(sizes, Null) = sizes
      BY StorageAssumption DEF Freed
    <3>3. Freed(live, copy) \in [Block -> Int] /\ live \in [Block -> Int]
      BY <1>0, HeapTypes DEF TypeOK
    <3>4. octets = Null \/ raw \in {Null, octets}
      BY <1>10 DEF IInv, Cleanup
    <3>5. live' = Freed(live, gone)
      BY <3>1, <3>2, <3>3, <3>4
    <3>6. raw' = Null /\ octets' = Null /\ text' = text /\ text = Null
      BY <1>10 DEF IInv, Cleanup
    <3> QED
      BY <1>0, <3>4, <3>5, <3>6, BlockReturned DEF IInv
  <2>2. IF status' = "Ok" THEN Usable' ELSE credential' = Cleared
    BY <1>10 DEF IInv, Cleanup, Usable
  <2> QED
    BY <1>0, <1>10, <2>1, <2>2 DEF IInv, Cleanup
<1> QED
  BY <1>1, <1>2, <1>3, <1>4, <1>5, <1>6, <1>7, <1>8, <1>9, <1>10 DEF Load

LEMMA SaveKeepsIInv == IInv /\ Save => IInv'
<1> SUFFICES ASSUME IInv, Save PROVE IInv'
  OBVIOUS
<1>0. TypeOK /\ TypeOK'
  BY SaveTypeOK DEF IInv
<1> USE DEF PointersOfStage, CodecOfStage, HeapOfStage, VerdictOfStage, LoadStages, SaveStages,
            heap
<1>1. UNCHANGED <<credential, status>>
  BY DEF Save, StartSave, OpenExport, Measure, Render, Truncate, Write, SaveCleanup
<1>2. Usable' = Usable
  BY <1>1 DEF Usable
<1>3. CASE StartSave
  <2>1. Owned'
    BY <1>3, NothingMoved DEF IInv, StartSave, memory
  <2> QED
    BY <1>0, <1>2, <1>3, <2>1 DEF IInv, StartSave, memory, pointers
<1>4. CASE OpenExport
  <2>1. Owned'
    BY <1>4, NothingMoved DEF IInv, OpenExport, OpenCodec
  <2> QED
    BY <1>0, <1>2, <1>4, <2>1 DEF IInv, OpenExport, OpenCodec, pointers
<1>5. ASSUME NEW size \in Sizes, NEW largest, Measure(size, largest) PROVE IInv'
  <2>1. raw = Null /\ octets = Null /\ text = Null
    BY <1>5 DEF IInv, Measure
  <2>2. CASE UNCHANGED <<text, heap>> /\ stage' = "save cleanup"
    <3>1. Owned'
      BY <1>5, <2>2, NothingMoved DEF IInv, Measure, pointers
    <3> QED
      BY <1>0, <1>2, <1>5, <2>1, <2>2, <3>1 DEF IInv, Measure
  <2>3. CASE /\ \E b \in Block : NoBlock(b) /\ Malloc(size + 1, b) /\ text' = b
             /\ stage' \in {"render", "halted"}
    <3>1. PICK b \in Block : NoBlock(b) /\ Malloc(size + 1, b) /\ text' = b
      BY <2>3
    <3>2. size + 1 \in Nat \ {0}
      BY RoomForTerminator
    <3>3. Owned'
      BY <1>0, <1>5, <2>1, <3>1, <3>2, BlockTaken DEF IInv, Measure
    <3>4. text' # Null
      BY <3>1, StorageAssumption
    <3> QED
      BY <1>0, <1>2, <1>5, <2>1, <2>3, <3>3, <3>4 DEF IInv, Measure
  <2> QED
    BY <1>5, <2>2, <2>3 DEF Measure
<1>6. CASE Render
  <2>1. Owned'
    BY <1>6, NothingMoved DEF IInv, Render, CloseCodec
  <2> QED
    BY <1>0, <1>2, <1>6, <2>1 DEF IInv, Render, CloseCodec, pointers
<1>7. CASE Truncate \/ Write
  <2>1. Owned'
    BY <1>7, NothingMoved DEF IInv, Truncate, Write, memory
  <2> QED
    BY <1>0, <1>2, <1>7, <2>1 DEF IInv, Truncate, Write, memory, pointers
<1>8. CASE SaveCleanup
  <2>1. Owned'
    BY <1>0, <1>8, BlockReturned DEF IInv, SaveCleanup
  <2> QED
    BY <1>0, <1>2, <1>8, <2>1 DEF IInv, SaveCleanup
<1> QED
  BY <1>3, <1>4, <1>5, <1>6, <1>7, <1>8 DEF Save

-----------------------------------------------------------------------------
LEMMA NextIInv == IInv /\ [Next]_vars => IInv'
<1>1. IInv /\ UNCHANGED vars => IInv'
  <2> SUFFICES ASSUME IInv, UNCHANGED vars PROVE IInv'
    OBVIOUS
  <2>1. TypeOK' /\ Owned'
    BY DEF IInv, TypeOK, Owned, vars, memory, pointers, heap
  <2>2. PointersOfStage' /\ CodecOfStage' /\ HeapOfStage' /\ VerdictOfStage'
    BY DEF IInv, PointersOfStage, CodecOfStage, HeapOfStage, VerdictOfStage, Usable, vars, memory,
      pointers, heap
  <2> QED
    BY <2>1, <2>2 DEF IInv
<1> QED
  BY <1>1, LoadKeepsIInv, SaveKeepsIInv DEF Next

\* Every stage has the blocks, the plugin and the verdict that belong to it,
\* whichever of the stages before it failed.
THEOREM Invariance == Spec => []IInv
BY InitIInv, NextIInv, PTL DEF Spec

\* No pointer outlives its block, no block its pointers, and nothing is left
\* between two operations (dfc_credential_storage.c:257-434 and 177-215).
THEOREM BlocksHaveOwners == Spec => []BlocksAreOwned
<1>1. IInv => BlocksAreOwned
  <2> SUFFICES ASSUME IInv PROVE BlocksAreOwned
    OBVIOUS
  <2>1. stage = "idle" => raw = Null /\ octets = Null /\ text = Null /\ codec = "closed"
    BY DEF IInv, PointersOfStage, CodecOfStage
  <2> QED
    BY <2>1, StorageAssumption DEF IInv, Owned, BlocksAreOwned
<1> QED
  BY <1>1, Invariance, PTL

\* The parser plugin and the text are gone before the binary copy is allocated
\* (README.md:133-134; dfc_credential_storage.c:323-352).
THEOREM CopyIsAlone == Spec => []SourceGoneBeforeCopy
<1>1. IInv => SourceGoneBeforeCopy
  <2> SUFFICES ASSUME IInv, octets # Null, octets # raw
               PROVE  codec = "closed" /\ \A b \in Block \ {octets} : live[b] = 0
    BY DEF SourceGoneBeforeCopy
  <2>1. stage \in {"encode", "decode", "check", "cleanup"}
    BY DEF IInv, TypeOK, PointersOfStage, LoadStages, SaveStages
  <2>2. raw = Null /\ text = Null /\ codec = "closed"
    BY <2>1 DEF IInv, PointersOfStage, CodecOfStage
  <2> QED
    BY <2>2, StorageAssumption DEF IInv, Owned, TypeOK
<1> QED
  BY <1>1, Invariance, PTL

\* At every size of file, heap and reserve, the buffer of a text file leaves the
\* reserve free (dfc_credential_storage.c:135-139 and 278-291).
THEOREM ReserveIsKept == Spec => []ReserveIsLeft
<1>1. IInv => ReserveIsLeft
  BY DEF IInv, HeapOfStage, ReserveIsLeft
<1> QED
  BY <1>1, Invariance, PTL

\* Ok means a model read back from binary octets that the emulation can show; any
\* other status leaves no model (dfc_credential_storage.c:352-434).
THEOREM VerdictsAreTrue == Spec => []LoadVerdictIsTrue
<1>1. IInv => LoadVerdictIsTrue
  BY DEF IInv, VerdictOfStage, LoadVerdictIsTrue
<1> QED
  BY <1>1, Invariance, PTL

\* Every ATS a load accepts is answered to the reader octet for octet and promises
\* only what the listener can deliver (README.md:47-48).
THEOREM AcceptedAtsIsDelivered == Spec => []AtsReachesTheAir
<1>1. IInv => AtsReachesTheAir
  <2> SUFFICES ASSUME IInv, stage = "idle", status = "Ok"
               PROVE  /\ Answer(Unpack(credential.ats)) = credential.ats
                      /\ Deliverable(Unpack(credential.ats))
    BY DEF AtsReachesTheAir
  <2>1. credential.ats \in Seq(Byte)
    BY DEF IInv, TypeOK
  <2>2. RadioSupported(credential.ats)
    BY DEF IInv, VerdictOfStage, Usable
  <2> QED
    BY <2>1, <2>2, SupportedAtsIsAnswered, SupportedAtsIsDeliverable
<1> QED
  BY <1>1, Invariance, PTL

\* The step that destroys the old file is the truncation, with the whole new text
\* in memory and the exporter unloaded (dfc_credential_storage.c:186-204).
THEOREM OldFileIsKept == Spec => OldFileKeptUntilRendered
<1> DEFINE Kept == target' # target /\ target = "old" =>
                     stage = "truncate" /\ text # Null /\ codec = "closed"
<1>1. IInv /\ [Next]_vars => Kept
  <2> SUFFICES ASSUME IInv, [Next]_vars, target' # target, target = "old"
               PROVE  stage = "truncate" /\ text # Null /\ codec = "closed"
    OBVIOUS
  <2>1. Truncate \/ Write
    <3>1. ~Load /\ ~UNCHANGED vars
      BY DEF Load, StartLoad, OpenFails, SizeRefused, ShortRead, ReturnUnread, FileRead,
        AllocateRaw, AllocateCopy, BinaryFile, OpenImport, Parse, EncodedSize, Encode, Decode,
        ParseFails, EncoderFails, DecodeFails, Check, Cleanup, vars
    <3> QED
      BY <3>1 DEF Next, Save, StartSave, OpenExport, Measure, Render, SaveCleanup
  <2>2. CASE Truncate
    BY <2>2 DEF IInv, PointersOfStage, CodecOfStage, Truncate
  <2>3. CASE Write
    BY <2>3 DEF IInv, VerdictOfStage, Write
  <2> QED
    BY <2>1, <2>2, <2>3
<1>2. Kept => [Kept]_vars
  OBVIOUS
<1> QED
  BY <1>1, Invariance, PTL DEF Spec, OldFileKeptUntilRendered
=============================================================================
