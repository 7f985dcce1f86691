----------------------- MODULE IsoDepListener_proofs -----------------------
(***************************************************************************)
(* Theorems about IsoDepListener, for every frame size, command buffer,     *)
(* response length, set of CIDs and bound.                                  *)
(***************************************************************************)
EXTENDS IsoDepListener, SequenceTheorems, TLAPS

-----------------------------------------------------------------------------
(* The operators the handlers are built from.                               *)

\* A block built from typed fields is a frame.
LEMMA BlockIsFrame ==
  ASSUME NEW kind \in FrameKind, NEW bn \in Bit, NEW flag \in BOOLEAN,
         NEW c \in Cids \cup {NoCid}, NEW data \in Seq(Octet)
  PROVE  Block(kind, bn, flag, c, data) \in Frame
BY DEF Block, Frame

\* A slice of a response that ends within it is a response of the length of the
\* slice, octet for octet.
LEMMA Slice ==
  ASSUME NEW s \in Seq(Octet), NEW lo \in Nat, NEW hi \in Nat,
         lo <= hi, hi <= Len(s)
  PROVE  /\ SubSeq(s, lo + 1, hi) \in Seq(Octet)
         /\ Len(SubSeq(s, lo + 1, hi)) = hi - lo
         /\ \A k \in 1..(hi - lo) : SubSeq(s, lo + 1, hi)[k] = s[lo + k]
<1>1. \A i \in (lo + 1)..hi : s[i] \in Octet
  BY ElementOfSeq
<1>2. lo + 1 \in Int /\ hi \in Int
  OBVIOUS
<1>3. /\ SubSeq(s, lo + 1, hi) \in Seq(Octet)
      /\ Len(SubSeq(s, lo + 1, hi)) = IF lo + 1 <= hi THEN hi - (lo + 1) + 1 ELSE 0
      /\ \A i \in 1..(hi - (lo + 1) + 1) : SubSeq(s, lo + 1, hi)[i] = s[(lo + 1) + i - 1]
  BY <1>1, <1>2, SubSeqProperties
<1>4. \A k \in 1..(hi - lo) : (lo + 1) + k - 1 = lo + k /\ k \in 1..(hi - (lo + 1) + 1)
  OBVIOUS
<1>5. \A k \in 1..(hi - lo) : SubSeq(s, lo + 1, hi)[k] = s[lo + k]
  BY <1>3, <1>4
<1> QED
  BY <1>3, <1>5

\* A chunk ends past its start, within the response, and fits a frame; where
\* octets remain after it, it is not empty.
LEMMA ChunkEndBounds ==
  ASSUME NEW tx \in TxBuffer,
         NEW offset \in Nat, offset <= Len(tx.data)
  PROVE  /\ ChunkEnd(tx, offset) \in Nat
         /\ offset <= ChunkEnd(tx, offset)
         /\ ChunkEnd(tx, offset) <= Len(tx.data)
         /\ PrefixLen(tx.cid) + (ChunkEnd(tx, offset) - offset) <= FrameMax
         /\ ChunkEnd(tx, offset) < Len(tx.data) => ChunkEnd(tx, offset) # 0
<1>1. Len(tx.data) \in Nat
  BY LenProperties DEF TxBuffer
<1>2. PrefixLen(tx.cid) \in 1..2
  BY DEF PrefixLen
<1>3. ChunkCap(tx.cid) \in Nat /\ ChunkCap(tx.cid) >= 1
      /\ PrefixLen(tx.cid) + ChunkCap(tx.cid) = FrameMax
  BY <1>2, FrameAssumption DEF ChunkCap
<1> QED
  BY <1>1, <1>2, <1>3, FrameAssumption DEF ChunkEnd, MinOf

\* What the engine writes is a response in octets of the command or of the
\* length error.
LEMMA DispatchType ==
  ASSUME NEW apdu \in Seq(Octet), apdu # <<>>,
         NEW out \in Dispatch(apdu)
  PROVE  /\ out.runs \in BOOLEAN
         /\ out.reply \in Seq(Octet)
         /\ out.post \in Event
         /\ WrittenIn(out.reply, {apdu[1][1], ErrorOctet[1]})
<1>1. apdu[1] \in Octet
  BY LenProperties, EmptySeq, ElementOfSeq
<1>2. ASSUME NEW n \in ReplyLengths
      PROVE  Reply(apdu, n) \in Seq(Octet) /\ WrittenIn(Reply(apdu, n), {apdu[1][1], ErrorOctet[1]})
  <2>1. n \in Nat
    BY ReplyAssumption
  <2>2. \A k \in 1..n : <<apdu[1][1], k>> \in Octet
    BY <1>1, <2>1 DEF Octet
  <2>3. Reply(apdu, n) \in Seq(Octet)
    BY <2>1, <2>2, IsASeq DEF Reply
  <2> QED
    BY <2>3 DEF Reply, WrittenIn
<1>3. /\ LengthError \in Seq(Octet)
      /\ WrittenIn(LengthError, {apdu[1][1], ErrorOctet[1]})
  <2>1. ErrorOctet \in Octet
    BY DEF ErrorOctet, Octet
  <2>2. LengthError \in Seq(Octet) /\ LengthError = [k \in 1..1 |-> ErrorOctet]
    BY <2>1 DEF LengthError
  <2> QED
    BY <2>2 DEF WrittenIn
<1>4. CASE out \in Refused
  <2>1. out = [runs |-> FALSE, reply |-> LengthError, post |-> "None"]
    BY <1>4 DEF Refused
  <2> QED
    BY <2>1, <1>3 DEF Event
<1>5. CASE out \in Engine(apdu, {"None", "AppSelected"}) \cup Engine(apdu, {"None", "Emulate"})
  <2>1. PICK n \in ReplyLengths, e \in Event :
          out = [runs |-> TRUE, reply |-> Reply(apdu, n), post |-> e]
    BY <1>5 DEF Engine, Event
  <2> QED
    BY <2>1, <1>2
<1> QED
  BY <1>4, <1>5 DEF Dispatch

\* Octets the arbitrary reader sends are written in the current activation.
LEMMA PcdFramesType ==
  ASSUME TypeOK, NEW f \in PcdFrames
  PROVE  f \in Frame /\ WrittenIn(f.data, {activation})
<1>1. ASSUME NEW d \in PcdData
      PROVE  d \in Seq(Octet) /\ WrittenIn(d, {activation})
  <2>1. PICK n \in Payloads : d = [k \in 1..n |-> <<activation, k>>]
    BY <1>1 DEF PcdData
  <2>2. n \in Nat /\ activation \in Nat
    BY ReplyAssumption DEF TypeOK
  <2>3. \A k \in 1..n : <<activation, k>> \in Octet
    BY <2>2 DEF Octet
  <2>4. d \in Seq(Octet)
    BY <2>1, <2>2, <2>3, IsASeq
  <2> QED
    BY <2>1, <2>4 DEF WrittenIn
<1>2. <<>> \in Seq(Octet) /\ WrittenIn(<<>>, {activation})
  BY EmptySeq DEF WrittenIn
<1>3. f.data \in PcdData \cup {<<>>}
  BY DEF PcdFrames, FramesOf
<1>4. f.data \in Seq(Octet) /\ WrittenIn(f.data, {activation})
  BY <1>1, <1>2, <1>3
<1>5. f \in Frame
  BY <1>4 DEF PcdFrames, FramesOf, Frame, FrameKind, Bit
<1> QED
  BY <1>4, <1>5

\* What a step that cuts a chunk leaves behind: the frame to retransmit ends
\* where the offset, or the response, ends.
LEMMA SendChunk ==
  ASSUME NEW tx \in TxBuffer, NEW offset \in Nat, offset <= Len(tx.data), NEW bn \in Bit,
         SendNextIResponse(tx, offset, bn)
  PROVE  /\ last_response_valid' = TRUE
         /\ picc_block' = bn
         /\ last_frame' \in Frame
         /\ response_offset' \in Nat
         /\ response_offset' # 0 => response_offset' < Len(tx.data)
         /\ IsLastChunk(last_frame', tx, response_offset', bn)
         /\ \A O : WrittenIn(tx.data, O) => WrittenIn(last_frame'.data, O)
         /\ air' \in {<<last_frame'>>, <<>>}
<1> DEFINE end == ChunkEnd(tx, offset)
           slice == SubSeq(tx.data, offset + 1, end)
           more == end < Len(tx.data)
<1>1. /\ last_frame' = Block("I", bn, more, tx.cid, slice)
      /\ response_offset' = IF more THEN end ELSE 0
      /\ last_response_valid' = TRUE /\ picc_block' = bn
      /\ air' \in {<<last_frame'>>, <<>>}
  BY DEF SendNextIResponse, Transmit
<1>2. /\ end \in Nat /\ offset <= end /\ end <= Len(tx.data)
      /\ PrefixLen(tx.cid) + (end - offset) <= FrameMax
      /\ more => end # 0
  BY ChunkEndBounds DEF TxBuffer
<1>3. tx.data \in Seq(Octet) /\ Len(tx.data) \in Nat /\ tx.cid \in Cids \cup {NoCid}
  BY LenProperties DEF TxBuffer
<1> HIDE DEF end
<1>4. /\ slice \in Seq(Octet)
      /\ Len(slice) = end - offset
      /\ \A k \in 1..(end - offset) : slice[k] = tx.data[offset + k]
  BY <1>2, <1>3, Slice
<1>5. last_frame' \in Frame
  <2>1. more \in BOOLEAN /\ "I" \in FrameKind
    BY <1>2, <1>3 DEF FrameKind
  <2> HIDE DEF more, slice
  <2> QED
    BY <2>1, <1>1, <1>3, <1>4, BlockIsFrame
<1>6. /\ last_frame'.kind = "I" /\ last_frame'.bn = bn /\ last_frame'.flag = more
      /\ last_frame'.cid = tx.cid /\ last_frame'.data = slice
  BY <1>1 DEF Block
<1>7. response_offset' \in Nat /\ (response_offset' # 0) = more
      /\ (more => response_offset' < Len(tx.data))
  BY <1>1, <1>2
<1>8. KeptEnd(tx, response_offset') = end
  BY <1>1, <1>2, <1>3 DEF KeptEnd
<1>9. IsLastChunk(last_frame', tx, response_offset', bn)
  <2>1. end - (end - offset) + 1 = offset + 1
    BY <1>2
  <2> QED
    BY <2>1, <1>2, <1>4, <1>6, <1>7, <1>8 DEF IsLastChunk
<1>10. ASSUME NEW O, WrittenIn(tx.data, O)
       PROVE  WrittenIn(last_frame'.data, O)
  <2>1. DOMAIN slice = 1..(end - offset)
    BY <1>4, LenProperties
  <2>2. \A k \in 1..(end - offset) : offset + k \in DOMAIN tx.data
    BY <1>2, <1>3, LenProperties
  <2> QED
    BY <1>4, <1>6, <1>10, <2>1, <2>2 DEF WrittenIn
<1> QED
  BY <1>1, <1>5, <1>7, <1>9, <1>10

-----------------------------------------------------------------------------
(* The inductive invariant.  To the properties the runs check it adds where  *)
(* the octets of tx_buffer come from (a chunk cut later is a slice of it)    *)
(* and that an engine that ran has left a response (so the session is bound  *)
(* to its CID).                                                              *)
Origins == {activation, ErrorOctet[1]}
IInv ==
  /\ TypeOK
  /\ CommandFits
  /\ PendingResponse
  /\ LastFrameIsLastChunk
  /\ ActivationIsolation
  /\ last_response_valid => WrittenIn(tx_buffer.data, Origins)
  /\ executed # <<>> => last_response_valid

LEMMA InitIInv == Init => IInv
<1> SUFFICES ASSUME Init PROVE IInv
  OBVIOUS
<1>1. <<>> \in Seq(Octet) /\ <<>> \in Seq(Seq(Octet)) /\ <<>> \in Seq(Frame) /\ Len(<<>>) = 0
  BY EmptySeq
<1>2. NoFrame \in Frame
  BY <1>1, BlockIsFrame DEF NoFrame, FrameKind, Bit
<1>3. TypeOK
  BY <1>1, <1>2 DEF Init, TypeOK, Bit, TxBuffer, Event
<1>4. CommandFits /\ PendingResponse /\ LastFrameIsLastChunk
  BY <1>1, FrameAssumption DEF Init, CommandFits, PendingResponse, LastFrameIsLastChunk
<1>5. ActivationIsolation
  BY <1>1 DEF Init, ActivationIsolation, WrittenIn
<1> QED
  BY <1>3, <1>4, <1>5 DEF IInv, Init

\* One frame, or none, whose octets are of this activation.
LEMMA TransmitType ==
  ASSUME NEW f \in Frame, air' \in {<<f>>, <<>>}, NEW O, WrittenIn(f.data, O)
  PROVE  air' \in Seq(Frame) /\ \A i \in DOMAIN air' : WrittenIn(air'[i].data, O)
<1>1. <<f>> \in Seq(Frame) /\ DOMAIN <<f>> = {1} /\ <<f>>[1] = f /\ <<>> \in Seq(Frame) /\ DOMAIN <<>> = {}
  OBVIOUS
<1> QED
  BY <1>1

\* A step that only transmits, and perhaps learns the CID of an unbound session,
\* keeps the invariant.
LEMMA TransmitOnly ==
  ASSUME IInv, NEW f \in Frame, WrittenIn(f.data, Origins),
         air' \in {<<f>>, <<>>}, posted' \in Event,
         cid' \in Cids \cup {NoCid}, last_response_valid => cid' = cid,
         UNCHANGED <<last_response_valid, expected_pcd_block, picc_block, last_frame,
                     command, response_offset, engine>>
  PROVE  IInv'
<1>1. air' \in Seq(Frame) /\ \A i \in DOMAIN air' : WrittenIn(air'[i].data, Origins)
  BY TransmitType
<1>2. TypeOK'
  BY <1>1 DEF IInv, TypeOK, engine
<1>3. CommandFits' /\ PendingResponse' /\ LastFrameIsLastChunk'
  BY DEF IInv, CommandFits, PendingResponse, LastFrameIsLastChunk, engine
<1>4. ActivationIsolation'
  BY <1>1 DEF IInv, ActivationIsolation, Origins, engine
<1> QED
  BY <1>2, <1>3, <1>4 DEF IInv, Origins, engine

\* What an I-block for this card does to the session's CID.
LEMMA LearnedCid ==
  ASSUME IInv, NEW f \in Frame, ForThisCard(f), LearnCid(f)
  PROVE  cid' \in Cids \cup {NoCid} /\ (SessionBound => cid' = cid)
BY DEF ForThisCard, LearnCid, Frame

\* Control blocks carry no octets.
LEMMA ControlBlocks ==
  ASSUME NEW bn \in Bit, NEW c \in Cids \cup {NoCid}, NEW O
  PROVE  /\ Ack(bn, c) \in Frame /\ WrittenIn(Ack(bn, c).data, O)
         /\ Nak(bn, c) \in Frame /\ WrittenIn(Nak(bn, c).data, O)
<1>1. <<>> \in Seq(Octet) /\ WrittenIn(<<>>, O) /\ "R" \in FrameKind
  BY EmptySeq DEF WrittenIn, FrameKind
<1> QED
  BY <1>1, BlockIsFrame DEF Ack, Nak, Block

LEMMA AnswersKeepIInv ==
  ASSUME IInv, NEW f \in PcdFrames,
         \/ ReceivePps(f) \/ ResendForRBlock(f) \/ AcknowledgeNak(f) \/ Ignore(f)
         \/ RepeatResponse(f) \/ AnswerUnexpectedBlock(f) \/ RefuseBlock(f)
  PROVE  IInv'
<1>1. f \in Frame /\ WrittenIn(f.data, Origins)
  BY PcdFramesType DEF IInv, Origins, WrittenIn
<1>2. last_frame \in Frame /\ (last_response_valid => WrittenIn(last_frame.data, Origins))
  BY DEF IInv, TypeOK, ActivationIsolation, Origins
<1>3. /\ expected_pcd_block \in Bit /\ picc_block \in Bit /\ f.bn \in Bit
      /\ cid \in Cids \cup {NoCid} /\ f.cid \in Cids \cup {NoCid}
      /\ last_response_valid \in BOOLEAN
  BY <1>1 DEF IInv, TypeOK, Frame
<1>4. "None" \in Event
  BY DEF Event
<1>5. CASE ReceivePps(f)
  BY <1>5, <1>1, <1>3, <1>4, TransmitOnly DEF ReceivePps, Transmit, session
<1>6. CASE ResendForRBlock(f)
  BY <1>6, <1>2, <1>3, <1>4, TransmitOnly DEF ResendForRBlock, Resendable, Transmit, session
<1>7. CASE AcknowledgeNak(f)
  BY <1>7, <1>3, <1>4, ControlBlocks, TransmitOnly DEF AcknowledgeNak, Transmit, session
<1>8. CASE Ignore(f)
  BY <1>8, <1>1, <1>3, <1>4, TransmitOnly DEF Ignore, Silent, session
<1>9. ASSUME ForThisCard(f), LearnCid(f)
      PROVE  cid' \in Cids \cup {NoCid} /\ (last_response_valid => cid' = cid)
  BY <1>9, <1>1, LearnedCid DEF SessionBound
<1>10. CASE RepeatResponse(f)
  BY <1>10, <1>2, <1>3, <1>4, <1>9, TransmitOnly DEF RepeatResponse, Transmit
<1>11. CASE AnswerUnexpectedBlock(f)
  BY <1>11, <1>3, <1>4, <1>9, ControlBlocks, TransmitOnly DEF AnswerUnexpectedBlock, Transmit
<1>12. CASE RefuseBlock(f)
  BY <1>12, <1>3, <1>4, <1>9, ControlBlocks, TransmitOnly DEF RefuseBlock, Transmit
<1> QED
  BY <1>5, <1>6, <1>7, <1>8, <1>10, <1>11, <1>12

\* The next chunk of the pending response.
LEMMA ContinueKeepsIInv ==
  ASSUME IInv, NEW f \in PcdFrames, ContinueResponse(f)
  PROVE  IInv'
<1>1. /\ response_offset # 0 /\ last_response_valid
      /\ response_offset \in Nat /\ response_offset < Len(tx_buffer.data)
      /\ command = <<>> /\ tx_buffer \in TxBuffer /\ Len(tx_buffer.data) \in Nat
      /\ picc_block \in Bit /\ 1 - picc_block \in Bit
  BY LenProperties DEF IInv, TypeOK, PendingResponse, ContinueResponse, TxBuffer, Bit
<1>2. /\ SendNextIResponse(tx_buffer, response_offset, 1 - picc_block)
      /\ expected_pcd_block' = picc_block /\ posted' = "None"
      /\ UNCHANGED <<command, cid, tx_buffer, executed, activation>>
  BY DEF ContinueResponse, engine
<1>3. /\ last_response_valid' = TRUE
      /\ picc_block' = 1 - picc_block
      /\ last_frame' \in Frame
      /\ response_offset' \in Nat
      /\ response_offset' # 0 => response_offset' < Len(tx_buffer.data)
      /\ IsLastChunk(last_frame', tx_buffer, response_offset', 1 - picc_block)
      /\ \A O : WrittenIn(tx_buffer.data, O) => WrittenIn(last_frame'.data, O)
      /\ air' \in {<<last_frame'>>, <<>>}
  <2> DEFINE bn == 1 - picc_block
  <2>1. response_offset <= Len(tx_buffer.data) /\ bn \in Bit
        /\ SendNextIResponse(tx_buffer, response_offset, bn)
    BY <1>1, <1>2
  <2> HIDE DEF bn
  <2>2. /\ last_response_valid' = TRUE /\ picc_block' = bn /\ last_frame' \in Frame
        /\ response_offset' \in Nat
        /\ response_offset' # 0 => response_offset' < Len(tx_buffer.data)
        /\ IsLastChunk(last_frame', tx_buffer, response_offset', bn)
        /\ \A O : WrittenIn(tx_buffer.data, O) => WrittenIn(last_frame'.data, O)
        /\ air' \in {<<last_frame'>>, <<>>}
    BY <2>1, <1>1, SendChunk
  <2> QED
    BY <2>2 DEF bn
<1>4. WrittenIn(tx_buffer.data, Origins) /\ WrittenIn(last_frame'.data, Origins)
  BY <1>1, <1>3 DEF IInv
<1>5. air' \in Seq(Frame) /\ \A i \in DOMAIN air' : WrittenIn(air'[i].data, Origins)
  BY <1>3, <1>4, TransmitType
<1>6. TypeOK'
  BY <1>1, <1>2, <1>3, <1>5 DEF IInv, TypeOK, Event
<1>7. CommandFits' /\ PendingResponse'
  BY <1>1, <1>2, <1>3 DEF IInv, CommandFits, PendingResponse, Bit
<1>8. LastFrameIsLastChunk'
  BY <1>1, <1>2, <1>3 DEF IInv, LastFrameIsLastChunk
<1>9. ActivationIsolation'
  BY <1>2, <1>4, <1>5 DEF IInv, ActivationIsolation, Origins
<1> QED
  BY <1>2, <1>3, <1>4, <1>6, <1>7, <1>8, <1>9 DEF IInv, Origins

\* The command gathered with one more block: octets of this activation only.
LEMMA GatheredType ==
  ASSUME IInv, NEW f \in PcdFrames
  PROVE  /\ Gathered(f) \in Seq(Octet)
         /\ Len(Gathered(f)) = Len(command) + Len(f.data)
         /\ f.data # <<>> => Gathered(f) # <<>>
         /\ WrittenIn(Gathered(f), {activation})
<1>1. /\ f.data \in Seq(Octet) /\ command \in Seq(Octet)
      /\ WrittenIn(f.data, {activation}) /\ WrittenIn(command, {activation})
  BY PcdFramesType DEF IInv, TypeOK, Frame, ActivationIsolation
<1>2. /\ Gathered(f) \in Seq(Octet)
      /\ Len(Gathered(f)) = Len(command) + Len(f.data)
      /\ \A k \in 1..(Len(command) + Len(f.data)) :
            Gathered(f)[k] = IF k <= Len(command) THEN command[k] ELSE f.data[k - Len(command)]
  BY <1>1, ConcatProperties DEF Gathered
<1>3. Len(command) \in Nat /\ Len(f.data) \in Nat
  BY <1>1, LenProperties
<1>4. f.data # <<>> => Gathered(f) # <<>>
  BY <1>1, <1>2, <1>3, EmptySeq
<1>5. ASSUME NEW k \in DOMAIN Gathered(f)
      PROVE  Gathered(f)[k][1] \in {activation}
  <2>1. k \in 1..(Len(command) + Len(f.data))
    BY <1>2, <1>5, LenProperties
  <2>2. CASE k <= Len(command)
    <3>1. k \in DOMAIN command
      BY <1>1, <1>3, <2>1, <2>2, LenProperties
    <3> QED
      BY <1>1, <1>2, <2>1, <2>2, <3>1 DEF WrittenIn
  <2>3. CASE ~(k <= Len(command))
    <3>1. k - Len(command) \in DOMAIN f.data
      BY <1>1, <1>3, <2>1, <2>3, LenProperties
    <3> QED
      BY <1>1, <1>2, <2>1, <2>3, <3>1 DEF WrittenIn
  <2> QED
    BY <2>2, <2>3
<1> QED
  BY <1>2, <1>4, <1>5 DEF WrittenIn

\* A chained block is added to the command, or what was gathered is dropped.
LEMMA GatherKeepsIInv ==
  ASSUME IInv, NEW f \in PcdFrames, GatherBlock(f) \/ DropOverflow(f)
  PROVE  IInv'
<1>1. f \in Frame /\ f.bn \in Bit /\ f.cid \in Cids \cup {NoCid}
  BY PcdFramesType DEF IInv, Frame
<1>2. cid' \in Cids \cup {NoCid} /\ (last_response_valid => cid' = cid)
  BY <1>1, LearnedCid DEF GatherBlock, DropOverflow, SessionBound
<1>3. expected_pcd_block \in Bit /\ expected_pcd_block' \in Bit
  BY DEF GatherBlock, DropOverflow, IInv, TypeOK, Bit
<1>4. /\ response_offset = 0
      /\ posted' = "None"
      /\ UNCHANGED <<last_response_valid, picc_block, last_frame, response_offset,
                     tx_buffer, executed, activation>>
  BY DEF GatherBlock, DropOverflow, Acceptable, engine
<1>5. PICK r \in Frame : air' \in {<<r>>, <<>>} /\ WrittenIn(r.data, Origins)
  BY <1>1, <1>3, ControlBlocks DEF GatherBlock, DropOverflow, Transmit
<1>6. air' \in Seq(Frame) /\ \A i \in DOMAIN air' : WrittenIn(air'[i].data, Origins)
  BY <1>5, TransmitType
<1>7. /\ command' \in Seq(Octet) /\ Len(command') <= CommandCap
      /\ WrittenIn(command', {activation})
  <2>1. CASE GatherBlock(f)
    <3>1. command' = Gathered(f) /\ ~Overflows(f)
      BY <2>1 DEF GatherBlock
    <3>2. Len(command) \in Nat /\ Len(f.data) \in Nat
      BY <1>1, LenProperties DEF IInv, TypeOK, Frame
    <3>3. ~(Len(f.data) + Len(command) > CommandCap) /\ CommandCap \in Nat
      BY <3>1, FrameAssumption DEF Overflows
    <3>4. Gathered(f) \in Seq(Octet) /\ Len(Gathered(f)) = Len(command) + Len(f.data)
          /\ WrittenIn(Gathered(f), {activation})
      BY GatheredType
    <3> QED
      BY <3>1, <3>2, <3>3, <3>4
  <2>2. CASE DropOverflow(f)
    BY <2>2, FrameAssumption, EmptySeq DEF DropOverflow, WrittenIn
  <2> QED
    BY <2>1, <2>2
<1>8. TypeOK'
  BY <1>2, <1>3, <1>4, <1>6, <1>7 DEF IInv, TypeOK, Event
<1>9. CommandFits' /\ PendingResponse' /\ LastFrameIsLastChunk'
  BY <1>2, <1>4, <1>7 DEF IInv, CommandFits, PendingResponse, LastFrameIsLastChunk
<1>10. ActivationIsolation'
  BY <1>4, <1>6, <1>7 DEF IInv, ActivationIsolation, Origins
<1> QED
  BY <1>4, <1>8, <1>9, <1>10 DEF IInv, Origins

\* The engine runs the whole command and the first chunk of its response leaves.
LEMMA HandleKeepsIInv ==
  ASSUME IInv, NEW f \in PcdFrames, HandleCommand(f)
  PROVE  IInv'
<1> DEFINE apdu == Gathered(f)
<1>1. f \in Frame /\ f.cid \in Cids \cup {NoCid} /\ cid' = f.cid
  BY PcdFramesType DEF IInv, Frame, HandleCommand, LearnCid
<1>2. apdu \in Seq(Octet) /\ apdu # <<>> /\ WrittenIn(apdu, {activation})
  BY GatheredType DEF HandleCommand, Acceptable
<1>3. PICK out \in Dispatch(apdu) :
        /\ executed' = IF out.runs THEN Append(executed, apdu) ELSE executed
        /\ posted' = out.post
        /\ SendIResponse([cid |-> f.cid, data |-> out.reply])
  BY DEF HandleCommand, RunCommand
<1> DEFINE tx == [cid |-> f.cid, data |-> out.reply]
<1>4. apdu[1][1] = activation
  <2>1. 1 \in DOMAIN apdu
    BY <1>2, LenProperties, EmptySeq
  <2> QED
    BY <1>2, <2>1 DEF WrittenIn
<1>5. /\ out.reply \in Seq(Octet) /\ out.post \in Event
      /\ WrittenIn(out.reply, Origins)
  BY <1>2, <1>4, DispatchType DEF Origins
<1>6. tx \in TxBuffer /\ 0 <= Len(tx.data) /\ expected_pcd_block \in Bit
  BY <1>1, <1>5, LenProperties DEF TxBuffer, IInv, TypeOK
<1>7. /\ SendNextIResponse(tx, 0, expected_pcd_block)
      /\ tx_buffer' = tx /\ expected_pcd_block' = 1 - expected_pcd_block
  BY <1>3 DEF SendIResponse
<1>8. command' = <<>> /\ activation' = activation
  BY DEF HandleCommand
<1> HIDE DEF apdu, tx
<1>9. /\ last_response_valid' = TRUE /\ picc_block' = expected_pcd_block
      /\ last_frame' \in Frame /\ response_offset' \in Nat
      /\ response_offset' # 0 => response_offset' < Len(tx.data)
      /\ IsLastChunk(last_frame', tx, response_offset', expected_pcd_block)
      /\ \A O : WrittenIn(tx.data, O) => WrittenIn(last_frame'.data, O)
      /\ air' \in {<<last_frame'>>, <<>>}
  BY <1>6, <1>7, SendChunk
<1>10. tx.cid = cid' /\ WrittenIn(tx.data, Origins) /\ WrittenIn(last_frame'.data, Origins)
  BY <1>1, <1>5, <1>9 DEF tx
<1>11. air' \in Seq(Frame) /\ \A i \in DOMAIN air' : WrittenIn(air'[i].data, Origins)
  BY <1>9, <1>10, TransmitType
<1>12. /\ executed' \in Seq(Seq(Octet))
       /\ \A i \in DOMAIN executed' : WrittenIn(executed'[i], {activation})
  <2>1. executed \in Seq(Seq(Octet)) /\ \A i \in DOMAIN executed : WrittenIn(executed[i], {activation})
    BY DEF IInv, TypeOK, ActivationIsolation
  <2>2. CASE executed' = executed
    BY <2>1, <2>2
  <2>3. CASE executed' = Append(executed, apdu)
    <3>1. /\ executed' \in Seq(Seq(Octet))
          /\ Len(executed') = Len(executed) + 1
          /\ \A i \in 1..Len(executed) : executed'[i] = executed[i]
          /\ executed'[Len(executed) + 1] = apdu
      BY <1>2, <2>1, <2>3, AppendProperties
    <3>2. /\ Len(executed) \in Nat /\ DOMAIN executed = 1..Len(executed)
          /\ DOMAIN executed' = 1..(Len(executed) + 1)
      BY <2>1, <3>1, LenProperties
    <3>3. ASSUME NEW i \in DOMAIN executed'
          PROVE  WrittenIn(executed'[i], {activation})
      <4>1. CASE i \in 1..Len(executed)
        BY <2>1, <3>1, <3>2, <4>1
      <4>2. CASE i = Len(executed) + 1
        BY <1>2, <3>1, <4>2
      <4> QED
        BY <3>2, <4>1, <4>2
    <3> QED
      BY <3>1, <3>3
  <2> QED
    BY <1>3, <2>2, <2>3 DEF apdu
<1>13. TypeOK'
  <2>1. expected_pcd_block' \in Bit /\ command' \in Seq(Octet) /\ cid' \in Cids \cup {NoCid}
    BY <1>1, <1>6, <1>7, <1>8, EmptySeq DEF Bit
  <2>2. tx_buffer' \in TxBuffer /\ posted' \in Event /\ activation' \in Nat
    BY <1>3, <1>5, <1>6, <1>7, <1>8 DEF IInv, TypeOK
  <2> QED
    BY <2>1, <2>2, <1>6, <1>9, <1>11, <1>12 DEF TypeOK
<1>14. CommandFits' /\ PendingResponse'
  BY <1>6, <1>7, <1>8, <1>9, FrameAssumption, EmptySeq DEF CommandFits, PendingResponse, Bit
<1>15. LastFrameIsLastChunk'
  BY <1>7, <1>9, <1>10 DEF LastFrameIsLastChunk
<1>16. ActivationIsolation'
  BY <1>8, <1>10, <1>11, <1>12, EmptySeq DEF ActivationIsolation, Origins, WrittenIn
<1> QED
  BY <1>7, <1>8, <1>9, <1>10, <1>13, <1>14, <1>15, <1>16 DEF IInv, Origins

\* The end of a session empties everything that could reach the next one.
LEMMA EndOfSessionKeepsIInv ==
  ASSUME IInv, EndOfSession \/ \E f \in PcdFrames : Deselect(f)
  PROVE  IInv'
<1>1. <<>> \in Seq(Octet) /\ <<>> \in Seq(Seq(Octet)) /\ Len(<<>>) = 0 /\ WrittenIn(<<>>, {activation'})
  BY EmptySeq DEF WrittenIn
<1>2. /\ last_response_valid' = FALSE /\ expected_pcd_block' = 0 /\ picc_block' = 1
      /\ command' = <<>> /\ response_offset' = 0 /\ cid' = NoCid
      /\ activation' = activation + 1 /\ executed' = <<>> /\ tx_buffer' = tx_buffer
  BY DEF EndOfSession, Deselect, ResetSession, ResetActivation
<1>3. posted' \in Event
  BY DEF EndOfSession, Deselect, Event
<1>4. NoFrame \in Frame /\ last_frame' \in Frame
  BY <1>1, BlockIsFrame DEF EndOfSession, Deselect, NoFrame, FrameKind, Bit, IInv, TypeOK
<1>5. PICK r \in Frame : air' \in {<<r>>, <<>>} /\ WrittenIn(r.data, Origins')
  <2>1. CASE EndOfSession
    BY <2>1, <1>4 DEF EndOfSession, Silent, NoFrame, Block, WrittenIn
  <2>2. ASSUME NEW f \in PcdFrames, Deselect(f)
        PROVE  \E r \in Frame : air' \in {<<r>>, <<>>} /\ WrittenIn(r.data, Origins')
    <3>1. f \in Frame /\ f.data = <<>>
      BY <2>2, PcdFramesType DEF IInv, Deselect, PcdFrames, FramesOf
    <3> QED
      BY <2>2, <3>1 DEF Deselect, Transmit, WrittenIn
  <2> QED
    BY <2>1, <2>2
<1>6. air' \in Seq(Frame) /\ \A i \in DOMAIN air' : WrittenIn(air'[i].data, Origins')
  BY <1>5, TransmitType
<1>7. TypeOK'
  <2>1. activation' \in Nat /\ tx_buffer' \in TxBuffer
    BY <1>2 DEF IInv, TypeOK
  <2>2. /\ last_response_valid' \in BOOLEAN /\ expected_pcd_block' \in Bit
        /\ picc_block' \in Bit /\ command' \in Seq(Octet) /\ response_offset' \in Nat
        /\ cid' \in Cids \cup {NoCid} /\ executed' \in Seq(Seq(Octet))
    BY <1>1, <1>2 DEF Bit
  <2> QED
    BY <2>1, <2>2, <1>3, <1>4, <1>6 DEF TypeOK
<1>8. CommandFits' /\ PendingResponse' /\ LastFrameIsLastChunk'
  BY <1>1, <1>2, FrameAssumption DEF CommandFits, PendingResponse, LastFrameIsLastChunk
<1>9. ActivationIsolation'
  BY <1>1, <1>2, <1>6 DEF ActivationIsolation, Origins, WrittenIn
<1> QED
  BY <1>2, <1>7, <1>8, <1>9 DEF IInv

LEMMA NextIInv == IInv /\ [Next]_vars => IInv'
<1> SUFFICES ASSUME IInv, [Next]_vars PROVE IInv'
  OBVIOUS
<1>1. ASSUME NEW f \in PcdFrames, Receive(f) PROVE IInv'
  <2>1. CASE Deselect(f)
    BY <2>1, EndOfSessionKeepsIInv
  <2>2. CASE ContinueResponse(f)
    BY <2>2, ContinueKeepsIInv
  <2>3. CASE GatherBlock(f) \/ DropOverflow(f)
    BY <2>3, GatherKeepsIInv
  <2>4. CASE HandleCommand(f)
    BY <2>4, HandleKeepsIInv
  <2>5. CASE \/ ReceivePps(f) \/ ResendForRBlock(f) \/ AcknowledgeNak(f) \/ Ignore(f)
             \/ RepeatResponse(f) \/ AnswerUnexpectedBlock(f) \/ RefuseBlock(f)
    BY <2>5, AnswersKeepIInv
  <2> QED
    BY <1>1, <2>1, <2>2, <2>3, <2>4, <2>5 DEF Receive, ReceiveR, ReceiveI
<1>2. CASE EndOfSession
  BY <1>2, EndOfSessionKeepsIInv
<1>3. CASE UNCHANGED vars
  BY <1>3 DEF vars, session, engine, IInv, TypeOK, CommandFits, PendingResponse,
    LastFrameIsLastChunk, ActivationIsolation, Origins
<1> QED
  BY <1>1, <1>2, <1>3 DEF Next

-----------------------------------------------------------------------------
\* The invariant holds in every state the listener can reach, whatever frames
\* arrive in whatever order.
THEOREM Invariance == Spec => []IInv
  BY InitIInv, NextIInv, PTL DEF Spec

\* Every iso_dep_* field keeps its type: no block number leaves {0, 1}.
THEOREM TypeCorrectness == Spec => []TypeOK
<1>1. IInv => TypeOK
  BY DEF IInv
<1> QED
  BY <1>1, Invariance, PTL

\* Nothing of one activation reaches the next (listener lines 166-172, 316-339).
THEOREM ActivationsAreIsolated == Spec => []ActivationIsolation
<1>1. IInv => ActivationIsolation
  BY DEF IInv
<1> QED
  BY <1>1, Invariance, PTL

\* The frame kept for retransmission ends where the next chunk will start, fits
\* a frame and carries the session's CID (send_next_i_response, lines 65-86).
THEOREM RetransmissionIsExact == Spec => []LastFrameIsLastChunk
<1>1. IInv => LastFrameIsLastChunk
  BY DEF IInv
<1> QED
  BY <1>1, Invariance, PTL

\* A pending response is never overtaken: until its last chunk is out no command is
\* gathered into the buffers and the block numbers differ (lines 65-86, 200-213).
THEOREM ResponseIsNotOvertaken == Spec => []PendingResponse
<1>1. IInv => PendingResponse
  BY DEF IInv
<1> QED
  BY <1>1, Invariance, PTL

\* No copy into iso_dep_command goes past its end (lines 216-239).
THEOREM CommandIsBounded == Spec => []CommandFits
<1>1. IInv => CommandFits
  BY DEF IInv
<1> QED
  BY <1>1, Invariance, PTL

\* Once the engine has run a command the session is bound, and a step that does
\* not end the activation keeps its CID.
THEOREM CidIsFixed == Spec => CidFixedOnceEngineRan
<1> DEFINE Fixed == executed # <<>> /\ activation' = activation => cid' = cid
<1>1. IInv /\ [Next]_vars => Fixed
  <2> SUFFICES ASSUME IInv, [Next]_vars, executed # <<>>, activation' = activation
               PROVE  cid' = cid
    OBVIOUS
  <2>1. SessionBound /\ activation \in Nat
    BY DEF SessionBound, IInv, TypeOK
  <2>2. ASSUME NEW f \in PcdFrames, Receive(f) PROVE cid' = cid
    <3>1. CASE ReceiveI(f)
      BY <3>1, <2>1 DEF ReceiveI, RepeatResponse, AnswerUnexpectedBlock, RefuseBlock,
        DropOverflow, GatherBlock, HandleCommand, ForThisCard, LearnCid
    <3>2. CASE ReceivePps(f) \/ ReceiveR(f) \/ Ignore(f)
      BY <3>2 DEF ReceivePps, ReceiveR, ResendForRBlock, ContinueResponse, AcknowledgeNak,
        Ignore, session
    <3>3. CASE Deselect(f)
      BY <3>3, <2>1 DEF Deselect, ResetActivation
    <3> QED
      BY <2>2, <3>1, <3>2, <3>3 DEF Receive
  <2>3. CASE EndOfSession
    BY <2>3, <2>1 DEF EndOfSession, ResetActivation
  <2>4. CASE UNCHANGED vars
    BY <2>4 DEF vars, session
  <2> QED
    BY <2>2, <2>3, <2>4 DEF Next
<1>2. Fixed => [Fixed]_vars
  OBVIOUS
<1> QED
  BY <1>1, Invariance, PTL DEF Spec, CidFixedOnceEngineRan
=============================================================================
