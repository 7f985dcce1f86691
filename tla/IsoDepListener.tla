--------------------------- MODULE IsoDepListener ---------------------------
(***************************************************************************)
(* The card side of ISO-DEP as dfc_emulator_listener.c implements it when   *)
(* the firmware does no framing of its own (the build without               *)
(* type_4_tag.h): strip the block framing, hand the engine one bare         *)
(* command, cut the engine's response into I-blocks, answer                 *)
(* retransmission requests.                                                 *)
(*                                                                          *)
(* One variable per iso_dep_* field of struct Dfc (dfc_i.h:83-92), one      *)
(* action per branch of dfc_worker_listener_callback.  The peer is          *)
(* arbitrary here: any frame the code tells apart may arrive at any time.   *)
(* IsoDepLink composes the same actions with a reader that follows          *)
(* ISO/IEC 14443-4 over a lossy channel.                                    *)
(*                                                                          *)
(* Data is abstracted to octets <<origin, position>>: the origin says in    *)
(* which activation (here) or for which command (IsoDepLink) the octet was  *)
(* written.  Capacities are scaled down: 62 octets per frame is FrameMax,   *)
(* DFC_WORKER_MAX_BUFFER_SIZE is CommandCap.                                *)
(***************************************************************************)
EXTENDS Naturals, Sequences

CONSTANTS
  FrameMax,        \* ISO_DEP_FRAME_MAX: octets of one frame, prologue included
  CommandCap,      \* DFC_WORKER_MAX_BUFFER_SIZE: size of iso_dep_command
  ReplyLengths,    \* lengths of the responses the engine may write
  CommandClasses,  \* kinds of command the reader may send, see Dispatch
  Cids,            \* card identifiers a reader may assign
  NoCid,           \* the frame carries no CID octet; no CID in the session
  Payloads,        \* lengths of the I-block payloads the arbitrary reader sends
  MaxCommands,     \* bound: commands handed to the engine per activation
  MaxActivations   \* bound: activations

ASSUME FrameAssumption ==
  FrameMax \in Nat /\ FrameMax >= 3 /\ CommandCap \in Nat \ {0}
ASSUME ReplyAssumption == ReplyLengths \subseteq Nat /\ Payloads \subseteq Nat
ASSUME CidAssumption == NoCid \notin Cids
ASSUME BoundAssumption == MaxCommands \in Nat /\ MaxActivations \in Nat

VARIABLES
  last_response_valid,  \* iso_dep_last_response_valid
  expected_pcd_block,   \* iso_dep_expected_pcd_block
  picc_block,           \* iso_dep_picc_block
  last_frame,           \* iso_dep_last_frame and its length
  command,              \* iso_dep_command and its length
  response_offset,      \* iso_dep_response_offset, payload octets already cut
  cid,                  \* iso_dep_cid_valid and iso_dep_cid: NoCid when invalid
  tx_buffer,            \* the engine's response and the prologue copied to it
  executed,             \* commands the engine handled since it was activated
  activation,           \* counts dfc_emulator_reset_activation calls
  air,                  \* the frame the last step transmitted, or <<>>
  posted                \* the custom event the last step posted, or "None"

session == <<last_response_valid, expected_pcd_block, picc_block, last_frame,
             command, response_offset, cid>>
engine == <<tx_buffer, executed, activation>>
vars == <<session, engine, air, posted>>

-----------------------------------------------------------------------------
(* Frames.  "I", "R" and "S" are the block types of ISO/IEC 14443-4, flag is *)
(* PCB bit 0x10: chaining in an I-block, NAK in an R-block.  "PPS" keeps the *)
(* radio at 106 kbit/s; "Other" is every frame the code drops on its form    *)
(* alone: too short, an R-block with a payload, an S-block that is no        *)
(* DESELECT, a PPS for another rate, an I-block with NAD.                    *)

Bit == {0, 1}
Event == {"None", "AppSelected", "Emulate"}
Octet == Nat \X Nat
FrameKind == {"None", "I", "R", "S", "PPS", "Other"}
Frame == [kind: FrameKind, bn: Bit, flag: BOOLEAN,
          cid: Cids \cup {NoCid}, data: Seq(Octet)]

Block(kind, bn, flag, c, data) ==
  [kind |-> kind, bn |-> bn, flag |-> flag, cid |-> c, data |-> data]
TxBuffer == [cid: Cids \cup {NoCid}, data: Seq(Octet)]
NoFrame == Block("None", 0, FALSE, NoCid, <<>>)

Ack(bn, c) == Block("R", bn, FALSE, c, <<>>)     \* 0xA2 | bn
Nak(bn, c) == Block("R", bn, TRUE, c, <<>>)      \* 0xB2 | bn

PrefixLen(c) == IF c = NoCid THEN 1 ELSE 2
ChunkCapIgnoringCid(c) == FrameMax - 1                          \* mutant
ChunkCap(c) == FrameMax - PrefixLen(c)

\* One frame goes out, unless send_frame finds no buffer or the radio refuses.
Transmit(f) == air' = <<f>> \/ air' = <<>>
Silent == air' = <<>>

-----------------------------------------------------------------------------
(* Responses.                                                               *)

\* send_next_i_response: cut the next chunk of tx under block number bn, from
\* offset on, and remember it as the frame to retransmit.
MinOf(a, b) == IF a <= b THEN a ELSE b
ChunkEnd(tx, offset) == MinOf(Len(tx.data), offset + ChunkCap(tx.cid))

SendNextIResponse(tx, offset, bn) ==
  LET end  == ChunkEnd(tx, offset)
      more == end < Len(tx.data)
  IN  /\ last_frame' = Block("I", bn, more, tx.cid, SubSeq(tx.data, offset + 1, end))
      /\ response_offset' = IF more THEN end ELSE 0
      /\ last_response_valid' = TRUE
      /\ picc_block' = bn
      /\ Transmit(last_frame')

SendIResponseSameBlock(tx) ==                                    \* mutant
  /\ tx_buffer' = tx
  /\ SendNextIResponse(tx, 0, expected_pcd_block)
  /\ UNCHANGED expected_pcd_block
SendIResponseUnmasked(tx) ==                                     \* mutant
  /\ tx_buffer' = tx
  /\ SendNextIResponse(tx, 0, expected_pcd_block)
  /\ expected_pcd_block' = 1 + expected_pcd_block

\* send_i_response: a fresh response takes the number of the block it answers.
SendIResponse(tx) ==
  /\ tx_buffer' = tx
  /\ SendNextIResponse(tx, 0, expected_pcd_block)
  /\ expected_pcd_block' = 1 - expected_pcd_block

ErrorOctet == <<0, 0>>
LengthError == <<ErrorOctet>>
Reply(apdu, n) == [k \in 1..n |-> <<apdu[1][1], k>>]

\* What becomes of a whole command: which engine entry handles it, the response
\* it may write, and the event posted to the GUI.  A "select" is an ISO 7816
\* SELECT the engine accepts, a "wrapped_bad" an ISO wrapper whose Lc lies.
Engine(apdu, events) ==
  {[runs |-> TRUE, reply |-> Reply(apdu, n), post |-> e] :
      n \in ReplyLengths, e \in events}
Refused == {[runs |-> FALSE, reply |-> LengthError, post |-> "None"]}
Dispatch(apdu) ==
  IF Len(apdu) > CommandCap THEN Refused
  ELSE UNION {
    IF "select" \in CommandClasses
      THEN Engine(apdu, {"None", "AppSelected"}) ELSE {},
    IF "wrapped_bad" \in CommandClasses THEN Refused ELSE {},
    IF "native" \in CommandClasses
      THEN Engine(apdu, {"None", "Emulate"}) ELSE {}}

RunCommand(apdu, c) ==
  \E out \in Dispatch(apdu) :
    /\ executed' = IF out.runs THEN Append(executed, apdu) ELSE executed
    /\ posted' = out.post
    /\ SendIResponse([cid |-> c, data |-> out.reply])

-----------------------------------------------------------------------------
(* Received frames, in the order the handler tests them.                    *)

\* PPS: the confirmation repeats the request.
ReceivePps(f) ==
  /\ f.kind = "PPS"
  /\ Transmit(f)
  /\ posted' = "None"
  /\ UNCHANGED <<session, engine>>

Resendable(f) == last_response_valid /\ f.bn = picc_block

\* R-block for the block already sent: send it once more.
ResendForRBlock(f) ==
  /\ f.kind = "R" /\ f.cid = cid
  /\ Resendable(f)
  /\ Transmit(last_frame)
  /\ posted' = "None"
  /\ UNCHANGED <<session, engine>>

\* R(ACK) for the block sent: the reader wants the next chunk.
ContinueResponse(f) ==
  /\ f.kind = "R" /\ f.cid = cid
  /\ ~Resendable(f)
  /\ response_offset # 0 /\ ~f.flag
  /\ SendNextIResponse(tx_buffer, response_offset, 1 - picc_block)
  /\ expected_pcd_block' = picc_block
  /\ posted' = "None"
  /\ UNCHANGED <<command, cid, engine>>

\* R(NAK) with nothing to repeat: acknowledge the last block received.
AcknowledgeNak(f) ==
  /\ f.kind = "R" /\ f.cid = cid
  /\ ~Resendable(f)
  /\ f.flag
  /\ Transmit(Ack(picc_block, f.cid))
  /\ posted' = "None"
  /\ UNCHANGED <<session, engine>>

ResetSessionKeepingCommand ==                                    \* mutant
  /\ last_response_valid' = FALSE
  /\ expected_pcd_block' = 0
  /\ picc_block' = 1
  /\ response_offset' = 0
  /\ cid' = NoCid
  /\ UNCHANGED command

\* The fields every end of a session resets.
ResetSession ==
  /\ last_response_valid' = FALSE
  /\ expected_pcd_block' = 0
  /\ picc_block' = 1
  /\ command' = <<>>
  /\ response_offset' = 0
  /\ cid' = NoCid

\* dfc_emulator_reset_activation: the engine is back at PICC level.
ResetActivation ==
  /\ activation' = activation + 1
  /\ executed' = <<>>
  /\ UNCHANGED tx_buffer

DeselectOnlyInSession(f) ==                                       \* mutant
  /\ f.kind = "S" /\ f.cid = cid
  /\ last_response_valid \/ command # <<>>
  /\ Transmit(f)
  /\ ResetActivation
  /\ ResetSession
  /\ posted' = "None"
  /\ UNCHANGED last_frame

\* S(DESELECT): echo it and end the session; last_frame keeps its octets.
Deselect(f) ==
  /\ f.kind = "S" /\ f.cid = cid
  /\ Transmit(f)
  /\ ResetActivation
  /\ ResetSession
  /\ posted' = "None"
  /\ UNCHANGED last_frame

\* I-blocks.  Until a block has been accepted, the session takes the CID of
\* whatever I-block arrives; afterwards another CID is not for this card.
SessionBound == last_response_valid \/ command # <<>>
ForThisCardAnyCid(f) == f.kind = "I"                              \* mutant
ForThisCard(f) == f.kind = "I" /\ (f.cid = cid \/ ~SessionBound)
LearnCid(f) == cid' = f.cid

\* A block with the other number, after a whole response: repeat the response.
RepeatResponse(f) ==
  /\ ForThisCard(f) /\ LearnCid(f)
  /\ f.bn # expected_pcd_block
  /\ last_response_valid /\ command = <<>>
  /\ Transmit(last_frame)
  /\ posted' = "None"
  /\ UNCHANGED <<last_response_valid, expected_pcd_block, picc_block, last_frame,
                 command, response_offset, engine>>

\* The same within a chained command: acknowledge the block once more; with
\* nothing received and nothing sent: refuse it.
AnswerUnexpectedBlock(f) ==
  /\ ForThisCard(f) /\ LearnCid(f)
  /\ f.bn # expected_pcd_block
  /\ ~(last_response_valid /\ command = <<>>)
  /\ Transmit(IF command # <<>> THEN Ack(f.bn, f.cid)
                                ELSE Nak(expected_pcd_block, f.cid))
  /\ posted' = "None"
  /\ UNCHANGED <<last_response_valid, expected_pcd_block, picc_block, last_frame,
                 command, response_offset, engine>>

\* A new block while a response is still being fetched, or one without payload.
RefuseBlock(f) ==
  /\ ForThisCard(f) /\ LearnCid(f)
  /\ f.bn = expected_pcd_block
  /\ response_offset # 0 \/ f.data = <<>>
  /\ Transmit(Nak(expected_pcd_block, f.cid))
  /\ posted' = "None"
  /\ UNCHANGED <<last_response_valid, expected_pcd_block, picc_block, last_frame,
                 command, response_offset, engine>>

AcceptableMidResponse(f) ==                                      \* mutant
  f.bn = expected_pcd_block /\ f.data # <<>>
Acceptable(f) ==
  /\ f.bn = expected_pcd_block
  /\ response_offset = 0
  /\ f.data # <<>>
Chained(f) == f.flag \/ command # <<>>
OverflowsByTwo(f) == Len(f.data) + Len(command) > CommandCap + 1  \* mutant
Overflows(f) == Len(f.data) + Len(command) > CommandCap
GatheredLastOnly(f) == f.data                                    \* mutant
Gathered(f) == command \o f.data

\* A chained command longer than iso_dep_command: forget what was gathered.
DropOverflow(f) ==
  /\ ForThisCard(f) /\ LearnCid(f)
  /\ Acceptable(f) /\ Chained(f) /\ Overflows(f)
  /\ command' = <<>>
  /\ Transmit(Nak(expected_pcd_block, f.cid))
  /\ posted' = "None"
  /\ UNCHANGED <<last_response_valid, expected_pcd_block, picc_block, last_frame,
                 response_offset, engine>>

\* One more block of a chained command.
GatherBlock(f) ==
  /\ ForThisCard(f) /\ LearnCid(f)
  /\ Acceptable(f) /\ f.flag /\ ~Overflows(f)
  /\ command' = Gathered(f)
  /\ expected_pcd_block' = 1 - expected_pcd_block
  /\ Transmit(Ack(f.bn, f.cid))
  /\ posted' = "None"
  /\ UNCHANGED <<last_response_valid, picc_block, last_frame, response_offset, engine>>

\* The last or only block: the engine gets the command, the reader its response.
HandleCommand(f) ==
  /\ ForThisCard(f) /\ LearnCid(f)
  /\ Acceptable(f) /\ ~f.flag
  /\ ~(Chained(f) /\ Overflows(f))
  /\ RunCommand(Gathered(f), f.cid)
  /\ command' = <<>>
  /\ UNCHANGED activation

ReceiveI(f) ==
  \/ RepeatResponse(f) \/ AnswerUnexpectedBlock(f) \/ RefuseBlock(f)
  \/ DropOverflow(f) \/ GatherBlock(f) \/ HandleCommand(f)

ReceiveRWithoutAck(f) == ResendForRBlock(f) \/ ContinueResponse(f)  \* mutant
ReceiveR(f) == ResendForRBlock(f) \/ ContinueResponse(f) \/ AcknowledgeNak(f)

\* Every early break: no frame, no change.
Ignore(f) ==
  /\ \/ f.kind = "Other"
     \/ f.kind \in {"R", "S"} /\ f.cid # cid
     \/ f.kind = "R" /\ ~Resendable(f) /\ ~f.flag /\ response_offset = 0
     \/ f.kind = "I" /\ ~ForThisCard(f)
  /\ Silent
  /\ posted' = "None"
  /\ UNCHANGED <<session, engine>>

\* Iso14443_4aListenerEventTypeReceivedData
Receive(f) ==
  ReceivePps(f) \/ ReceiveR(f) \/ Deselect(f) \/ ReceiveI(f) \/ Ignore(f)

\* Iso14443_4aListenerEventTypeHalted and ...FieldOff: the same statements.
EndOfSession ==
  /\ ResetActivation
  /\ ResetSession
  /\ last_frame' = NoFrame
  /\ Silent
  /\ posted' = "Emulate"

-----------------------------------------------------------------------------
(* dfc_scene_emulate_on_enter starts the listener in this state.            *)
Init ==
  /\ last_response_valid = FALSE
  /\ expected_pcd_block = 0
  /\ picc_block = 1
  /\ last_frame = NoFrame
  /\ command = <<>>
  /\ response_offset = 0
  /\ cid = NoCid
  /\ tx_buffer = [cid |-> NoCid, data |-> <<>>]
  /\ executed = <<>>
  /\ activation = 1
  /\ air = <<>>
  /\ posted = "None"

\* What an arbitrary reader may send in this activation.
PcdData == {[k \in 1..n |-> <<activation, k>>] : n \in Payloads}
FramesOf(kinds, bns, flags, cids, datas) ==
  [kind: kinds, bn: bns, flag: flags, cid: cids, data: datas]
PcdFrames ==
  FramesOf({"I"}, Bit, BOOLEAN, Cids \cup {NoCid}, PcdData)
    \cup FramesOf({"R"}, Bit, BOOLEAN, Cids \cup {NoCid}, {<<>>})
    \cup FramesOf({"S"}, {0}, {FALSE}, Cids \cup {NoCid}, {<<>>})
    \cup FramesOf({"PPS", "Other"}, {0}, {FALSE}, {NoCid}, {<<>>})

Next ==
  /\ \/ \E f \in PcdFrames : Receive(f)
     \/ EndOfSession
  /\ Len(executed') <= MaxCommands
  /\ activation' <= MaxActivations

Spec == Init /\ [][Next]_vars

-----------------------------------------------------------------------------
\* Every iso_dep_* field holds a value its uses expect: block numbers stay bits
\* under every toggle, and whatever is kept or sent is a well-formed frame.
TypeOK ==
  /\ last_response_valid \in BOOLEAN
  /\ expected_pcd_block \in Bit
  /\ picc_block \in Bit
  /\ last_frame \in Frame
  /\ command \in Seq(Octet)
  /\ response_offset \in Nat
  /\ cid \in Cids \cup {NoCid}
  /\ tx_buffer \in TxBuffer
  /\ executed \in Seq(Seq(Octet))
  /\ activation \in Nat
  /\ air \in Seq(Frame)
  /\ posted \in Event

\* Nothing of one activation reaches the next: neither a half-gathered command
\* nor a response kept for retransmission survives FieldOff, Halted or DESELECT
\* (listener lines 166-172, 316-339), so every command the engine is handed and
\* every I-block that goes out was written in the activation it appears in.
WrittenIn(data, origins) == \A k \in DOMAIN data : data[k][1] \in origins

ActivationIsolation ==
  /\ WrittenIn(command, {activation})
  /\ \A i \in DOMAIN executed : WrittenIn(executed[i], {activation})
  /\ last_response_valid => WrittenIn(last_frame.data, {activation, ErrorOctet[1]})
  /\ \A i \in DOMAIN air : WrittenIn(air[i].data, {activation, ErrorOctet[1]})

\* The frame kept for retransmission is always the chunk that ends where the
\* next one will start, under the number and CID an R-block has to name, and it
\* fits a frame: resending it, then continuing, neither repeats nor skips an octet.
KeptEnd(tx, offset) == IF offset # 0 THEN offset ELSE Len(tx.data)
IsLastChunk(f, tx, offset, bn) ==
  /\ f.kind = "I" /\ f.bn = bn /\ f.flag = (offset # 0) /\ f.cid = tx.cid
  /\ PrefixLen(f.cid) + Len(f.data) <= FrameMax
  /\ Len(f.data) <= KeptEnd(tx, offset)
  /\ f.data = SubSeq(tx.data, KeptEnd(tx, offset) - Len(f.data) + 1, KeptEnd(tx, offset))

LastFrameIsLastChunk ==
  last_response_valid =>
    /\ IsLastChunk(last_frame, tx_buffer, response_offset, picc_block)
    /\ tx_buffer.cid = cid

\* A response is fetched to its end before anything else happens to it: while
\* chunks remain, one has been sent, no command is being gathered into the
\* buffers, the block numbers of the two sides differ, and octets really remain.
PendingResponse ==
  response_offset # 0 =>
    /\ last_response_valid
    /\ command = <<>>
    /\ expected_pcd_block # picc_block
    /\ response_offset < Len(tx_buffer.data)

\* iso_dep_command never holds more than its array does.
CommandFits == Len(command) <= CommandCap

\* Once the engine has handled a command, the card answers to one CID until the
\* activation ends, whatever frames with other CIDs arrive in between.
CidFixedOnceEngineRan ==
  [][executed # <<>> /\ activation' = activation => cid' = cid]_vars
=============================================================================
