----------------------------- MODULE IsoDepLink -----------------------------
(***************************************************************************)
(* The listener of IsoDepListener and a reader that keeps the block         *)
(* protocol rules of ISO/IEC 14443-4, over a half-duplex radio that loses   *)
(* frames.  The listener's handlers are used as they are; the reader and    *)
(* the radio are external to this repository and are modelled from the      *)
(* frames the listener accepts and the rules the standard gives a PCD:      *)
(* R(NAK) on a time-out or an invalid block, R(ACK) instead while it        *)
(* fetches a chained response, retransmission on an R(ACK) with the other   *)
(* block number, the next block on an R(ACK) with its own.                  *)
(*                                                                          *)
(* Octet <<s, i>> is octet i of command number s or of the response to it.  *)
(***************************************************************************)
EXTENDS IsoDepListener, SequencesExt

CONSTANTS
  BlockCounts,   \* numbers of I-blocks the reader cuts a command into
  MaxSerial,     \* bound: commands the reader issues
  MaxFaults,     \* bound: frames lost and time-outs that come too early
  LossyBlocks,   \* bound: faults only befall commands of at most so many blocks
  MaxInFlight    \* bound: frames on the way to the card

ASSUME LinkAssumption ==
  /\ BlockCounts \subseteq Nat \ {0}
  /\ MaxSerial \in Nat /\ MaxFaults \in Nat /\ LossyBlocks \in Nat /\ MaxInFlight \in Nat

VARIABLES
  mode,          \* "idle", "sending", "receiving" or "deselecting"
  reader_block,  \* the reader's current block number
  reader_cid,    \* the CID it addresses this card with
  serial,        \* number of the current command
  blocks,        \* I-blocks the current command is cut into
  sent,          \* index of the block sent last
  received,      \* the octets of the response so far
  to_card, to_reader,  \* frames on their way
  faults,        \* faults so far
  ran,           \* every command the engine was handed, over all activations
  results        \* every <<command, response>> the reader believes in

reader == <<mode, reader_block, reader_cid, serial, blocks, sent, received>>
card == <<session, engine, air, posted>>
linkVars == <<card, reader, to_card, to_reader, faults, ran, results>>

CommandOf(s, n) == [i \in 1..n |-> <<s, i>>]
IBlock(i) ==
  Block("I", reader_block, i < blocks, reader_cid, <<<<serial, i>>>>)
Retry ==
  CASE mode = "sending"     -> Nak(reader_block, reader_cid)
    [] mode = "receiving"   -> Ack(reader_block, reader_cid)
    [] mode = "deselecting" -> Block("S", 0, FALSE, reader_cid, <<>>)

-----------------------------------------------------------------------------
(* The card takes the next frame.  A frame the listener fails to transmit is *)
(* a lost frame, so here a handler that answers does answer.                 *)
CardReceives ==
  /\ to_card # <<>>
  /\ LET f == Head(to_card)
     IN  /\ Receive(f)
         /\ air' = <<>> => Ignore(f)
  /\ to_card' = Tail(to_card)
  /\ to_reader' = to_reader \o air'
  /\ ran' = IF Len(executed') > Len(executed) THEN Append(ran, Last(executed')) ELSE ran
  /\ UNCHANGED <<reader, faults, results>>

-----------------------------------------------------------------------------
(* The reader.                                                               *)
Issue(n) ==
  /\ mode = "idle" /\ serial < MaxSerial
  /\ serial' = serial + 1
  /\ blocks' = n
  /\ sent' = 1
  /\ received' = <<>>
  /\ mode' = "sending"
  /\ to_card' = Append(to_card, Block("I", reader_block, 1 < n, reader_cid, <<<<serial', 1>>>>))
  /\ UNCHANGED <<card, reader_block, reader_cid, to_reader, faults, ran, results>>

StartDeselect ==
  /\ mode = "idle" /\ activation < MaxActivations
  /\ mode' = "deselecting"
  /\ to_card' = Append(to_card, Block("S", 0, FALSE, reader_cid, <<>>))
  /\ UNCHANGED <<card, reader_block, reader_cid, serial, blocks, sent, received,
                 to_reader, faults, ran, results>>

ExpectsResponse == mode = "receiving" \/ (mode = "sending" /\ sent = blocks)
IsResponse(m) == ExpectsResponse /\ m.kind = "I" /\ m.bn = reader_block /\ m.cid = reader_cid
IsAck(m) == mode = "sending" /\ m.kind = "R" /\ ~m.flag
IsNextAck(m) == IsAck(m) /\ sent < blocks /\ m.bn = reader_block
IsRepeatAck(m) == IsAck(m) /\ m.bn # reader_block
IsFarewell(m) == mode = "deselecting" /\ m.kind = "S"

TakeChunk(m) ==
  /\ IsResponse(m) /\ m.flag
  /\ received' = received \o m.data
  /\ reader_block' = 1 - reader_block
  /\ mode' = "receiving"
  /\ to_card' = Append(to_card, Ack(1 - reader_block, reader_cid))
  /\ to_reader' = Tail(to_reader)
  /\ UNCHANGED <<reader_cid, serial, blocks, sent, results>>

TakeLastChunk(m) ==
  /\ IsResponse(m) /\ ~m.flag
  /\ results' = Append(results, <<CommandOf(serial, blocks), <<received \o m.data>>>>)
  /\ received' = <<>>
  /\ reader_block' = 1 - reader_block
  /\ mode' = "idle"
  /\ to_reader' = Tail(to_reader)
  /\ UNCHANGED <<reader_cid, serial, blocks, sent, to_card>>

SendNextBlock(m) ==
  /\ IsNextAck(m)
  /\ reader_block' = 1 - reader_block
  /\ sent' = sent + 1
  /\ to_card' = Append(to_card,
       Block("I", 1 - reader_block, sent + 1 < blocks, reader_cid, <<<<serial, sent + 1>>>>))
  /\ to_reader' = Tail(to_reader)
  /\ UNCHANGED <<mode, reader_cid, serial, blocks, received, results>>

RepeatBlock(m) ==
  /\ IsRepeatAck(m)
  /\ Len(to_card) < MaxInFlight
  /\ to_card' = Append(to_card, IBlock(sent))
  /\ to_reader' = Tail(to_reader)
  /\ UNCHANGED <<reader, results>>

\* A new session starts with the next activation; nothing of this one is left.
EndSession(m) ==
  /\ IsFarewell(m)
  /\ mode' = "idle"
  /\ reader_block' = 0
  /\ to_card' = <<>> /\ to_reader' = <<>>
  /\ UNCHANGED <<reader_cid, serial, blocks, sent, received, results>>

RejectFrame(m) ==
  /\ mode # "idle"
  /\ ~IsResponse(m) /\ ~IsNextAck(m) /\ ~IsRepeatAck(m) /\ ~IsFarewell(m)
  /\ Len(to_card) < MaxInFlight
  /\ to_card' = Append(to_card, Retry)
  /\ to_reader' = Tail(to_reader)
  /\ UNCHANGED <<reader, results>>

DiscardFrame ==
  /\ mode = "idle"
  /\ to_reader' = Tail(to_reader)
  /\ UNCHANGED <<reader, to_card, results>>

ReaderReceives ==
  /\ to_reader # <<>>
  /\ LET m == Head(to_reader)
     IN  \/ TakeChunk(m) \/ TakeLastChunk(m) \/ SendNextBlock(m) \/ RepeatBlock(m)
         \/ EndSession(m) \/ RejectFrame(m) \/ DiscardFrame
  /\ UNCHANGED <<card, faults, ran>>

Quiet == to_card = <<>> /\ to_reader = <<>>

\* Nothing is on its way any more: the frame waiting time runs out.
TimeOut ==
  /\ mode # "idle" /\ Quiet
  /\ to_card' = Append(to_card, Retry)
  /\ UNCHANGED <<card, reader, to_reader, faults, ran, results>>

-----------------------------------------------------------------------------
(* Faults.                                                                   *)
Fault == faults < MaxFaults /\ blocks <= LossyBlocks /\ faults' = faults + 1

LoseFrame ==
  /\ Fault
  /\ \/ to_card # <<>> /\ to_card' = Tail(to_card) /\ UNCHANGED to_reader
     \/ to_reader # <<>> /\ to_reader' = Tail(to_reader) /\ UNCHANGED to_card
  /\ UNCHANGED <<card, reader, ran, results>>

\* The answer is late: the reader asks again while it is on its way.
LateAnswer ==
  /\ Fault
  /\ mode # "idle" /\ ~Quiet
  /\ mode # "deselecting"
  /\ Len(to_card) < MaxInFlight
  /\ to_card' = Append(to_card, Retry)
  /\ UNCHANGED <<card, reader, to_reader, ran, results>>

\* The card leaves the field, or the reader gives up and switches it off.
FieldOff ==
  /\ activation < MaxActivations
  /\ EndOfSession
  /\ mode' = "idle"
  /\ reader_block' = 0
  /\ to_card' = <<>> /\ to_reader' = <<>>
  /\ UNCHANGED <<reader_cid, serial, blocks, sent, received, faults, ran, results>>

-----------------------------------------------------------------------------
LinkInit ==
  /\ Init
  /\ mode = "idle" /\ reader_block = 0
  /\ reader_cid \in Cids \cup {NoCid}
  /\ serial = 0 /\ blocks = 0 /\ sent = 0 /\ received = <<>>
  /\ to_card = <<>> /\ to_reader = <<>>
  /\ faults = 0 /\ ran = <<>> /\ results = <<>>

LinkNext ==
  \/ CardReceives \/ ReaderReceives \/ TimeOut \/ StartDeselect
  \/ \E n \in BlockCounts : Issue(n)
  \/ LoseFrame \/ LateAnswer \/ FieldOff

LinkSpec == LinkInit /\ [][LinkNext]_linkVars

\* The card answers, the reader reads and its time-out expires; nobody has to
\* issue a command, lose a frame or leave the field.
FairLinkSpec ==
  LinkSpec /\ WF_linkVars(CardReceives) /\ WF_linkVars(ReaderReceives) /\ WF_linkVars(TimeOut)

-----------------------------------------------------------------------------
\* The link implements the service: the outstanding command is the one the
\* reader is sending or reading the response of, the response to it is what the
\* engine left in tx_buffer when it was the last command handed over.
Outstanding == mode \in {"sending", "receiving"}
pendingBar == IF Outstanding THEN CommandOf(serial, blocks) ELSE <<>>
responseBar ==
  IF Outstanding /\ ran # <<>> /\ Last(ran) = pendingBar THEN <<tx_buffer.data>> ELSE <<>>

Service == INSTANCE CommandService WITH
  pending <- pendingBar,
  response <- responseBar,
  NoCommand <- <<>>,
  NoResponse <- <<>>,
  Commands <- {CommandOf(s, n) : s \in 1..MaxSerial, n \in BlockCounts},
  Responses <- {<<Reply(CommandOf(s, 1), n)>> : s \in 1..MaxSerial, n \in ReplyLengths}

\* The listener and its reader together behave as CommandService: every command
\* is handed to the engine whole and at most once, and the reader is returned what
\* the engine wrote to that command and nothing else.
ImplementsService == Service!Spec

\* What the same lines promise, seen from the two ends.  "returns the response
\* the engine wrote": whatever a reader takes for the response to its command
\* was written to that command.
ResultsAnswerTheirCommand ==
  \A k \in DOMAIN results :
    WrittenIn(results[k][2][1], {results[k][1][1][1]})

\* "hands the engine a bare command": each command the engine is handed is one
\* the reader issued, whole.
EngineGetsIssuedCommands ==
  \A k \in DOMAIN ran : \E s \in 1..serial, n \in BlockCounts : ran[k] = CommandOf(s, n)

\* A retransmitted block is answered with the kept frame instead of being run again
\* (lines 182-188): the engine runs each command at most once, and the reader is
\* returned an answer to a command at most once, in order, and only if the engine ran it.
RunAndAnsweredOnce ==
  /\ \A i, j \in DOMAIN ran : i < j => ran[i][1][1] < ran[j][1][1]
  /\ \A i, j \in DOMAIN results : i < j => results[i][1][1][1] < results[j][1][1][1]
  /\ \A k \in DOMAIN results : \E j \in DOMAIN ran : ran[j] = results[k][1]

\* With the fairness above, faults bounded and the card left in the field, every
\* command the reader issues is answered.
EveryCommandAnswered == Outstanding ~> (mode = "idle" /\ Len(results) = serial)

\* Once the card knows the CID the reader addresses it with (line 145 lets its
\* retries through), a command that is not cut short by the end of the field is
\* answered.
AnsweredOnceBound == (Outstanding /\ cid = reader_cid) ~> (mode = "idle")

\* Without a CID a reader that deselects the card gets its echo, though the
\* session the first S(DESELECT) ended is over when the repeated one arrives.
FarewellIsReturned == (mode = "deselecting" /\ reader_cid = NoCid) ~> (mode = "idle")
=============================================================================
