------------------------- MODULE IsoDepLink_proofs -------------------------
(***************************************************************************)
(* The reader's steps and the faults keep the invariant of                  *)
(* IsoDepLinkCard_proofs and are steps of CommandService or unseen by it;   *)
(* so the link implements the service.                                      *)
(***************************************************************************)
EXTENDS IsoDepLinkCard_proofs

-----------------------------------------------------------------------------
(* The reader's steps and the faults.                                       *)

\* A queue that loses its head, or nothing.
LEMMA QueueShrinks ==
  ASSUME NEW s \in Seq(Frame), NEW t, t = s \/ (s # <<>> /\ t = Tail(s))
  PROVE  /\ t \in Seq(Frame) /\ (s = <<>> => t = <<>>)
         /\ \A S : Each(s, S) => Each(t, S)
         /\ \A A, B : Follows(s, A, B) => Follows(t, A, B)
<1>1. CASE t = s
  BY <1>1
<1>2. CASE s # <<>> /\ t = Tail(s)
  BY <1>2, Head1, EachTail, FollowsTail
<1> QED
  BY <1>1, <1>2

\* A step that leaves the card alone keeps what is common to all phases.
LEMMA ReaderStep ==
  ASSUME Common, UNCHANGED <<card, ran, reader_cid>>, ReaderTypeOK', serial <= serial'
  PROVE  Common'
<1>1. UNCHANGED session /\ UNCHANGED engine
  BY DEF card
<1>2. CardTypeOK'
  BY <1>1 DEF Common, CardTypeOK, session, engine
<1>3. SessionOK'
  BY <1>1 DEF Common, SessionOK, session, engine
<1>4. RanOK'
  <2>1. serial \in Nat /\ serial' \in Nat
    BY LinkAssumption DEF Common, ReaderTypeOK
  <2>2. \A s \in 1..serial : s \in 1..serial'
    BY <2>1
  <2>3. \A c : Issued(c) => Issued(c)'
    BY <2>2 DEF Issued
  <2>4. ran' = ran
    OBVIOUS
  <2> QED
    BY <2>3, <2>4 DEF Common, RanOK
<1> QED
  BY <1>2, <1>3, <1>4 DEF Common

\* One that only moves frames is not seen by the service either.
LEMMA FramesMove ==
  ASSUME Common, UNCHANGED <<card, reader, ran>>, results' = results,
         to_card' \in Seq(Frame), to_reader' \in Seq(Frame)
  PROVE  Common' /\ UNCHANGED Service!vars
<1>1. ReaderTypeOK'
  BY DEF Common, ReaderTypeOK, reader
<1>2. serial' = serial /\ serial \in Nat /\ UNCHANGED <<card, ran, reader_cid>>
  BY LinkAssumption DEF Common, ReaderTypeOK, reader
<1>3. Common'
  BY <1>1, <1>2, ReaderStep
<1>4. UNCHANGED Service!vars
  BY DEF Service!vars, pendingBar, responseBar, Outstanding, reader, card, engine
<1> QED
  BY <1>3, <1>4

\* What the reader may ask again.
LEMMA RetryType ==
  ASSUME Common
  PROVE  /\ mode = "sending" => Retry = Nak(reader_block, reader_cid)
         /\ mode = "receiving" => Retry = Ack(reader_block, reader_cid)
         /\ mode = "deselecting" => Retry = Block("S", 0, FALSE, reader_cid, <<>>) /\ Retry \in Farewells(reader_cid)
         /\ mode # "idle" => Retry \in Frame
         /\ mode \in {"sending", "receiving"} => Retry \in OldFrames(reader_block, serial, reader_cid)
<1>1. reader_block \in Bit /\ reader_cid \in Cids \cup {NoCid} /\ mode \in Mode
  BY DEF Common, ReaderTypeOK
<1>2. /\ mode = "sending" => Retry = Nak(reader_block, reader_cid)
      /\ mode = "receiving" => Retry = Ack(reader_block, reader_cid)
      /\ mode = "deselecting" => Retry = Block("S", 0, FALSE, reader_cid, <<>>)
  BY DEF Retry
<1>3. Block("S", 0, FALSE, reader_cid, <<>>) \in Frame
  <2>1. "S" \in FrameKind /\ 0 \in Bit /\ FALSE \in BOOLEAN /\ <<>> \in Seq(Octet)
    BY EmptySeq DEF FrameKind, Bit
  <2> QED
    BY <1>1, <2>1, BlockIsFrame
<1>4. Block("S", 0, FALSE, reader_cid, <<>>) \in Farewells(reader_cid)
  BY <1>3 DEF Farewells, Block
<1>5. Nak(reader_block, reader_cid) \in Frame /\ Ack(reader_block, reader_cid) \in Frame
  BY <1>1, ControlBlocks
<1>6. /\ Nak(reader_block, reader_cid) \in OldFrames(reader_block, serial, reader_cid)
      /\ Ack(reader_block, reader_cid) \in OldFrames(reader_block, serial, reader_cid)
  BY <1>5 DEF OldFrames, Ack, Nak, Block
<1> QED
  BY <1>1, <1>2, <1>3, <1>4, <1>5, <1>6 DEF Mode

\* The reader asks again, with or without having read a frame.
AskAgain ==
  /\ to_card' = Append(to_card, Retry)
  /\ to_reader' = to_reader \/ (to_reader # <<>> /\ to_reader' = Tail(to_reader))
  /\ UNCHANGED <<card, reader, ran>> /\ results' = results

\* The queues after it; the service sees none of this.
LEMMA AskAgainQueues ==
  ASSUME Common, AskAgain, mode # "idle"
  PROVE  /\ to_card \in Seq(Frame) /\ to_reader \in Seq(Frame) /\ Retry \in Frame
         /\ to_card' = Append(to_card, Retry) /\ to_card' \in Seq(Frame) /\ to_reader' \in Seq(Frame)
         /\ \A S : Each(to_reader, S) => Each(to_reader', S)
         /\ \A A, B : Follows(to_reader, A, B) => Follows(to_reader', A, B)
         /\ UNCHANGED reader /\ UNCHANGED session /\ UNCHANGED engine
         /\ Common' /\ UNCHANGED Service!vars
<1>1. to_card \in Seq(Frame) /\ to_reader \in Seq(Frame) /\ Retry \in Frame
  BY RetryType DEF Common, ReaderTypeOK
<1>2. to_card' = Append(to_card, Retry) /\ to_card' \in Seq(Frame)
  BY <1>1, AppendProperties DEF AskAgain
<1>3. /\ to_reader' \in Seq(Frame)
      /\ \A S : Each(to_reader, S) => Each(to_reader', S)
      /\ \A A, B : Follows(to_reader, A, B) => Follows(to_reader', A, B)
  BY <1>1, QueueShrinks DEF AskAgain
<1>4. Common' /\ UNCHANGED Service!vars
  BY <1>2, <1>3, FramesMove DEF AskAgain
<1> QED
  BY <1>1, <1>2, <1>3, <1>4 DEF AskAgain, card

\* A repeated S(DESELECT) joins the others.
LEMMA AskAgainDeselect ==
  ASSUME Common, DeselectPhase, AskAgain
  PROVE  Common' /\ DeselectPhase' /\ UNCHANGED Service!vars
<1> DEFINE S == Farewells(reader_cid)
           O == OldFrames(1 - reader_block, serial, reader_cid)
<1>0. mode = "deselecting"
  BY DEF DeselectPhase
<1>1. /\ to_card \in Seq(Frame) /\ to_reader \in Seq(Frame) /\ Retry \in Frame
      /\ to_card' = Append(to_card, Retry)
      /\ \A X : Each(to_reader, X) => Each(to_reader', X)
      /\ UNCHANGED reader /\ UNCHANGED session /\ UNCHANGED engine
      /\ Common' /\ UNCHANGED Service!vars
  BY <1>0, AskAgainQueues
<1>2. Retry \in S
  BY <1>0, RetryType
<1>3. /\ Follows(to_card', S, S)
      /\ Each(to_card, O \cup S) => Each(to_card', O \cup S)
      /\ Each(to_card, S) => Each(to_card', S)
  BY <1>1, <1>2, EachAppend, FollowsAppend DEF DeselectPhase
<1>4. DeselectPhase'
  BY <1>0, <1>1, <1>3 DEF DeselectPhase, reader, session
<1> QED
  BY <1>1, <1>4

\* The card has answered: it repeats its response to R(NAK) and to R(ACK).
LEMMA AskAgainAnswered ==
  ASSUME Common, AnsweredPhase, AskAgain
  PROVE  Common' /\ AnsweredPhase' /\ UNCHANGED Service!vars
<1>0. mode \in {"sending", "receiving"}
  BY DEF AnsweredPhase, Outstanding
<1>1. /\ to_card \in Seq(Frame) /\ to_reader \in Seq(Frame) /\ Retry \in Frame
      /\ to_card' = Append(to_card, Retry)
      /\ \A S : Each(to_reader, S) => Each(to_reader', S)
      /\ \A A, B : Follows(to_reader, A, B) => Follows(to_reader', A, B)
      /\ UNCHANGED reader /\ UNCHANGED session /\ UNCHANGED engine
      /\ Common' /\ UNCHANGED Service!vars
  BY <1>0, AskAgainQueues
<1>2. Each(to_card', OldFrames(reader_block, serial, reader_cid))
  BY <1>0, <1>1, RetryType, EachAppend DEF AnsweredPhase
<1>3. Outstanding' /\ EngineAnswered' /\ ran' = ran
  BY <1>1 DEF AnsweredPhase, Outstanding, EngineAnswered, reader, engine, AskAgain
<1>4. /\ Each(to_reader', OldAnswers(1 - reader_block) \cup Acks(Bit) \cup {last_frame})
      /\ Follows(to_reader', {last_frame}, {last_frame})
  BY <1>1 DEF AnsweredPhase
<1>5. AnsweredPhase'
  BY <1>1, <1>2, <1>3, <1>4 DEF AnsweredPhase, reader, session, engine
<1> QED
  BY <1>1, <1>5

\* The R(ACK) for the next chunk, once more.
LEMMA AskAgainFetching ==
  ASSUME Common, FetchingPhase, AskAgain
  PROVE  Common' /\ FetchingPhase' /\ UNCHANGED Service!vars
<1> DEFINE A == Ack(reader_block, reader_cid)
           O == OldFrames(1 - reader_block, serial, reader_cid)
<1>0. mode = "receiving"
  BY DEF FetchingPhase
<1>1. /\ to_card \in Seq(Frame) /\ to_reader \in Seq(Frame) /\ Retry \in Frame
      /\ to_card' = Append(to_card, Retry)
      /\ \A S : Each(to_reader, S) => Each(to_reader', S)
      /\ UNCHANGED reader /\ UNCHANGED session /\ UNCHANGED engine
      /\ Common' /\ UNCHANGED Service!vars
  BY <1>0, AskAgainQueues
<1>2. Retry = A
  BY <1>0, RetryType
<1>3. Each(to_card', O \cup {A}) /\ Follows(to_card', {A}, {A})
  BY <1>1, <1>2, EachAppend, FollowsAppend DEF FetchingPhase
<1>4. EngineAnswered' /\ Each(to_reader', OldAnswers(1 - reader_block))
  BY <1>1 DEF FetchingPhase, EngineAnswered, reader, engine, AskAgain
<1>5. FetchingPhase'
  BY <1>0, <1>1, <1>3, <1>4 DEF FetchingPhase, reader, session, engine
<1> QED
  BY <1>1, <1>5

\* While a command is sent, the reader's own queue after the reader read a frame.
LEMMA ToReaderShrinks ==
  ASSUME Common, NEW g \in Nat, ToReaderOK(g),
         to_reader' = to_reader \/ (to_reader # <<>> /\ to_reader' = Tail(to_reader)),
         UNCHANGED reader, sent >= 2 => to_card' # <<>>
  PROVE  ToReaderOK(g)'
<1>1. to_reader \in Seq(Frame)
  BY DEF Common, ReaderTypeOK
<1>2. /\ \A S : Each(to_reader, S) => Each(to_reader', S)
      /\ \A A, B : Follows(to_reader, A, B) => Follows(to_reader', A, B)
  BY <1>1, QueueShrinks
<1>3. /\ Each(to_reader', OldAnswers(BlockNo(0)) \cup Acks(Bit))
      /\ g = 0 => Each(to_reader', Frame \ Acks({BlockNo(1)}))
      /\ Follows(to_reader', Acks({BlockNo(1)}), Acks(Bit))
      /\ sent >= 2 => g # 0 /\ Each(to_reader', Acks(Bit))
  BY <1>2 DEF ToReaderOK
<1> QED
  BY <1>3, SameReader DEF ToReaderOK, Quiet, reader

\* The reader asks again while only the first block has been sent, or, having read an
\* acknowledgement that tells it nothing, after the last one.
LEMMA AskAgainSending ==
  ASSUME Common, SendingPhase, AskAgain, sent = 1 \/ sent = blocks
  PROVE  Common' /\ SendingPhase' /\ UNCHANGED Service!vars
<1>0. /\ GatheredOK(Len(command)) /\ ToCardOK(Len(command)) /\ ToReaderOK(Len(command))
      /\ mode = "sending"
  BY DEF SendingPhase
<1>a. PICK g \in Nat : g = Len(command)
  BY <1>0, SendingFacts
<1>1. /\ GatheredOK(g) /\ ToCardOK(g) /\ ToReaderOK(g)
      /\ sent \in Nat \ {0} /\ blocks \in Nat \ {0} /\ g < blocks /\ reader_block = BlockNo(sent)
  BY <1>0, <1>a, SendingFacts DEF GatheredOK
<1>2. /\ to_card \in Seq(Frame) /\ to_reader \in Seq(Frame) /\ Retry \in Frame
      /\ to_card' = Append(to_card, Retry)
      /\ UNCHANGED reader /\ UNCHANGED session /\ UNCHANGED engine
      /\ Common' /\ UNCHANGED Service!vars /\ Retry = Nak(BlockNo(sent), reader_cid)
  BY <1>0, <1>1, AskAgainQueues, RetryType
<1>3. Retry = FirstNak \/ (Retry \in Stale /\ g # 0 /\ blocks % 2 = 0 /\ Has(to_card, BlockK(blocks)))
  <2>1. CASE sent = 1
    BY <1>2, <2>1 DEF FirstNak
  <2>2. CASE sent # 1 /\ sent = blocks /\ blocks % 2 = 1
    <3>1. 1 % 2 = 1 /\ 1 \in Nat
      OBVIOUS
    <3>2. (BlockNo(1) = BlockNo(blocks)) <=> (1 % 2 = blocks % 2)
      BY <1>0, <1>1, SendingFacts
    <3> QED
      BY <1>2, <2>2, <3>1, <3>2 DEF FirstNak
  <2>3. CASE sent # 1 /\ sent = blocks /\ blocks % 2 = 0
    <3>1. 0 % 2 = 0 /\ 0 \in Nat
      OBVIOUS
    <3>2. (BlockNo(0) = BlockNo(blocks)) <=> (0 % 2 = blocks % 2)
      BY <1>0, <1>1, SendingFacts
    <3>3. Retry = Nak(BlockNo(0), reader_cid)
      BY <1>2, <2>3, <3>1, <3>2
    <3>4. Retry \in Stale
      BY <1>2, <3>3 DEF Stale, OldFrames, Nak, Block
    <3>5. sent >= 2 /\ blocks > 1 /\ blocks \in 1..sent /\ blocks > g
      BY <1>1, <2>3
    <3>6. g # 0
      BY <1>1, <3>5 DEF ToReaderOK
    <3>7. Has(to_card, BlockK(blocks))
      BY <1>1, <3>5 DEF ToCardOK
    <3> QED
      BY <2>3, <3>4, <3>6, <3>7
  <2>4. blocks % 2 \in {0, 1}
    BY <1>1
  <2> QED
    BY <2>1, <2>2, <2>3, <2>4
<1>4. /\ \A k \in Nat : BlockK(k) # Retry
      /\ blocks % 2 = 0 => sent = 1 \/ Retry # FirstNak
      /\ g = 0 => Retry \notin Stale
      /\ blocks % 2 = 1 => Retry \notin Stale
  <2>1. FirstNak \notin Stale /\ \A k \in Nat : BlockK(k) \notin Stale /\ BlockK(k) # FirstNak
    BY <1>0, SendingFrames
  <2>2. ASSUME blocks % 2 = 0, sent # 1 PROVE Retry # FirstNak
    <3>1. 1 % 2 = 1 /\ 1 \in Nat
      OBVIOUS
    <3>2. (BlockNo(1) = BlockNo(blocks)) <=> (1 % 2 = blocks % 2)
      BY <1>0, <1>1, SendingFacts
    <3>3. BlockNo(1) # BlockNo(sent)
      BY <2>2, <3>1, <3>2
    <3> QED
      BY <1>2, <3>3 DEF FirstNak, Nak, Block
  <2> QED
    BY <1>3, <2>1, <2>2
<1>5. ToCardOK(g)'
  <2> DEFINE s == Append(to_card, Retry)
  <2>1. Each(s, BlocksFrom(g) \cup {FirstNak} \cup Stale)
    BY <1>1, <1>2, <1>3, EachAppend DEF ToCardOK
  <2>2. \A l \in 1..sent : \A k \in 1..sent : k < l => Follows(s, {BlockK(l)}, Frame \ {BlockK(k)})
    <3> SUFFICES ASSUME NEW l \in 1..sent, NEW k \in 1..sent, k < l
                 PROVE  Follows(s, {BlockK(l)}, Frame \ {BlockK(k)})
      OBVIOUS
    <3>1. Follows(to_card, {BlockK(l)}, Frame \ {BlockK(k)})
      BY <1>1 DEF ToCardOK
    <3>2. Retry \in Frame \ {BlockK(k)}
      BY <1>2, <1>4
    <3> QED
      BY <1>2, <3>1, <3>2, FollowsAppend
  <2>3. blocks > 1 => \A k \in 1..sent : k > g => Has(s, BlockK(k))
    BY <1>1, <1>2, HasAppend DEF ToCardOK
  <2>4. blocks % 2 = 0 => \A k \in 2..sent : Follows(s, {BlockK(k)}, Frame \ {FirstNak})
    <3> SUFFICES ASSUME blocks % 2 = 0, NEW k \in 2..sent
                 PROVE  Follows(s, {BlockK(k)}, Frame \ {FirstNak})
      OBVIOUS
    <3>1. Follows(to_card, {BlockK(k)}, Frame \ {FirstNak})
      BY <1>1 DEF ToCardOK
    <3>2. sent # 1
      BY <1>1
    <3>3. Retry \in Frame \ {FirstNak}
      BY <1>2, <1>4, <3>2
    <3> QED
      BY <1>2, <3>1, <3>3, FollowsAppend
  <2>5. g = 0 => /\ Follows(s, {BlockK(1)}, Frame \ Stale)
                 /\ last_response_valid \/ Each(s, Frame \ Stale)
    BY <1>1, <1>2, <1>4, EachAppend, FollowsAppend DEF ToCardOK
  <2>6. g # 0 => Heralded(s, Stale, BlockK(blocks))
    <3> SUFFICES ASSUME g # 0 PROVE Heralded(s, Stale, BlockK(blocks))
      OBVIOUS
    <3>1. Heralded(to_card, Stale, BlockK(blocks))
      BY <1>1 DEF ToCardOK
    <3>2. Retry \notin Stale \/ Has(to_card, BlockK(blocks))
      BY <1>0, <1>3, SendingFrames
    <3> QED
      BY <1>2, <3>1, <3>2, HeraldedAppend
  <2>7. g # 0 => (blocks % 2 = 1 => Each(s, Frame \ Stale))
    BY <1>1, <1>2, <1>4, EachAppend DEF ToCardOK
  <2> HIDE DEF s
  <2>8. to_card' = s /\ last_response_valid' = last_response_valid
    BY <1>2 DEF s, session
  <2>9. sent' = sent /\ blocks' = blocks
    BY <1>2 DEF reader
  <2> QED
    BY <1>2, <2>1, <2>2, <2>3, <2>4, <2>5, <2>6, <2>7, <2>8, <2>9, SameReader DEF ToCardOK
<1>6. ToReaderOK(g)'
  <2>1. to_card' # <<>>
    BY <1>2, AppendProperties
  <2> QED
    BY <1>1, <1>2, <2>1, ToReaderShrinks DEF AskAgain
<1>7. GatheredOK(g)'
  BY <1>1, <1>2, SameReader DEF GatheredOK, session, reader, AskAgain
<1>8. Len(command)' = g /\ mode' = "sending"
  BY <1>0, <1>a, <1>2 DEF session, reader
<1> QED
  BY <1>2, <1>5, <1>6, <1>7, <1>8 DEF SendingPhase

\* An acknowledgement with the other number: the reader sends its last block again.
LEMMA RepeatBlockSending ==
  ASSUME Common, SendingPhase, to_reader # <<>>, to_card' = Append(to_card, IBlock(sent)),
         to_reader' = Tail(to_reader), UNCHANGED <<card, reader, ran>>, results' = results
  PROVE  Common' /\ SendingPhase' /\ UNCHANGED Service!vars
<1>0. /\ GatheredOK(Len(command)) /\ ToCardOK(Len(command)) /\ ToReaderOK(Len(command))
      /\ mode = "sending"
  BY DEF SendingPhase
<1>a. PICK g \in Nat : g = Len(command)
  BY <1>0, SendingFacts
<1>1. /\ GatheredOK(g) /\ ToCardOK(g) /\ ToReaderOK(g) /\ sent >= g
      /\ sent \in Nat \ {0} /\ reader_block = BlockNo(sent)
      /\ to_card \in Seq(Frame) /\ to_reader \in Seq(Frame)
  BY <1>0, <1>a, SendingFacts DEF GatheredOK, Common, ReaderTypeOK
<1> DEFINE x == BlockK(sent)
<1>2. /\ IBlock(sent) = x
      /\ x \in Frame /\ x \notin Stale /\ x # FirstNak /\ \A k \in Nat : k # sent => BlockK(k) # x
      /\ x \in BlocksFrom(g)
  <2>1. IBlock(sent) = x
    BY <1>1 DEF IBlock, BlockK
  <2>2. x \in Frame /\ x \notin Stale /\ x # FirstNak /\ \A k \in Nat : k # sent => BlockK(k) # x
    BY <1>0, <1>1, SendingFrames
  <2>3. x \in BlocksFrom(g)
    BY <1>1 DEF BlocksFrom
  <2> QED
    BY <2>1, <2>2, <2>3
<1> HIDE DEF x
<1>3. /\ to_card' = Append(to_card, x) /\ to_card' \in Seq(Frame) /\ to_card' # <<>>
      /\ to_reader' \in Seq(Frame) /\ UNCHANGED reader /\ UNCHANGED session /\ UNCHANGED engine
  BY <1>1, <1>2, AppendProperties, Head1 DEF card
<1>4. Common' /\ UNCHANGED Service!vars
  BY <1>3, FramesMove
<1>5. ToCardOK(g)'
  <2> DEFINE s == Append(to_card, x)
  <2>1. Each(s, BlocksFrom(g) \cup {FirstNak} \cup Stale)
    BY <1>1, <1>2, EachAppend DEF ToCardOK
  <2>2. \A l \in 1..sent : \A k \in 1..sent : k < l => Follows(s, {BlockK(l)}, Frame \ {BlockK(k)})
    <3> SUFFICES ASSUME NEW l \in 1..sent, NEW k \in 1..sent, k < l
                 PROVE  Follows(s, {BlockK(l)}, Frame \ {BlockK(k)})
      OBVIOUS
    <3>1. Follows(to_card, {BlockK(l)}, Frame \ {BlockK(k)})
      BY <1>1 DEF ToCardOK
    <3>2. k \in Nat /\ k # sent
      BY <1>1
    <3>3. x \in Frame \ {BlockK(k)}
      BY <1>2, <3>2
    <3> QED
      BY <1>1, <1>2, <3>1, <3>3, FollowsAppend
  <2>3. blocks > 1 => \A k \in 1..sent : k > g => Has(s, BlockK(k))
    BY <1>1, <1>2, HasAppend DEF ToCardOK
  <2>4. blocks % 2 = 0 => \A k \in 2..sent : Follows(s, {BlockK(k)}, Frame \ {FirstNak})
    BY <1>1, <1>2, FollowsAppend DEF ToCardOK
  <2>5. g = 0 => /\ Follows(s, {BlockK(1)}, Frame \ Stale)
                 /\ last_response_valid \/ Each(s, Frame \ Stale)
    BY <1>1, <1>2, EachAppend, FollowsAppend DEF ToCardOK
  <2>6. g # 0 => Heralded(s, Stale, BlockK(blocks))
    BY <1>1, <1>2, HeraldedAppend DEF ToCardOK
  <2>7. g # 0 => (blocks % 2 = 1 => Each(s, Frame \ Stale))
    BY <1>1, <1>2, EachAppend DEF ToCardOK
  <2> HIDE DEF s
  <2>8. to_card' = s /\ last_response_valid' = last_response_valid
    BY <1>3 DEF s, session
  <2>9. sent' = sent /\ blocks' = blocks
    BY <1>3 DEF reader
  <2> QED
    BY <1>3, <2>1, <2>2, <2>3, <2>4, <2>5, <2>6, <2>7, <2>8, <2>9, SameReader DEF ToCardOK
<1>6. ToReaderOK(g)'
  BY <1>1, <1>3, ToReaderShrinks
<1>7. GatheredOK(g)'
  BY <1>1, <1>3, SameReader DEF GatheredOK, session, reader
<1>8. Len(command)' = g /\ mode' = "sending"
  BY <1>0, <1>a, <1>3 DEF session, reader
<1> QED
  BY <1>4, <1>5, <1>6, <1>7, <1>8 DEF SendingPhase

\* The next block of a chain: block numbers and frames keep their meaning.
LEMMA NextBlockFrames ==
  ASSUME Common, GatheredOK(Len(command)), reader_block' = 1 - reader_block, sent' = sent + 1,
         UNCHANGED <<mode, reader_cid, serial, blocks, received>>
  PROVE  /\ \A k \in Nat : BlockNo(k)' = BlockNo(k) /\ BlockK(k)' = BlockK(k)
         /\ Stale' = Stale /\ FirstNak' = FirstNak
         /\ \A g \in Nat : \A f : f \in BlocksFrom(g) \/ (f = BlockK(sent + 1) /\ sent + 1 >= g)
                                   => f \in BlocksFrom(g)'
<1>1. sent \in Nat /\ reader_block \in Bit
  BY DEF Common, ReaderTypeOK
<1>2. ASSUME NEW k \in Nat PROVE BlockNo(k)' = BlockNo(k)
  <2>1. Alternate(k, sent + 1, 1 - reader_block) = Alternate(k, sent, reader_block)
    BY <1>1, Alternation
  <2>2. BlockNo(k)' = Alternate(k, sent', reader_block')
    BY DEF BlockNo, Alternate
  <2> QED
    BY <2>1, <2>2 DEF BlockNo
<1>3. ASSUME NEW k \in Nat PROVE BlockK(k)' = BlockK(k)
  BY <1>2 DEF BlockK
<1>4. Stale' = Stale /\ FirstNak' = FirstNak
  BY <1>2 DEF Stale, FirstNak, Nak, Block
<1>5. ASSUME NEW g \in Nat, NEW f, f \in BlocksFrom(g) \/ (f = BlockK(sent + 1) /\ sent + 1 >= g)
      PROVE  f \in BlocksFrom(g)'
  <2>1. PICK k \in 1..(sent + 1) : k >= g /\ f = BlockK(k)
    <3>1. CASE f \in BlocksFrom(g)
      <4>1. PICK k \in 1..sent : k >= g /\ f = BlockK(k)
        BY <3>1 DEF BlocksFrom
      <4>2. k \in 1..(sent + 1)
        BY <1>1
      <4> QED
        BY <4>1, <4>2
    <3>2. CASE f = BlockK(sent + 1) /\ sent + 1 >= g
      <4>1. sent + 1 \in 1..(sent + 1)
        BY <1>1
      <4> QED
        BY <3>2, <4>1
    <3> QED
      BY <1>5, <3>1, <3>2
  <2>2. k \in Nat /\ k \in 1..sent'
    BY <1>1, <2>1
  <2>3. f = BlockK(k)'
    BY <1>3, <2>1, <2>2
  <2> QED
    BY <2>1, <2>2, <2>3 DEF BlocksFrom
<1> QED
  BY <1>2, <1>3, <1>4, <1>5

\* The acknowledgement of the block sent last: the reader sends the next one, behind
\* every other frame.
LEMMA SendNextBlockSending ==
  ASSUME Common, SendingPhase, to_reader # <<>>, SendNextBlock(Head(to_reader)),
         UNCHANGED <<card, ran>>
  PROVE  Common' /\ SendingPhase' /\ UNCHANGED Service!vars
<1>0. /\ GatheredOK(Len(command)) /\ ToCardOK(Len(command)) /\ ToReaderOK(Len(command))
      /\ mode = "sending"
  BY DEF SendingPhase
<1>a. PICK g \in Nat : g = Len(command)
  BY <1>0, SendingFacts
<1>1. /\ GatheredOK(g) /\ ToCardOK(g) /\ ToReaderOK(g) /\ sent >= g
      /\ sent \in Nat \ {0} /\ blocks \in Nat \ {0} /\ reader_block = BlockNo(sent)
      /\ to_card \in Seq(Frame) /\ to_reader \in Seq(Frame)
      /\ reader_block \in Bit /\ reader_cid \in Cids \cup {NoCid} /\ serial \in Nat
  BY <1>0, <1>a, SendingFacts DEF GatheredOK, Common, ReaderTypeOK
<1>2. /\ reader_block' = 1 - reader_block /\ sent' = sent + 1 /\ sent < blocks
      /\ UNCHANGED <<mode, reader_cid, serial, blocks, received>> /\ UNCHANGED results
      /\ UNCHANGED session /\ UNCHANGED engine
      /\ to_reader' = Tail(to_reader)
      /\ to_card' = Append(to_card,
           Block("I", 1 - reader_block, sent + 1 < blocks, reader_cid, <<<<serial, sent + 1>>>>))
      /\ Head(to_reader) \in Acks({reader_block})
  BY <1>1, Head1 DEF SendNextBlock, IsNextAck, IsAck, Acks, card
<1>3. /\ \A k \in Nat : BlockNo(k)' = BlockNo(k) /\ BlockK(k)' = BlockK(k)
      /\ Stale' = Stale /\ FirstNak' = FirstNak
      /\ \A f : f \in BlocksFrom(g) \/ (f = BlockK(sent + 1) /\ sent + 1 >= g) => f \in BlocksFrom(g)'
  BY <1>0, <1>2, NextBlockFrames
<1>4. PICK x \in Frame : /\ x = BlockK(sent + 1)
                         /\ to_card' = Append(to_card, x)
  <2>1. BlockNo(sent + 1) = 1 - reader_block
    BY <1>0, <1>1, SendingFacts
  <2>2. BlockK(sent + 1) = Block("I", 1 - reader_block, sent + 1 < blocks, reader_cid, <<<<serial, sent + 1>>>>)
    BY <2>1 DEF BlockK
  <2>3. BlockK(sent + 1) \in Frame
    BY <1>0, <1>1, SendingFrames
  <2> QED
    BY <1>2, <2>2, <2>3
<1>5. /\ x \notin Stale /\ x # FirstNak /\ \A k \in Nat : k # sent + 1 => BlockK(k) # x
      /\ FirstNak \in Frame /\ Stale \subseteq Frame
  BY <1>0, <1>1, <1>4, SendingFrames
<1>6. x \notin BlocksFrom(g) /\ x \in BlocksFrom(g)' /\ BlocksFrom(g) \subseteq BlocksFrom(g)'
      /\ BlocksFrom(g) \subseteq Frame
  <2>1. x \notin BlocksFrom(g)
    <3> SUFFICES ASSUME NEW k \in 1..sent, x = BlockK(k) PROVE FALSE
      BY DEF BlocksFrom
    <3>1. k \in Nat /\ k # sent + 1
      BY <1>1
    <3> QED
      BY <1>5, <3>1
  <2>2. sent + 1 >= g
    BY <1>1
  <2>3. BlocksFrom(g) \subseteq Frame
    <3> SUFFICES ASSUME NEW k \in 1..sent PROVE BlockK(k) \in Frame
      BY DEF BlocksFrom
    <3>1. k \in Nat
      BY <1>1
    <3> QED
      BY <1>0, <3>1, SendingFrames
  <2> QED
    BY <1>3, <1>4, <2>1, <2>2, <2>3
<1>7. g # 0
  <2>1. CASE sent = 1
    <3>1. ~Each(to_reader, Frame \ Acks({BlockNo(1)}))
      BY <1>1, <1>2, <2>1, EachTail
    <3> QED
      BY <1>1, <3>1 DEF ToReaderOK
  <2>2. CASE sent >= 2
    BY <1>1, <2>2 DEF ToReaderOK
  <2> QED
    BY <1>1, <2>1, <2>2
<1>8. Each(to_card, Frame \ {x})
  <2>1. Each(to_card, BlocksFrom(g) \cup {FirstNak} \cup Stale)
    BY <1>1 DEF ToCardOK
  <2>2. BlocksFrom(g) \cup {FirstNak} \cup Stale \subseteq Frame \ {x}
    BY <1>5, <1>6
  <2> QED
    BY <1>1, <2>1, <2>2, Weaken
<1>9. ToCardOK(g)'
  <2> DEFINE s == Append(to_card, x)
  <2>1. Each(s, BlocksFrom(g)' \cup {FirstNak} \cup Stale)
    <3>1. Each(to_card, BlocksFrom(g) \cup {FirstNak} \cup Stale)
      BY <1>1 DEF ToCardOK
    <3>2. Each(to_card, BlocksFrom(g)' \cup {FirstNak} \cup Stale)
      BY <1>1, <1>6, <3>1, Weaken
    <3> QED
      BY <1>1, <1>6, <3>2, EachAppend
  <2>2. ASSUME NEW l \in 1..(sent + 1), NEW k \in 1..(sent + 1), k < l
        PROVE  Follows(s, {BlockK(l)}, Frame \ {BlockK(k)})
    <3>1. CASE l = sent + 1
      <4>1. BlockK(l) = x
        BY <1>4, <3>1
      <4>2. Follows(to_card, {x}, Frame \ {BlockK(k)})
        BY <1>1, <1>8, NoneOf
      <4> QED
        BY <1>1, <1>8, <4>1, <4>2, FollowsAppend
    <3>2. CASE l \in 1..sent
      <4>1. k \in 1..sent /\ k \in Nat /\ k # sent + 1
        BY <1>1, <2>2, <3>2
      <4>2. Follows(to_card, {BlockK(l)}, Frame \ {BlockK(k)})
        BY <1>1, <2>2, <3>2, <4>1 DEF ToCardOK
      <4>3. x \in Frame \ {BlockK(k)}
        BY <1>5, <4>1
      <4> QED
        BY <1>1, <4>2, <4>3, FollowsAppend
    <3> QED
      BY <1>1, <3>1, <3>2
  <2>3. blocks > 1 => \A k \in 1..(sent + 1) : k > g => Has(s, BlockK(k))
    <3> SUFFICES ASSUME blocks > 1, NEW k \in 1..(sent + 1), k > g PROVE Has(s, BlockK(k))
      OBVIOUS
    <3>1. CASE k = sent + 1
      BY <1>1, <1>4, <3>1, HasAppend
    <3>2. CASE k \in 1..sent
      <4>1. Has(to_card, BlockK(k))
        BY <1>1, <3>2 DEF ToCardOK
      <4> QED
        BY <1>1, <4>1, HasAppend
    <3> QED
      BY <1>1, <3>1, <3>2
  <2>4. ASSUME blocks % 2 = 0, NEW k \in 2..(sent + 1)
        PROVE  Follows(s, {BlockK(k)}, Frame \ {FirstNak})
    <3>1. CASE k = sent + 1
      <4>1. BlockK(k) = x
        BY <1>4, <3>1
      <4>2. Follows(to_card, {x}, Frame \ {FirstNak})
        BY <1>1, <1>8, NoneOf
      <4> QED
        BY <1>1, <1>8, <4>1, <4>2, FollowsAppend
    <3>2. CASE k \in 2..sent
      <4>1. Follows(to_card, {BlockK(k)}, Frame \ {FirstNak})
        BY <1>1, <2>4, <3>2 DEF ToCardOK
      <4>2. x \in Frame \ {FirstNak}
        BY <1>5
      <4> QED
        BY <1>1, <4>1, <4>2, FollowsAppend
    <3> QED
      BY <1>1, <3>1, <3>2
  <2>5. Heralded(s, Stale, BlockK(blocks))
    <3>1. Heralded(to_card, Stale, BlockK(blocks))
      BY <1>1, <1>7 DEF ToCardOK
    <3> QED
      BY <1>1, <1>5, <3>1, HeraldedAppend
  <2>6. blocks % 2 = 1 => Each(s, Frame \ Stale)
    <3>1. blocks % 2 = 1 => Each(to_card, Frame \ Stale)
      BY <1>1, <1>7 DEF ToCardOK
    <3> QED
      BY <1>1, <1>5, <3>1, EachAppend
  <2> HIDE DEF s
  <2>7. to_card' = s
    BY <1>4 DEF s
  <2>8. /\ \A l \in 1..sent' : \A k \in 1..sent' : k < l =>
              Follows(s, {BlockK(l)'}, Frame \ {BlockK(k)'})
        /\ blocks' > 1 => \A k \in 1..sent' : k > g => Has(s, BlockK(k)')
        /\ blocks' % 2 = 0 => \A k \in 2..sent' : Follows(s, {BlockK(k)'}, Frame \ {FirstNak'})
        /\ BlockK(blocks)' = BlockK(blocks)
    <3>1. sent' = sent + 1 /\ blocks' = blocks /\ blocks \in Nat
      BY <1>1, <1>2
    <3>2. \A k \in 1..sent' : k \in Nat /\ BlockK(k)' = BlockK(k)
      BY <1>1, <1>3, <3>1
    <3>3. \A k \in 2..sent' : k \in 1..sent'
      BY <1>1, <3>1
    <3>4. BlockK(blocks)' = BlockK(blocks)
      BY <1>2, <1>3, <3>1 DEF BlockK, BlockNo
    <3> QED
      BY <1>3, <2>2, <2>3, <2>4, <3>1, <3>2, <3>3, <3>4
  <2> QED
    BY <1>2, <1>3, <1>7, <2>1, <2>5, <2>6, <2>7, <2>8 DEF ToCardOK
<1>10. ToReaderOK(g)'
  <2>1. /\ Each(Tail(to_reader), OldAnswers(BlockNo(0)) \cup Acks(Bit))
        /\ Follows(Tail(to_reader), Acks({BlockNo(1)}), Acks(Bit))
    BY <1>1, EachTail, FollowsTail DEF ToReaderOK
  <2>2. Each(Tail(to_reader), Acks(Bit))
    <3>1. CASE sent = 1
      <4>1. Follows(to_reader, Acks({BlockNo(1)}), Acks(Bit)) /\ Head(to_reader) \in Acks({BlockNo(1)})
        BY <1>1, <1>2, <3>1 DEF ToReaderOK
      <4> QED
        BY <1>1, <4>1, FollowsTail
    <3>2. CASE sent >= 2
      BY <1>1, <3>2, EachTail DEF ToReaderOK
    <3> QED
      BY <1>1, <3>1, <3>2
  <2>3. to_card' # <<>>
    BY <1>1, <1>4, AppendProperties
  <2>4. BlockNo(0)' = BlockNo(0) /\ BlockNo(1)' = BlockNo(1)
    BY <1>3
  <2> QED
    BY <1>2, <1>7, <2>1, <2>2, <2>3, <2>4 DEF ToReaderOK, Quiet
<1>11. GatheredOK(g)'
  <2>1. BlockNo(0)' = BlockNo(0) /\ BlockNo(g + 1)' = BlockNo(g + 1) /\ sent + 1 \in 1..blocks
    BY <1>1, <1>2, <1>3
  <2>2. g <= sent + 1
    BY <1>1
  <2> QED
    BY <1>1, <1>2, <2>1, <2>2 DEF GatheredOK, session
<1>12. ReaderTypeOK'
  <2>1. to_card' \in Seq(Frame) /\ to_reader' \in Seq(Frame) /\ 1 - reader_block \in Bit /\ sent + 1 \in Nat
    BY <1>1, <1>2, <1>4, AppendProperties, Head1, Bits
  <2> QED
    BY <1>2, <2>1 DEF Common, ReaderTypeOK
<1>13. Common'
  BY <1>1, <1>2, <1>12, ReaderStep
<1>14. UNCHANGED Service!vars
  BY <1>2 DEF Service!vars, pendingBar, responseBar, Outstanding, card, engine
<1>15. Len(command)' = g /\ mode' = "sending"
  BY <1>0, <1>a, <1>2 DEF session
<1> QED
  BY <1>9, <1>10, <1>11, <1>13, <1>14, <1>15 DEF SendingPhase

\* Between commands the reader discards what it hears.
LEMMA IdleReader ==
  ASSUME Common, IdlePhase, ReaderReceives
  PROVE  Common' /\ IdlePhase' /\ UNCHANGED Service!vars
<1>1. /\ mode = "idle" /\ to_reader # <<>> /\ to_reader' = Tail(to_reader)
      /\ to_card' = to_card /\ UNCHANGED <<card, reader, ran>> /\ results' = results
      /\ UNCHANGED session
  BY DEF IdlePhase, ReaderReceives, TakeChunk, TakeLastChunk, IsResponse, ExpectsResponse,
     SendNextBlock, IsNextAck, RepeatBlock, IsRepeatAck, IsAck, EndSession, IsFarewell,
     RejectFrame, DiscardFrame, card
<1>2. to_card \in Seq(Frame) /\ to_reader \in Seq(Frame)
  BY DEF Common, ReaderTypeOK
<1>3. /\ to_reader' \in Seq(Frame)
      /\ \A S : Each(to_reader, S) => Each(to_reader', S)
  BY <1>1, <1>2, QueueShrinks
<1>4. Common' /\ UNCHANGED Service!vars
  BY <1>1, <1>2, <1>3, FramesMove
<1>5. last_response_valid
  BY <1>1 DEF IdlePhase
<1>6. IdlePhase'
  BY <1>1, <1>3, <1>5 DEF IdlePhase, reader, session
<1> QED
  BY <1>4, <1>6

\* A reader that deselects the card waits for its goodbye and repeats its own.
LEMMA DeselectReader ==
  ASSUME Common, DeselectPhase, ReaderReceives
  PROVE  Common' /\ (IdlePhase' \/ DeselectPhase') /\ UNCHANGED Service!vars
<1>1. /\ mode = "deselecting" /\ to_reader # <<>> /\ UNCHANGED <<card, faults, ran>>
      /\ to_card \in Seq(Frame) /\ to_reader \in Seq(Frame)
  BY DEF DeselectPhase, ReaderReceives, Common, ReaderTypeOK
<1>2. EndSession(Head(to_reader)) \/ RejectFrame(Head(to_reader))
  BY <1>1 DEF ReaderReceives, TakeChunk, TakeLastChunk, IsResponse, ExpectsResponse,
     SendNextBlock, IsNextAck, RepeatBlock, IsRepeatAck, IsAck, DiscardFrame
<1>3. CASE RejectFrame(Head(to_reader))
  <2>1. AskAgain
    BY <1>1, <1>3 DEF RejectFrame, AskAgain
  <2> QED
    BY <2>1, AskAgainDeselect
<1>4. CASE EndSession(Head(to_reader))
  <2>1. /\ Head(to_reader).kind = "S" /\ mode' = "idle" /\ reader_block' = 0
        /\ to_card' = <<>> /\ to_reader' = <<>> /\ UNCHANGED session /\ UNCHANGED engine
        /\ UNCHANGED <<reader_cid, serial, blocks, sent, received>> /\ results' = results
    BY <1>1, <1>4 DEF EndSession, IsFarewell, card
  <2>2. ~last_response_valid
    <3>1. last_response_valid => Head(to_reader) \in NoFarewell
      BY <1>1, EachTail DEF DeselectPhase
    <3> QED
      BY <2>1, <3>1 DEF NoFarewell
  <2>3. /\ picc_block = 1 /\ expected_pcd_block = 0 /\ response_offset = 0 /\ command = <<>>
        /\ 1 = 1 - 0
    BY <2>2 DEF DeselectPhase, Common, SessionOK
  <2>4. <<>> \in Seq(Frame) /\ \A S : Each(<<>>, S)
    BY EmptySeq, EmptyQueue
  <2>5. IdlePhase'
    BY <2>1, <2>3, <2>4 DEF IdlePhase, session
  <2>6. ReaderTypeOK'
    BY <1>1, <2>1, <2>4 DEF Common, ReaderTypeOK, Mode, Bit
  <2>7. serial <= serial'
    BY <2>1, LinkAssumption DEF Common, ReaderTypeOK
  <2>8. Common'
    BY <1>1, <2>1, <2>6, <2>7, ReaderStep
  <2>9. UNCHANGED Service!vars
    BY <1>1, <2>1 DEF Service!vars, pendingBar, responseBar, Outstanding
  <2> QED
    BY <2>5, <2>8, <2>9
<1> QED
  BY <1>2, <1>3, <1>4

\* While a command is sent, no frame the reader hears is a response to it.
LEMMA SendingReader ==
  ASSUME Common, SendingPhase, ReaderReceives
  PROVE  Common' /\ SendingPhase' /\ UNCHANGED Service!vars
<1>1. /\ mode = "sending" /\ to_reader # <<>> /\ UNCHANGED <<card, faults, ran>>
      /\ to_card \in Seq(Frame) /\ to_reader \in Seq(Frame)
      /\ GatheredOK(Len(command)) /\ ToReaderOK(Len(command))
  BY DEF SendingPhase, ReaderReceives, Common, ReaderTypeOK
<1>2. PICK m \in Frame : m = Head(to_reader)
  BY <1>1, Head1
<1>3. m \in OldAnswers(BlockNo(0)) \cup Acks(Bit) /\ (sent >= 2 => m \in Acks(Bit))
  BY <1>1, <1>2, EachTail DEF ToReaderOK
<1>4. /\ sent \in Nat \ {0} /\ sent <= blocks /\ blocks \in Nat \ {0}
      /\ reader_block = BlockNo(sent) /\ BlockNo(0) # BlockNo(1)
  BY <1>1, SendingFacts
<1>5. ~IsResponse(m)
  <2>1. sent = 1 \/ sent >= 2
    BY <1>4
  <2> QED
    BY <1>3, <1>4, <2>1 DEF IsResponse, OldAnswers, Acks
<1>6. \/ SendNextBlock(m) \/ RepeatBlock(m) \/ RejectFrame(m)
  BY <1>1, <1>2, <1>5 DEF ReaderReceives, TakeChunk, TakeLastChunk, EndSession, IsFarewell, DiscardFrame
<1>7. CASE SendNextBlock(m)
  BY <1>1, <1>2, <1>7, SendNextBlockSending
<1>8. CASE RepeatBlock(m)
  BY <1>1, <1>2, <1>8, RepeatBlockSending DEF RepeatBlock
<1>9. CASE RejectFrame(m)
  <2>1. AskAgain
    BY <1>1, <1>2, <1>9 DEF RejectFrame, AskAgain
  <2>2. sent = 1 \/ sent = blocks
    <3> SUFFICES ASSUME sent # 1, sent # blocks PROVE FALSE
      OBVIOUS
    <3>1. m \in Acks(Bit) /\ sent < blocks
      BY <1>3, <1>4
    <3> QED
      BY <1>1, <1>9, <3>1 DEF RejectFrame, IsNextAck, IsRepeatAck, IsAck, Acks
  <2> QED
    BY <2>1, <2>2, AskAgainSending
<1> QED
  BY <1>6, <1>7, <1>8, <1>9

\* Once the card has answered, the response to the command is the frame it keeps, and
\* the reader may read anything else before it.
LEMMA AnsweredFrames ==
  ASSUME Common, AnsweredPhase
  PROVE  /\ to_card \in Seq(Frame) /\ to_reader \in Seq(Frame)
         /\ reader_block \in Bit /\ 1 - reader_block \in Bit /\ 1 - reader_block # reader_block
         /\ 1 - (1 - reader_block) = reader_block
         /\ last_frame \in Frame /\ last_frame.kind = "I" /\ last_frame.bn = reader_block
         /\ last_frame.cid = reader_cid
         /\ \A m \in OldAnswers(1 - reader_block) \cup Acks(Bit) \cup {last_frame} :
              IsResponse(m) => m = last_frame
<1>1. /\ to_card \in Seq(Frame) /\ to_reader \in Seq(Frame) /\ last_frame \in Frame
      /\ last_frame.kind = "I" /\ last_frame.bn = picc_block /\ last_frame.cid = reader_cid
      /\ picc_block = reader_block /\ reader_block \in Bit
  BY DEF Common, CardTypeOK, ReaderTypeOK, SessionOK, AnsweredPhase
<1>2. 1 - reader_block \in Bit /\ 1 - reader_block # reader_block /\ 1 - (1 - reader_block) = reader_block
  BY <1>1, Bits
<1>3. \A m \in OldAnswers(1 - reader_block) \cup Acks(Bit) \cup {last_frame} :
        IsResponse(m) => m = last_frame
  BY <1>2 DEF OldAnswers, Acks, IsResponse
<1> QED
  BY <1>1, <1>2, <1>3

\* The reader takes a chunk that is not the last, and asks for the next with a number
\* no frame on its way has.
LEMMA TakeChunkAnswered ==
  ASSUME Common, AnsweredPhase, to_reader # <<>>, TakeChunk(Head(to_reader)), UNCHANGED <<card, ran>>
  PROVE  Common' /\ FetchingPhase' /\ UNCHANGED Service!vars
<1> DEFINE A == Ack(1 - reader_block, reader_cid)
           O == OldFrames(reader_block, serial, reader_cid)
<1>1. /\ to_card \in Seq(Frame) /\ to_reader \in Seq(Frame)
      /\ reader_block \in Bit /\ 1 - reader_block \in Bit /\ 1 - reader_block # reader_block
      /\ 1 - (1 - reader_block) = reader_block
      /\ last_frame \in Frame /\ last_frame.kind = "I" /\ last_frame.bn = reader_block
  BY AnsweredFrames
<1>2. Head(to_reader) = last_frame
  <2>1. Head(to_reader) \in OldAnswers(1 - reader_block) \cup Acks(Bit) \cup {last_frame}
    BY <1>1, EachTail DEF AnsweredPhase
  <2> QED
    BY <2>1, AnsweredFrames DEF TakeChunk
<1>3. /\ last_frame.flag /\ received' = received \o last_frame.data
      /\ reader_block' = 1 - reader_block /\ mode' = "receiving"
      /\ to_card' = Append(to_card, A) /\ to_reader' = Tail(to_reader)
      /\ UNCHANGED <<reader_cid, serial, blocks, sent, results>>
      /\ UNCHANGED session /\ UNCHANGED engine
  BY <1>2 DEF TakeChunk, card
<1>4. A \in Frame /\ A.bn = 1 - reader_block
  <2>1. A \in Frame
    BY <1>1, ControlBlocks DEF Common, ReaderTypeOK
  <2> QED
    BY <2>1 DEF Ack, Block
<1>5. response_offset # 0 /\ received' = SubSeq(tx_buffer.data, 1, response_offset)
  BY <1>3 DEF AnsweredPhase, KeptEnd
<1>6. Each(to_card, O) /\ O \subseteq Frame \ {A}
  BY <1>1, <1>4 DEF AnsweredPhase, OldFrames
<1>7. Each(Tail(to_reader), OldAnswers(reader_block))
  <2>1. Each(Tail(to_reader), {last_frame})
    BY <1>1, <1>2, FollowsTail DEF AnsweredPhase
  <2>2. {last_frame} \subseteq OldAnswers(reader_block)
    BY <1>1 DEF OldAnswers
  <2>3. Tail(to_reader) \in Seq(Frame)
    BY <1>1, Head1
  <2> QED
    BY <2>1, <2>2, <2>3, Weaken
<1> HIDE DEF A, O
<1>8. Each(Append(to_card, A), O \cup {A}) /\ Follows(Append(to_card, A), {A}, {A})
  <2>1. Each(to_card, Frame \ {A}) /\ Each(to_card, O \cup {A})
    BY <1>1, <1>6, Weaken
  <2>2. Follows(to_card, {A}, {A})
    BY <1>1, <2>1, NoneOf
  <2> QED
    BY <1>1, <1>4, <2>1, <2>2, EachAppend, FollowsAppend
<1>9. EngineAnswered' /\ ran' = ran
  BY <1>3 DEF AnsweredPhase, EngineAnswered, engine
<1>10. A = Ack(reader_block', reader_cid') /\ O = OldFrames(1 - reader_block', serial', reader_cid')
  BY <1>1, <1>3 DEF A, O
<1>11. FetchingPhase'
  <2>1. /\ Each(to_card', OldFrames(1 - reader_block', serial', reader_cid') \cup {Ack(reader_block', reader_cid')})
        /\ Follows(to_card', {Ack(reader_block', reader_cid')}, {Ack(reader_block', reader_cid')})
    BY <1>3, <1>8, <1>10
  <2>2. /\ last_response_valid' /\ command' = <<>> /\ sent' = blocks'
        /\ picc_block' = 1 - reader_block' /\ expected_pcd_block' = reader_block'
        /\ response_offset' # 0 /\ response_offset' < Len(tx_buffer'.data)
        /\ received' = SubSeq(tx_buffer'.data, 1, response_offset')
    BY <1>1, <1>3, <1>5 DEF AnsweredPhase, session, engine
  <2>3. Each(to_reader', OldAnswers(1 - reader_block'))
    BY <1>1, <1>3, <1>7
  <2> QED
    BY <1>3, <1>9, <2>1, <2>2, <2>3 DEF FetchingPhase
<1>12. ReaderTypeOK'
  <2>1. received \o last_frame.data \in Seq(Octet)
    BY <1>1, ConcatProperties DEF Common, ReaderTypeOK, Frame
  <2>2. to_card' \in Seq(Frame) /\ to_reader' \in Seq(Frame)
    BY <1>1, <1>3, <1>4, AppendProperties, Head1
  <2> QED
    BY <1>1, <1>3, <1>9, <2>1, <2>2 DEF Common, ReaderTypeOK, Mode
<1>13. Common'
  <2>1. serial <= serial'
    BY <1>3, LinkAssumption DEF Common, ReaderTypeOK
  <2> QED
    BY <1>3, <1>9, <1>12, <2>1, ReaderStep
<1>14. UNCHANGED Service!vars
  <2>1. Outstanding /\ Outstanding'
    BY <1>3 DEF AnsweredPhase, Outstanding
  <2> QED
    BY <1>3, <1>9, <2>1 DEF Service!vars, pendingBar, responseBar, engine
<1> QED
  BY <1>11, <1>13, <1>14

\* The reader takes the last chunk: what it returns is what the engine wrote.
LEMMA TakeLastChunkAnswered ==
  ASSUME Common, AnsweredPhase, to_reader # <<>>, TakeLastChunk(Head(to_reader)), UNCHANGED <<card, ran>>
  PROVE  Common' /\ IdlePhase' /\ Service!Return
         /\ results' = Append(results, <<CommandOf(serial, blocks), <<tx_buffer.data>>>>)
<1> DEFINE O == OldFrames(reader_block, serial, reader_cid)
<1>1. /\ to_card \in Seq(Frame) /\ to_reader \in Seq(Frame)
      /\ reader_block \in Bit /\ 1 - reader_block \in Bit /\ 1 - reader_block # reader_block
      /\ 1 - (1 - reader_block) = reader_block
      /\ last_frame \in Frame /\ last_frame.kind = "I" /\ last_frame.bn = reader_block
  BY AnsweredFrames
<1>2. Head(to_reader) = last_frame
  <2>1. Head(to_reader) \in OldAnswers(1 - reader_block) \cup Acks(Bit) \cup {last_frame}
    BY <1>1, EachTail DEF AnsweredPhase
  <2> QED
    BY <2>1, AnsweredFrames DEF TakeLastChunk
<1>3. /\ ~last_frame.flag
      /\ results' = Append(results, <<CommandOf(serial, blocks), <<received \o last_frame.data>>>>)
      /\ received' = <<>> /\ reader_block' = 1 - reader_block /\ mode' = "idle"
      /\ to_reader' = Tail(to_reader)
      /\ UNCHANGED <<reader_cid, serial, blocks, sent, to_card>>
      /\ UNCHANGED session /\ UNCHANGED engine
  BY <1>2 DEF TakeLastChunk, card
<1>4. response_offset = 0 /\ received \o last_frame.data = tx_buffer.data
  <2>1. tx_buffer.data \in Seq(Octet)
    BY DEF Common, CardTypeOK, TxBuffer
  <2>2. response_offset = 0 /\ received \o last_frame.data = SubSeq(tx_buffer.data, 1, Len(tx_buffer.data))
    BY <1>3 DEF AnsweredPhase, KeptEnd
  <2>3. SubSeq(tx_buffer.data, 1, Len(tx_buffer.data)) = tx_buffer.data
    BY <2>1, SubSeqFull
  <2> QED
    BY <2>2, <2>3
<1>5. Each(to_card, O)
  BY DEF AnsweredPhase
<1>6. Each(Tail(to_reader), OldAnswers(reader_block)) /\ Tail(to_reader) \in Seq(Frame)
  <2>1. Each(Tail(to_reader), {last_frame})
    BY <1>1, <1>2, FollowsTail DEF AnsweredPhase
  <2>2. {last_frame} \subseteq OldAnswers(reader_block)
    BY <1>1 DEF OldAnswers
  <2>3. Tail(to_reader) \in Seq(Frame)
    BY <1>1, Head1
  <2> QED
    BY <2>1, <2>2, <2>3, Weaken
<1>7. IdlePhase'
  <2>1. Each(to_card', OldFrames(1 - reader_block', serial', reader_cid'))
    BY <1>1, <1>3, <1>5
  <2>2. Each(to_reader', OldAnswers(1 - reader_block'))
    BY <1>1, <1>3, <1>6
  <2>3. /\ last_response_valid' /\ command' = <<>> /\ response_offset' = 0
        /\ picc_block' = 1 - reader_block' /\ expected_pcd_block' = reader_block'
    BY <1>1, <1>3, <1>4 DEF AnsweredPhase, session
  <2> QED
    BY <1>3, <2>1, <2>2, <2>3 DEF IdlePhase
<1>8. Common'
  <2>1. ReaderTypeOK'
    BY <1>1, <1>3, <1>6, EmptySeq DEF Common, ReaderTypeOK, Mode
  <2>2. serial <= serial'
    BY <1>3, LinkAssumption DEF Common, ReaderTypeOK
  <2> QED
    BY <1>3, <2>1, <2>2, ReaderStep
<1>9. Service!Return
  <2>1. /\ pendingBar = CommandOf(serial, blocks)
        /\ responseBar = <<tx_buffer.data>> /\ responseBar # <<>>
    BY RunAlready DEF AnsweredPhase
  <2>2. pendingBar' = <<>> /\ responseBar' = <<>>
    BY <1>3 DEF pendingBar, responseBar, Outstanding
  <2>3. results' = Append(results, <<pendingBar, responseBar>>)
    BY <1>3, <1>4, <2>1
  <2> QED
    BY <2>1, <2>2, <2>3 DEF Service!Return
<1> QED
  BY <1>3, <1>4, <1>7, <1>8, <1>9

\* An R(ACK) that comes late, to a reader whose last block the card has answered: the
\* reader sends that block again, and the card will repeat its answer.
LEMMA RepeatBlockAnswered ==
  ASSUME Common, AnsweredPhase, to_reader # <<>>, mode = "sending",
         to_card' = Append(to_card, IBlock(sent)), to_reader' = Tail(to_reader),
         UNCHANGED <<card, reader, ran>>, results' = results
  PROVE  Common' /\ AnsweredPhase' /\ UNCHANGED Service!vars
<1> DEFINE x == IBlock(sent)
           O == OldFrames(reader_block, serial, reader_cid)
<1>1. to_card \in Seq(Frame) /\ to_reader \in Seq(Frame) /\ reader_block \in Bit
  BY AnsweredFrames
<1>2. x \in O /\ x \in Frame
  <2>1. /\ serial \in Nat /\ sent \in Nat /\ (sent < blocks) \in BOOLEAN
        /\ reader_cid \in Cids \cup {NoCid}
    BY LinkAssumption DEF Common, ReaderTypeOK
  <2>2. <<<<serial, sent>>>> \in Seq(Octet) /\ "I" \in FrameKind
    BY <2>1 DEF Octet, FrameKind
  <2>3. x \in Frame
    BY <1>1, <2>1, <2>2, BlockIsFrame DEF IBlock
  <2>4. x.kind = "I" /\ x.bn = reader_block /\ x.cid = reader_cid /\ x.data = <<<<serial, sent>>>>
    BY DEF IBlock, Block
  <2>5. x.data # <<>> /\ x.data[1][1] = serial /\ serial <= serial
    BY <2>1, <2>4
  <2> QED
    BY <2>3, <2>4, <2>5 DEF OldFrames
<1> HIDE DEF x, O
<1>3. /\ Each(Append(to_card, x), O) /\ Append(to_card, x) \in Seq(Frame)
  BY <1>1, <1>2, EachAppend, AppendProperties DEF AnsweredPhase, O
<1>4. /\ to_reader' \in Seq(Frame)
      /\ \A S : Each(to_reader, S) => Each(to_reader', S)
      /\ \A A, B : Follows(to_reader, A, B) => Follows(to_reader', A, B)
  BY <1>1, QueueShrinks
<1>5. to_card' = Append(to_card, x) /\ UNCHANGED session /\ UNCHANGED engine
  BY DEF x, card
<1>6. Common' /\ UNCHANGED Service!vars
  BY <1>3, <1>4, <1>5, FramesMove
<1>7. Outstanding' /\ EngineAnswered'
  BY <1>5 DEF AnsweredPhase, Outstanding, EngineAnswered, reader, engine
<1>8. /\ Each(to_reader', OldAnswers(1 - reader_block) \cup Acks(Bit) \cup {last_frame})
      /\ Follows(to_reader', {last_frame}, {last_frame})
  BY <1>4 DEF AnsweredPhase
<1>9. AnsweredPhase'
  BY <1>3, <1>5, <1>7, <1>8 DEF AnsweredPhase, reader, session, engine, O
<1> QED
  BY <1>6, <1>9

\* Once the card has answered, the reader takes the frame the card keeps as the next
\* chunk or the last one, and asks again for everything else.
LEMMA AnsweredReader ==
  ASSUME Common, AnsweredPhase, ReaderReceives
  PROVE  Common' /\ (AnsweredPhase' \/ FetchingPhase' \/ IdlePhase') /\ [Service!Next]_(Service!vars)
<1>1. /\ to_reader # <<>> /\ UNCHANGED <<card, ran>> /\ sent = blocks
      /\ mode \in {"sending", "receiving"} /\ blocks \in Nat
  BY DEF ReaderReceives, AnsweredPhase, Outstanding, Common, ReaderTypeOK
<1> DEFINE m == Head(to_reader)
<1>2. TakeChunk(m) \/ TakeLastChunk(m) \/ RepeatBlock(m) \/ RejectFrame(m)
  BY <1>1 DEF ReaderReceives, SendNextBlock, IsNextAck, EndSession, IsFarewell, DiscardFrame
<1>3. CASE TakeChunk(m)
  BY <1>1, <1>3, TakeChunkAnswered
<1>4. CASE TakeLastChunk(m)
  BY <1>1, <1>4, TakeLastChunkAnswered DEF Service!Next
<1>5. CASE RepeatBlock(m)
  BY <1>1, <1>5, RepeatBlockAnswered DEF RepeatBlock, IsRepeatAck, IsAck
<1>6. CASE RejectFrame(m)
  <2>1. AskAgain
    BY <1>1, <1>6 DEF RejectFrame, AskAgain
  <2> QED
    BY <2>1, AskAgainAnswered
<1> QED
  BY <1>2, <1>3, <1>4, <1>5, <1>6

\* Before its R(ACK) is answered, what the reader hears is the chunk it has.
LEMMA FetchingReader ==
  ASSUME Common, FetchingPhase, ReaderReceives
  PROVE  Common' /\ FetchingPhase' /\ UNCHANGED Service!vars
<1>1. /\ to_reader # <<>> /\ UNCHANGED <<card, ran>> /\ mode = "receiving"
      /\ to_reader \in Seq(Frame) /\ reader_block \in Bit
  BY DEF ReaderReceives, FetchingPhase, Common, ReaderTypeOK
<1> DEFINE m == Head(to_reader)
<1>2. m \in OldAnswers(1 - reader_block)
  BY <1>1, EachTail DEF FetchingPhase
<1>3. ~IsResponse(m)
  BY <1>1, <1>2, Bits DEF IsResponse, OldAnswers
<1>4. RejectFrame(m)
  BY <1>1, <1>3 DEF ReaderReceives, TakeChunk, TakeLastChunk, SendNextBlock, IsNextAck,
     RepeatBlock, IsRepeatAck, IsAck, EndSession, IsFarewell, DiscardFrame
<1>5. AskAgain
  BY <1>1, <1>4 DEF RejectFrame, AskAgain
<1> QED
  BY <1>5, AskAgainFetching

\* Whatever the reader hears, the invariant holds on, and the service takes a step or none.
LEMMA ReaderKeepsLinkInv ==
  ASSUME LinkInv, ReaderReceives
  PROVE  LinkInv' /\ [Service!Next]_(Service!vars)
<1>1. Common
  BY DEF LinkInv
<1>2. CASE IdlePhase
  BY <1>1, <1>2, IdleReader DEF LinkInv
<1>3. CASE DeselectPhase
  BY <1>1, <1>3, DeselectReader DEF LinkInv
<1>4. CASE SendingPhase
  BY <1>1, <1>4, SendingReader DEF LinkInv
<1>5. CASE AnsweredPhase
  BY <1>1, <1>5, AnsweredReader DEF LinkInv
<1>6. CASE FetchingPhase
  BY <1>1, <1>6, FetchingReader DEF LinkInv
<1> QED
  BY <1>2, <1>3, <1>4, <1>5, <1>6 DEF LinkInv

\* When the waiting time runs out the reader asks again.  While it sends a chain it
\* never does: a block or an acknowledgement is always on its way.
LEMMA TimeOutKeepsLinkInv ==
  ASSUME LinkInv, TimeOut
  PROVE  LinkInv' /\ UNCHANGED Service!vars
<1>1. Common /\ AskAgain /\ mode # "idle" /\ Quiet
  BY DEF LinkInv, TimeOut, AskAgain
<1>2. CASE IdlePhase
  BY <1>1, <1>2 DEF IdlePhase
<1>3. CASE DeselectPhase
  BY <1>1, <1>3, AskAgainDeselect DEF LinkInv
<1>4. CASE SendingPhase
  <2>1. sent \in Nat \ {0} /\ ~(sent >= 2)
    BY <1>1, <1>4, SendingFacts DEF SendingPhase, ToReaderOK
  <2>2. sent = 1
    BY <2>1
  <2> QED
    BY <1>1, <1>4, <2>2, AskAgainSending DEF LinkInv
<1>5. CASE AnsweredPhase
  BY <1>1, <1>5, AskAgainAnswered DEF LinkInv
<1>6. CASE FetchingPhase
  BY <1>1, <1>6, AskAgainFetching DEF LinkInv
<1> QED
  BY <1>2, <1>3, <1>4, <1>5, <1>6 DEF LinkInv

\* A time-out that comes too early, which befalls commands of one block only.
LEMMA LateAnswerKeepsLinkInv ==
  ASSUME LinkWithinLimits, LinkInv, LateAnswer
  PROVE  LinkInv' /\ UNCHANGED Service!vars
<1>1. Common /\ AskAgain /\ mode # "idle" /\ mode # "deselecting" /\ blocks <= LossyBlocks
  BY DEF LinkInv, LateAnswer, Fault, AskAgain
<1>2. CASE IdlePhase \/ DeselectPhase
  BY <1>1, <1>2 DEF IdlePhase, DeselectPhase
<1>4. CASE SendingPhase
  <2>1. sent \in Nat \ {0} /\ sent <= blocks /\ blocks \in Nat
    BY <1>1, <1>4, SendingFacts DEF SendingPhase
  <2>2. sent = 1
    BY <1>1, <2>1, LinkAssumption DEF LinkWithinLimits
  <2> QED
    BY <1>1, <1>4, <2>2, AskAgainSending DEF LinkInv
<1>5. CASE AnsweredPhase
  BY <1>1, <1>5, AskAgainAnswered DEF LinkInv
<1>6. CASE FetchingPhase
  BY <1>1, <1>6, AskAgainFetching DEF LinkInv
<1> QED
  BY <1>2, <1>4, <1>5, <1>6 DEF LinkInv

\* A lost frame leaves queues that are as orderly as before, of a command of one block.
LEMMA LossKeepsLinkInv ==
  ASSUME LinkWithinLimits, LinkInv, LoseFrame
  PROVE  LinkInv' /\ UNCHANGED Service!vars
<1>1. /\ Common /\ blocks <= 1 /\ UNCHANGED <<card, reader, ran>> /\ results' = results
      /\ to_card' = to_card \/ (to_card # <<>> /\ to_card' = Tail(to_card))
      /\ to_reader' = to_reader \/ (to_reader # <<>> /\ to_reader' = Tail(to_reader))
      /\ to_card # <<>> \/ to_reader # <<>>
      /\ to_card \in Seq(Frame) /\ to_reader \in Seq(Frame) /\ blocks \in Nat
      /\ UNCHANGED session /\ UNCHANGED engine
  BY LinkAssumption DEF LinkInv, LoseFrame, Fault, LinkWithinLimits, Common, ReaderTypeOK, card
<1>2. /\ to_card' \in Seq(Frame)
      /\ \A S : Each(to_card, S) => Each(to_card', S)
      /\ \A A, B : Follows(to_card, A, B) => Follows(to_card', A, B)
  BY <1>1, QueueShrinks
<1>3. /\ to_reader' \in Seq(Frame)
      /\ \A S : Each(to_reader, S) => Each(to_reader', S)
      /\ \A A, B : Follows(to_reader, A, B) => Follows(to_reader', A, B)
  BY <1>1, QueueShrinks
<1>4. Common' /\ UNCHANGED Service!vars
  BY <1>1, <1>2, <1>3, FramesMove
<1>5. ASSUME IdlePhase PROVE IdlePhase'
  <2>1. /\ mode = "idle" /\ picc_block = 1 - reader_block /\ expected_pcd_block = reader_block
        /\ response_offset = 0 /\ command = <<>> /\ last_response_valid
    BY <1>1, <1>5 DEF IdlePhase
  <2>2. /\ Each(to_card', OldFrames(1 - reader_block, serial, reader_cid))
        /\ Each(to_reader', OldAnswers(1 - reader_block))
    BY <1>2, <1>3, <1>5 DEF IdlePhase
  <2> QED
    BY <1>1, <2>1, <2>2 DEF IdlePhase, reader, session
<1>6. ASSUME DeselectPhase PROVE DeselectPhase'
  BY <1>1, <1>2, <1>3, <1>6 DEF DeselectPhase, reader, session
<1>7. ASSUME AnsweredPhase PROVE AnsweredPhase'
  <2>1. Outstanding' /\ EngineAnswered'
    BY <1>1, <1>7 DEF AnsweredPhase, Outstanding, EngineAnswered, reader, engine
  <2>2. /\ Each(to_card', OldFrames(reader_block, serial, reader_cid))
        /\ Each(to_reader', OldAnswers(1 - reader_block) \cup Acks(Bit) \cup {last_frame})
        /\ Follows(to_reader', {last_frame}, {last_frame})
    BY <1>2, <1>3, <1>7 DEF AnsweredPhase
  <2> QED
    BY <1>1, <1>7, <2>1, <2>2 DEF AnsweredPhase, reader, session, engine
<1>8. ASSUME FetchingPhase PROVE FetchingPhase'
  <2>1. EngineAnswered'
    BY <1>1, <1>8 DEF FetchingPhase, EngineAnswered, reader, engine
  <2>2. /\ Each(to_card', OldFrames(1 - reader_block, serial, reader_cid) \cup {Ack(reader_block, reader_cid)})
        /\ Follows(to_card', {Ack(reader_block, reader_cid)}, {Ack(reader_block, reader_cid)})
        /\ Each(to_reader', OldAnswers(1 - reader_block))
    BY <1>2, <1>3, <1>8 DEF FetchingPhase
  <2> QED
    BY <1>1, <1>8, <2>1, <2>2 DEF FetchingPhase, reader, session, engine
<1>9. ASSUME SendingPhase PROVE SendingPhase'
  <2>0. /\ GatheredOK(Len(command)) /\ ToCardOK(Len(command)) /\ ToReaderOK(Len(command))
        /\ mode = "sending"
    BY <1>9 DEF SendingPhase
  <2>a. PICK g \in Nat : g = Len(command)
    BY <1>1, <2>0, SendingFacts
  <2>1. GatheredOK(g) /\ ToCardOK(g) /\ ToReaderOK(g)
    BY <2>0, <2>a
  <2>2. g = 0 /\ ~(sent >= 2) /\ ~(blocks > 1)
    BY <1>1, <2>1 DEF GatheredOK
  <2>3. ToCardOK(g)'
    <3>1. Each(to_card', BlocksFrom(g) \cup {FirstNak} \cup Stale)
      BY <1>2, <2>1 DEF ToCardOK
    <3>2. \A l \in 1..sent : \A k \in 1..sent : k < l =>
            Follows(to_card', {BlockK(l)}, Frame \ {BlockK(k)})
      BY <1>2, <2>1 DEF ToCardOK
    <3>3. blocks % 2 = 0 => \A k \in 2..sent : Follows(to_card', {BlockK(k)}, Frame \ {FirstNak})
      BY <1>2, <2>1 DEF ToCardOK
    <3>4. /\ Follows(to_card', {BlockK(1)}, Frame \ Stale)
          /\ last_response_valid \/ Each(to_card', Frame \ Stale)
      BY <1>2, <2>1, <2>2 DEF ToCardOK
    <3> QED
      BY <1>1, <2>2, <3>1, <3>2, <3>3, <3>4, SameReader DEF ToCardOK, reader, session
  <2>4. ToReaderOK(g)'
    BY <1>1, <2>1, <2>2, ToReaderShrinks
  <2>5. GatheredOK(g)'
    BY <1>1, <2>1, SameReader DEF GatheredOK, session, reader
  <2>6. Len(command)' = g /\ mode' = "sending"
    BY <1>1, <2>0, <2>a DEF session, reader
  <2> QED
    BY <2>3, <2>4, <2>5, <2>6 DEF SendingPhase
<1> QED
  BY <1>4, <1>5, <1>6, <1>7, <1>8, <1>9 DEF LinkInv

\* A reader between commands says goodbye.
LEMMA StartDeselectKeepsLinkInv ==
  ASSUME LinkInv, StartDeselect
  PROVE  LinkInv' /\ UNCHANGED Service!vars
<1> DEFINE S == Farewells(reader_cid)
           O == OldFrames(1 - reader_block, serial, reader_cid)
           x == Block("S", 0, FALSE, reader_cid, <<>>)
<1>1. /\ Common /\ mode = "idle" /\ mode' = "deselecting" /\ to_card' = Append(to_card, x)
      /\ UNCHANGED <<card, reader_block, reader_cid, serial, blocks, sent, received, to_reader, ran, results>>
      /\ UNCHANGED session /\ UNCHANGED engine
      /\ to_card \in Seq(Frame) /\ to_reader \in Seq(Frame)
      /\ reader_block \in Bit /\ reader_cid \in Cids \cup {NoCid}
  BY DEF LinkInv, StartDeselect, Common, ReaderTypeOK, card
<1>2. IdlePhase
  BY <1>1 DEF LinkInv, DeselectPhase, SendingPhase, AnsweredPhase, Outstanding, FetchingPhase
<1>3. x \in S /\ x \in Frame
  <2>1. "S" \in FrameKind /\ 0 \in Bit /\ FALSE \in BOOLEAN /\ <<>> \in Seq(Octet)
    BY EmptySeq DEF FrameKind, Bit
  <2>2. x \in Frame
    BY <1>1, <2>1, BlockIsFrame
  <2> QED
    BY <2>2 DEF Farewells, Block
<1>4. Each(to_card, Frame \ S) /\ Each(to_card, O)
  <2>1. Each(to_card, O)
    BY <1>2 DEF IdlePhase
  <2>2. O \subseteq Frame \ S
    BY DEF OldFrames, Farewells
  <2> QED
    BY <1>1, <2>1, <2>2, Weaken
<1>5. Each(to_reader, NoFarewell)
  <2>1. Each(to_reader, OldAnswers(1 - reader_block))
    BY <1>2 DEF IdlePhase
  <2>2. OldAnswers(1 - reader_block) \subseteq NoFarewell
    BY DEF OldAnswers, NoFarewell
  <2> QED
    BY <1>1, <2>1, <2>2, Weaken
<1>6. /\ Each(Append(to_card, x), O \cup S) /\ Follows(Append(to_card, x), S, S)
      /\ to_card = <<>> => Each(Append(to_card, x), S)
  <2> HIDE DEF S, O, x
  <2>1. Each(to_card, O \cup S)
    BY <1>1, <1>4, Weaken
  <2>2. Follows(to_card, S, S)
    BY <1>1, <1>4, NoneOf
  <2>3. to_card = <<>> => Each(to_card, S)
    BY <1>1, EmptyQueue
  <2> QED
    BY <1>1, <1>3, <2>1, <2>2, <2>3, EachAppend, FollowsAppend
<1>7. ~last_response_valid => expected_pcd_block = 0 /\ to_card = <<>>
  <2> SUFFICES ASSUME ~last_response_valid PROVE expected_pcd_block = 0 /\ to_card = <<>>
    OBVIOUS
  <2>1. picc_block = 1 /\ picc_block = 1 - reader_block /\ expected_pcd_block = reader_block /\ to_card = <<>>
    BY <1>2 DEF IdlePhase, LinkInv, Common, SessionOK
  <2>2. reader_block = 0
    BY <1>1, <2>1, Bits DEF Bit
  <2> QED
    BY <2>1, <2>2
<1>8. DeselectPhase'
  <2>1. /\ mode' = "deselecting" /\ response_offset' = 0 /\ command' = <<>>
        /\ last_response_valid' = last_response_valid
        /\ picc_block' = 1 - reader_block' /\ expected_pcd_block' = reader_block'
    BY <1>1, <1>2 DEF IdlePhase, session
  <2>2. last_response_valid =>
          /\ Each(to_card', OldFrames(1 - reader_block', serial', reader_cid') \cup Farewells(reader_cid'))
          /\ Each(to_reader', NoFarewell)
    BY <1>1, <1>5, <1>6
  <2>3. ~last_response_valid => expected_pcd_block' = 0 /\ Each(to_card', Farewells(reader_cid'))
    BY <1>1, <1>6, <1>7 DEF session
  <2>4. Follows(to_card', Farewells(reader_cid'), Farewells(reader_cid'))
    BY <1>1, <1>6
  <2> QED
    BY <2>1, <2>2, <2>3, <2>4 DEF DeselectPhase
<1>9. Common'
  <2>1. Append(to_card, x) \in Seq(Frame)
    BY <1>1, <1>3, AppendProperties
  <2>2. ReaderTypeOK'
    BY <1>1, <2>1 DEF Common, ReaderTypeOK, Mode
  <2>3. serial <= serial'
    BY <1>1, LinkAssumption DEF Common, ReaderTypeOK
  <2> QED
    BY <1>1, <2>2, <2>3, ReaderStep
<1>10. UNCHANGED Service!vars
  BY <1>1 DEF Service!vars, pendingBar, responseBar, Outstanding
<1> QED
  BY <1>8, <1>9, <1>10 DEF LinkInv

\* The field goes: nothing of the session is left, and an outstanding command is aborted.
LEMMA FieldOffKeepsLinkInv ==
  ASSUME LinkInv, FieldOff
  PROVE  LinkInv' /\ [Service!Next]_(Service!vars)
<1>1. /\ Common /\ mode' = "idle" /\ reader_block' = 0 /\ to_card' = <<>> /\ to_reader' = <<>>
      /\ UNCHANGED <<reader_cid, serial, blocks, sent, received, ran, results>>
      /\ last_response_valid' = FALSE /\ expected_pcd_block' = 0 /\ picc_block' = 1
      /\ command' = <<>> /\ response_offset' = 0 /\ cid' = NoCid
      /\ last_frame' = NoFrame /\ tx_buffer' = tx_buffer /\ executed' = <<>>
  BY DEF LinkInv, FieldOff, EndOfSession, ResetActivation, ResetSession
<1>2. <<>> \in Seq(Frame) /\ <<>> \in Seq(Octet) /\ <<>> \in Seq(Seq(Octet)) /\ \A S : Each(<<>>, S)
  BY EmptySeq, EmptyQueue
<1>3. NoFrame \in Frame
  <2>1. "None" \in FrameKind /\ 0 \in Bit /\ FALSE \in BOOLEAN /\ NoCid \in Cids \cup {NoCid}
    BY DEF FrameKind, Bit
  <2> QED
    BY <1>2, <2>1, BlockIsFrame DEF NoFrame
<1>4. IdlePhase'
  <2>1. 1 = 1 - 0
    OBVIOUS
  <2> QED
    BY <1>1, <1>2, <2>1 DEF IdlePhase
<1>5. CardTypeOK' /\ ReaderTypeOK' /\ SessionOK'
  BY <1>1, <1>2, <1>3 DEF Common, CardTypeOK, ReaderTypeOK, SessionOK, Mode, Bit
<1>6. RanOK'
  BY <1>1 DEF Common, RanOK, Issued
<1>7. pendingBar' = <<>> /\ responseBar' = <<>>
  BY <1>1 DEF pendingBar, responseBar, Outstanding
<1>8. ASSUME ~Outstanding PROVE UNCHANGED Service!vars
  BY <1>1, <1>7, <1>8 DEF pendingBar, responseBar, Service!vars
<1>9. ASSUME Outstanding PROVE Service!Next
  <2>1. serial \in Nat /\ blocks \in Nat \ {0}
    <3>1. blocks \in BlockCounts
      BY <1>9 DEF LinkInv, IdlePhase, DeselectPhase, SendingPhase, GatheredOK, AnsweredPhase,
         FetchingPhase, EngineAnswered, Outstanding
    <3> QED
      BY <3>1, LinkAssumption DEF LinkInv, Common, ReaderTypeOK
  <2>2. pendingBar # <<>>
    BY <1>9, <2>1, CommandType DEF pendingBar
  <2>3. Service!Abort
    BY <1>1, <1>7, <2>2 DEF Service!Abort
  <2> QED
    BY <2>3 DEF Service!Next
<1>10. [Service!Next]_(Service!vars)
  BY <1>8, <1>9
<1> QED
  BY <1>4, <1>5, <1>6, <1>10 DEF LinkInv, Common

\* A new command: its blocks have the numbers that come next, and every frame on its
\* way is older.
LEMMA IssueKeepsLinkInv ==
  ASSUME LinkInv, NEW n \in BlockCounts, Issue(n)
  PROVE  LinkInv' /\ Service!Issue
<1>1. /\ Common /\ mode = "idle" /\ serial < MaxSerial /\ serial' = serial + 1 /\ blocks' = n
      /\ sent' = 1 /\ received' = <<>> /\ mode' = "sending"
      /\ to_card' = Append(to_card, Block("I", reader_block, 1 < n, reader_cid, <<<<serial', 1>>>>))
      /\ UNCHANGED <<card, reader_block, reader_cid, to_reader, ran, results>>
      /\ UNCHANGED session /\ UNCHANGED engine
      /\ to_card \in Seq(Frame) /\ to_reader \in Seq(Frame) /\ serial \in Nat
      /\ reader_block \in Bit /\ reader_cid \in Cids \cup {NoCid} /\ n \in Nat \ {0}
  BY LinkAssumption DEF LinkInv, Issue, Common, ReaderTypeOK, card
<1>2. IdlePhase
  BY <1>1 DEF LinkInv, DeselectPhase, SendingPhase, AnsweredPhase, Outstanding, FetchingPhase
<1>3. /\ picc_block = 1 - reader_block /\ expected_pcd_block = reader_block
      /\ response_offset = 0 /\ command = <<>>
      /\ Each(to_card, OldFrames(1 - reader_block, serial, reader_cid))
      /\ Each(to_reader, OldAnswers(1 - reader_block))
      /\ last_response_valid \/ to_card = <<>>
      /\ 1 - reader_block \in Bit /\ 1 - reader_block # reader_block
  BY <1>1, <1>2, Bits DEF IdlePhase
<1>4. BlockNo(0)' = 1 - reader_block /\ BlockNo(1)' = reader_block
  <2>1. /\ Alternate(0, 1, reader_block) = 1 - reader_block
        /\ Alternate(1, 1, reader_block) = reader_block
    <3>1. 0 % 2 # 1 % 2
      OBVIOUS
    <3> QED
      BY <3>1 DEF Alternate
  <2>2. /\ BlockNo(0)' = Alternate(0, sent', reader_block')
        /\ BlockNo(1)' = Alternate(1, sent', reader_block')
    BY DEF BlockNo, Alternate
  <2> QED
    BY <1>1, <2>1, <2>2
<1>5. /\ Stale' = OldFrames(1 - reader_block, serial, reader_cid)
      /\ FirstNak' = Nak(reader_block, reader_cid)
      /\ BlockK(1)' = Block("I", reader_block, 1 < n, reader_cid, <<<<serial + 1, 1>>>>)
  <2>1. serial' - 1 = serial
    BY <1>1
  <2>2. Stale' = OldFrames(BlockNo(0)', serial' - 1, reader_cid')
    BY DEF Stale, OldFrames
  <2>3. FirstNak' = Nak(BlockNo(1)', reader_cid')
    BY DEF FirstNak, Nak, Block
  <2>4. BlockK(1)' = Block("I", BlockNo(1)', 1 < blocks', reader_cid', <<<<serial', 1>>>>)
    BY DEF BlockK, Block
  <2> QED
    BY <1>1, <1>4, <2>1, <2>2, <2>3, <2>4
<1>6. PICK x \in Frame : x = BlockK(1)' /\ x \notin Stale' /\ to_card' = Append(to_card, x)
  <2> DEFINE y == Block("I", reader_block, 1 < n, reader_cid, <<<<serial + 1, 1>>>>)
  <2>1. y \in Frame
    <3>1. "I" \in FrameKind /\ (1 < n) \in BOOLEAN /\ <<<<serial + 1, 1>>>> \in Seq(Octet)
      BY <1>1 DEF FrameKind, Octet
    <3> QED
      BY <1>1, <3>1, BlockIsFrame
  <2>2. y.bn = reader_block
    BY DEF Block
  <2>3. y \notin Stale'
    BY <1>3, <1>5, <2>2 DEF OldFrames
  <2> QED
    BY <1>1, <1>5, <2>1, <2>3
<1>7. Len(command') = 0 /\ command' = CommandOf(serial', 0) /\ command' = <<>>
  <2>1. CommandOf(serial + 1, 0) = <<>>
    BY <1>1, CommandType
  <2> QED
    BY <1>1, <1>3, <2>1 DEF session
<1>8. \A k \in 1..Len(ran) : ran[k][1][1] < serial + 1
  <2> SUFFICES ASSUME NEW k \in 1..Len(ran) PROVE ran[k][1][1] < serial + 1
    OBVIOUS
  <2>1. PICK s \in 1..serial, m \in BlockCounts : ran[k] = CommandOf(s, m)
    BY <1>1 DEF Common, RanOK, Issued
  <2>2. s \in Nat /\ m \in Nat \ {0} /\ s <= serial
    BY <1>1, <2>1, LinkAssumption
  <2>3. ran[k][1][1] = s
    BY <2>1, <2>2, CommandType
  <2> QED
    BY <1>1, <2>2, <2>3
<1>9. GatheredOK(0)'
  <2>1. GatheredOK(0)' <=>
          /\ picc_block' = BlockNo(0)' /\ expected_pcd_block' = BlockNo(0 + 1)'
          /\ response_offset' = 0 /\ received' = <<>>
          /\ command' = CommandOf(serial', 0) /\ 0 < blocks' /\ 0 <= sent'
          /\ serial' >= 1 /\ blocks' \in BlockCounts /\ sent' \in 1..blocks'
          /\ \A k \in 1..Len(ran') : ran'[k][1][1] < serial'
    BY DEF GatheredOK, CommandOf
  <2>2. 0 + 1 = 1 /\ 0 < n /\ 1 \in 1..n /\ serial + 1 >= 1
    BY <1>1
  <2>3. BlockNo(0 + 1)' = reader_block
    BY <1>4, <2>2
  <2> QED
    BY <1>1, <1>3, <1>4, <1>7, <1>8, <2>1, <2>2, <2>3 DEF session
<1>10. ToCardOK(0)'
  <2> DEFINE s == Append(to_card, x)
             B == BlocksFrom(0)'
             O == Stale'
             N == FirstNak'
  <2>1. x \in B
    <3>1. 1 \in 1..sent' /\ 1 >= 0
      BY <1>1
    <3> QED
      BY <1>6, <3>1 DEF BlocksFrom
  <2>2. Each(to_card, O) /\ O \subseteq Frame \ {x}
    BY <1>3, <1>5, <1>6 DEF OldFrames
  <2>a. last_response_valid' = last_response_valid /\ sent' = 1 /\ to_card' = s
    BY <1>1, <1>6 DEF session
  <2>b. Has(s, x)
    BY <1>1, HasAppend
  <2>c. x \notin O
    BY <1>6
  <2> HIDE DEF B, O, N, s
  <2>3. Each(to_card, B \cup {N} \cup O) /\ Each(to_card, Frame \ {x})
    BY <1>1, <2>2, Weaken
  <2>4. Each(s, B \cup {N} \cup O)
    BY <1>1, <2>1, <2>3, EachAppend DEF s
  <2>5. Follows(s, {x}, Frame \ O)
    <3>1. Follows(to_card, {x}, Frame \ O)
      BY <1>1, <2>3, NoneOf
    <3> QED
      BY <1>1, <2>3, <3>1, FollowsAppend DEF s
  <2>6. last_response_valid \/ Each(s, Frame \ O)
    <3>1. to_card = <<>> => Each(to_card, Frame \ O)
      BY <1>1, EmptyQueue
    <3> QED
      BY <1>1, <1>3, <2>c, <3>1, EachAppend DEF s
  <2>7. /\ Each(to_card', BlocksFrom(0)' \cup {FirstNak'} \cup Stale')
        /\ Follows(to_card', {BlockK(1)'}, Frame \ Stale')
        /\ last_response_valid' \/ Each(to_card', Frame \ Stale')
        /\ Has(to_card', BlockK(1)')
    BY <1>6, <2>4, <2>5, <2>6, <2>a, <2>b DEF B, O, N
  <2>8. \A l \in 1..sent' : l = 1
    BY <2>a
  <2>9. \A l \in 1..sent' : \A k \in 1..sent' : ~(k < l)
    BY <2>8
  <2>10. \A k \in 2..sent' : FALSE
    BY <2>a
  <2>11. \A k \in 1..sent' : Has(to_card', BlockK(k)')
    BY <2>7, <2>8
  <2> QED
    BY <2>7, <2>9, <2>10, <2>11 DEF ToCardOK
<1>11. ToReaderOK(0)'
  <2>1. OldAnswers(1 - reader_block) \subseteq OldAnswers(1 - reader_block) \cup Acks(Bit)
    OBVIOUS
  <2>2. \A bs : OldAnswers(1 - reader_block) \subseteq Frame \ Acks(bs)
    BY DEF OldAnswers, Acks
  <2>3. Each(to_reader, OldAnswers(1 - reader_block) \cup Acks(Bit))
    BY <1>1, <1>3, <2>1, Weaken
  <2>4. \A bs : Each(to_reader, Frame \ Acks(bs))
    BY <1>1, <1>3, <2>2, Weaken
  <2>5. \A bs : Follows(to_reader, Acks(bs), Acks(Bit))
    BY <1>1, <2>4, NoneOf
  <2>6. to_reader' = to_reader /\ ~(sent' >= 2)
    BY <1>1
  <2> QED
    BY <1>4, <2>3, <2>4, <2>5, <2>6 DEF ToReaderOK
<1>12. Common'
  <2>1. Append(to_card, x) \in Seq(Frame)
    BY <1>1, AppendProperties
  <2>2. serial + 1 \in 0..MaxSerial /\ serial <= serial + 1
    BY <1>1, LinkAssumption
  <2>3. ReaderTypeOK'
    BY <1>1, <1>6, <2>1, <2>2, EmptySeq DEF Common, ReaderTypeOK, Mode
  <2> QED
    BY <1>1, <2>2, <2>3, ReaderStep
<1>13. Service!Issue
  <2>1. pendingBar = <<>> /\ responseBar = <<>>
    BY <1>1 DEF pendingBar, responseBar, Outstanding
  <2>2. pendingBar' = CommandOf(serial + 1, n)
    BY <1>1 DEF pendingBar, Outstanding, CommandOf
  <2>3. CommandOf(serial + 1, n)[1][1] = serial + 1
    BY <1>1, CommandType
  <2>4. ran # <<>> => Last(ran) # CommandOf(serial + 1, n)
    <3> SUFFICES ASSUME ran # <<>> PROVE Last(ran) # CommandOf(serial + 1, n)
      OBVIOUS
    <3>1. Len(ran) \in 1..Len(ran) /\ Last(ran) = ran[Len(ran)]
      BY EmptySeq, LenProperties DEF LinkInv, Common, ReaderTypeOK, Last
    <3>2. Last(ran)[1][1] < serial + 1
      BY <1>8, <3>1
    <3> QED
      BY <1>1, <2>3, <3>2
  <2>5. Last(ran)' = Last(ran) /\ ran' = ran
    BY <1>1 DEF Last
  <2>6. responseBar' = <<>>
    BY <2>2, <2>4, <2>5 DEF responseBar
  <2>7. serial + 1 \in 1..MaxSerial
    BY <1>1, LinkAssumption
  <2>8. CommandOf(serial + 1, n) \in {CommandOf(s, m) : s \in 1..MaxSerial, m \in BlockCounts}
    BY <2>7
  <2> QED
    BY <1>1, <2>1, <2>2, <2>6, <2>8 DEF Service!Issue
<1>14. SendingPhase'
  BY <1>1, <1>7, <1>9, <1>10, <1>11 DEF SendingPhase
<1> QED
  BY <1>12, <1>13, <1>14 DEF LinkInv

-----------------------------------------------------------------------------
(* The specification.                                                       *)

\* The start.
LEMMA LinkInitInv == LinkInit => LinkInv /\ Service!Init
<1> SUFFICES ASSUME LinkInit PROVE LinkInv /\ Service!Init
  OBVIOUS
<1>1. /\ Init /\ mode = "idle" /\ reader_block = 0 /\ reader_cid \in Cids \cup {NoCid}
      /\ serial = 0 /\ blocks = 0 /\ sent = 0 /\ received = <<>>
      /\ to_card = <<>> /\ to_reader = <<>> /\ ran = <<>> /\ results = <<>>
  BY DEF LinkInit
<1>2. /\ last_response_valid = FALSE /\ expected_pcd_block = 0 /\ picc_block = 1
      /\ last_frame = NoFrame /\ command = <<>> /\ response_offset = 0 /\ cid = NoCid
      /\ tx_buffer = [cid |-> NoCid, data |-> <<>>] /\ executed = <<>>
  BY <1>1 DEF Init
<1>3. /\ <<>> \in Seq(Frame) /\ <<>> \in Seq(Octet) /\ <<>> \in Seq(Seq(Octet))
      /\ Len(<<>>) = 0 /\ \A S : Each(<<>>, S)
  BY EmptySeq, EmptyQueue
<1>4. NoFrame \in Frame
  <2>1. "None" \in FrameKind /\ 0 \in Bit /\ FALSE \in BOOLEAN /\ NoCid \in Cids \cup {NoCid}
    BY DEF FrameKind, Bit
  <2> QED
    BY <1>3, <2>1, BlockIsFrame DEF NoFrame
<1>5. CardTypeOK /\ SessionOK
  <2>1. tx_buffer \in TxBuffer
    BY <1>2, <1>3 DEF TxBuffer
  <2> QED
    BY <1>2, <1>3, <1>4, <2>1 DEF CardTypeOK, SessionOK, Bit
<1>6. ReaderTypeOK
  <2>1. 0 \in 0..MaxSerial /\ 0 \in Nat
    BY LinkAssumption
  <2> QED
    BY <1>1, <1>3, <2>1 DEF ReaderTypeOK, Mode, Bit
<1>7. RanOK
  BY <1>1, <1>3 DEF RanOK
<1>8. IdlePhase
  <2>1. 1 = 1 - 0
    OBVIOUS
  <2> QED
    BY <1>1, <1>2, <1>3, <2>1 DEF IdlePhase
<1>9. Service!Init
  BY <1>1 DEF Service!Init, pendingBar, responseBar, Outstanding
<1> QED
  BY <1>5, <1>6, <1>7, <1>8, <1>9 DEF LinkInv, Common

\* Every step.
LEMMA LinkNextInv ==
  ASSUME LinkWithinLimits, LinkInv, [LinkNext]_linkVars
  PROVE  LinkInv' /\ [Service!Next]_(Service!vars)
<1>1. CASE CardReceives
  BY <1>1, CardKeepsLinkInv
<1>2. CASE ReaderReceives
  BY <1>2, ReaderKeepsLinkInv
<1>3. CASE TimeOut
  BY <1>3, TimeOutKeepsLinkInv
<1>4. CASE StartDeselect
  BY <1>4, StartDeselectKeepsLinkInv
<1>5. CASE \E n \in BlockCounts : Issue(n)
  BY <1>5, IssueKeepsLinkInv DEF Service!Next
<1>6. CASE LoseFrame
  BY <1>6, LossKeepsLinkInv
<1>7. CASE LateAnswer
  BY <1>7, LateAnswerKeepsLinkInv
<1>8. CASE FieldOff
  BY <1>8, FieldOffKeepsLinkInv
<1>9. CASE UNCHANGED linkVars
  <2>1. UNCHANGED <<card, reader, to_card, to_reader, ran, results>> /\ UNCHANGED session /\ UNCHANGED engine
    BY <1>9 DEF linkVars, card
  <2>2. Common' /\ UNCHANGED Service!vars
    <3>1. to_card' \in Seq(Frame) /\ to_reader' \in Seq(Frame)
      BY <2>1 DEF LinkInv, Common, ReaderTypeOK
    <3> QED
      BY <2>1, <3>1, FramesMove DEF LinkInv
  <2>3. /\ IdlePhase => IdlePhase'
        /\ DeselectPhase => DeselectPhase'
    BY <2>1 DEF IdlePhase, DeselectPhase, reader, session
  <2>4. SendingPhase => SendingPhase'
    <3>1. \A g : /\ GatheredOK(g) => GatheredOK(g)'
                 /\ ToCardOK(g) => ToCardOK(g)'
                 /\ ToReaderOK(g) => ToReaderOK(g)'
      BY <2>1, SameReader DEF GatheredOK, ToCardOK, ToReaderOK, Quiet, reader, session
    <3> QED
      BY <2>1, <3>1 DEF SendingPhase, reader, session
  <2>5. /\ AnsweredPhase => AnsweredPhase'
        /\ FetchingPhase => FetchingPhase'
    <3>1. (EngineAnswered => EngineAnswered') /\ (Outstanding => Outstanding')
      BY <2>1 DEF EngineAnswered, Outstanding, reader, engine
    <3> QED
      BY <2>1, <3>1 DEF AnsweredPhase, FetchingPhase, reader, session, engine
  <2> QED
    BY <2>2, <2>3, <2>4, <2>5 DEF LinkInv
<1> QED
  BY <1>1, <1>2, <1>3, <1>4, <1>5, <1>6, <1>7, <1>8, <1>9 DEF LinkNext

\* The invariant holds of every behaviour of the link: what the listener keeps of a
\* session (its block numbers, the kept frame, the offset, the gathered command) and
\* what is on its way agree with what the reader has sent and read.
THEOREM LinkInvariant ==
  ASSUME LinkWithinLimits
  PROVE  LinkSpec => []LinkInv
<1>1. LinkInv /\ [LinkNext]_linkVars => LinkInv'
  BY LinkNextInv
<1> QED
  BY <1>1, LinkInitInv, PTL DEF LinkSpec

\* The listener's handlers (dfc_emulator_listener.c:3-5: "hands the engine a bare
\* command, and returns the response the engine wrote"), driven by a reader that keeps
\* the rules, behave as CommandService: any number of commands and blocks, any response,
\* frames lost and time-outs come too early while a command of one block is out.
THEOREM LinkImplementsService ==
  ASSUME LinkWithinLimits
  PROVE  LinkSpec => ImplementsService
<1>1. LinkInv /\ [LinkNext]_linkVars => [Service!Next]_(Service!vars)
  BY LinkNextInv
<1> QED
  BY <1>1, LinkInitInv, LinkInvariant, PTL DEF LinkSpec, ImplementsService, Service!Spec

-----------------------------------------------------------------------------
(* What follows for the two ends of the link.                               *)

\* An issued command with one of the responses the engine may write to it.
Answer ==
  {<<CommandOf(s, n), <<Reply(CommandOf(s, 1), r)>>>> :
     s \in 1..MaxSerial, n \in BlockCounts, r \in ReplyLengths}

\* What the reader was returned: responses to commands the engine ran, to each at
\* most once and in the order they were issued; none yet to the outstanding command.
ResultsOK ==
  /\ results \in Seq(Answer)
  /\ \A k \in 1..Len(results) : \E j \in 1..Len(ran) : ran[j] = results[k][1]
  /\ \A i, j \in 1..Len(results) : i < j => results[i][1][1][1] < results[j][1][1][1]
  /\ \A k \in 1..Len(results) :
       /\ results[k][1][1][1] <= serial
       /\ Outstanding => results[k][1][1][1] < serial

\* What an answer is made of.
LEMMA AnswerType ==
  ASSUME NEW s \in 1..MaxSerial, NEW n \in BlockCounts, NEW r \in ReplyLengths, NEW a,
         a = <<CommandOf(s, n), <<Reply(CommandOf(s, 1), r)>>>>
  PROVE  a \in Answer /\ a[1] = CommandOf(s, n) /\ a[1][1][1] = s /\ WrittenIn(a[2][1], {s})
<1>1. s \in Nat /\ n \in Nat \ {0} /\ 1 \in Nat \ {0}
  BY LinkAssumption
<1>2. CommandOf(s, n)[1][1] = s
  BY <1>1, CommandType
<1>3. WrittenIn(Reply(CommandOf(s, 1), r), {s})
  BY <1>1, ReplyType
<1> QED
  BY <1>2, <1>3 DEF Answer

LEMMA AnswerFacts ==
  ASSUME NEW a \in Answer
  PROVE  a[1][1][1] \in Nat /\ WrittenIn(a[2][1], {a[1][1][1]})
<1>1. PICK s \in 1..MaxSerial, n \in BlockCounts, r \in ReplyLengths :
        a = <<CommandOf(s, n), <<Reply(CommandOf(s, 1), r)>>>>
  BY DEF Answer
<1>2. a[1][1][1] = s /\ WrittenIn(a[2][1], {s})
  BY <1>1, AnswerType, Zenon
<1>3. s \in Nat
  BY LinkAssumption
<1> QED
  BY <1>2, <1>3

\* The outstanding command, once the engine answered it, and its answer.
LEMMA OutstandingAnswer ==
  ASSUME LinkInv, Outstanding, responseBar # <<>>
  PROVE  /\ <<pendingBar, responseBar>> \in Answer
         /\ pendingBar = CommandOf(serial, blocks) /\ pendingBar[1][1] = serial
         /\ \E j \in 1..Len(ran) : ran[j] = pendingBar
<1>1. Common
  BY DEF LinkInv
<1>2. EngineAnswered
  <2>1. CASE SendingPhase
    <3>1. responseBar = <<>>
      BY <1>1, <2>1, SendingFacts, NotRunYet DEF SendingPhase, GatheredOK
    <3> QED
      BY <3>1
  <2> QED
    BY <2>1 DEF LinkInv, IdlePhase, DeselectPhase, AnsweredPhase, FetchingPhase, Outstanding
<1>3. pendingBar = CommandOf(serial, blocks) /\ responseBar = <<tx_buffer.data>>
  BY <1>1, <1>2, RunAlready
<1>4. PICK r \in ReplyLengths : tx_buffer.data = Reply(CommandOf(serial, 1), r)
  BY <1>2 DEF EngineAnswered
<1>5. serial \in 1..MaxSerial /\ blocks \in BlockCounts
  BY <1>1, <1>2, LinkAssumption DEF EngineAnswered, Common, ReaderTypeOK
<1>6. <<pendingBar, responseBar>> \in Answer /\ pendingBar[1][1] = serial
  BY <1>3, <1>4, <1>5, AnswerType
<1>7. Len(ran) \in 1..Len(ran) /\ ran[Len(ran)] = pendingBar
  BY <1>1, <1>2, <1>3, LenProperties DEF EngineAnswered, Common, ReaderTypeOK
<1> QED
  BY <1>3, <1>6, <1>7

\* How the steps of the link move the serial number and the engine's log.
LEMMA SerialGrows ==
  ASSUME LinkInv, LinkInv', [LinkNext]_linkVars
  PROVE  /\ serial \in Nat /\ serial' \in Nat /\ serial <= serial'
         /\ Outstanding' => Outstanding \/ serial < serial'
         /\ results' # results => ~Outstanding'
<1>1. serial \in Nat /\ serial' \in Nat
  BY LinkAssumption DEF LinkInv, Common, ReaderTypeOK
<1>2. CASE \E n \in BlockCounts : Issue(n)
  BY <1>1, <1>2 DEF Issue
<1>3. CASE ReaderReceives
  BY <1>1, <1>3 DEF ReaderReceives, TakeChunk, TakeLastChunk, SendNextBlock, RepeatBlock,
     EndSession, RejectFrame, DiscardFrame, IsResponse, ExpectsResponse, Outstanding, reader
<1>4. CASE CardReceives \/ TimeOut \/ LoseFrame \/ LateAnswer
  <2>1. UNCHANGED reader /\ results' = results
    BY <1>4 DEF CardReceives, TimeOut, LoseFrame, LateAnswer
  <2> QED
    BY <1>1, <2>1 DEF reader, Outstanding
<1>5. CASE StartDeselect \/ FieldOff
  <2>1. mode' \in {"idle", "deselecting"} /\ serial' = serial
    BY <1>5 DEF StartDeselect, FieldOff
  <2> QED
    BY <1>1, <2>1 DEF Outstanding
<1>6. CASE UNCHANGED linkVars
  <2>1. UNCHANGED reader /\ results' = results
    BY <1>6 DEF linkVars
  <2> QED
    BY <1>1, <2>1 DEF reader, Outstanding
<1> QED
  BY <1>2, <1>3, <1>4, <1>5, <1>6 DEF LinkNext

\* A step that returns an answer returns that of the outstanding command.
LEMMA ResultsStep ==
  ASSUME LinkInv, LinkInv', ResultsOK, [LinkNext]_linkVars, [Service!Next]_(Service!vars)
  PROVE  ResultsOK'
<1>1. /\ serial \in Nat /\ serial' \in Nat /\ serial <= serial'
      /\ Outstanding' => Outstanding \/ serial < serial'
      /\ results' # results => ~Outstanding'
  BY SerialGrows
<1>2. ran \in Seq(Seq(Octet)) /\ Len(ran) \in Nat
  BY LenProperties DEF LinkInv, Common, ReaderTypeOK
<1>3. \A j \in 1..Len(ran) : j \in 1..Len(ran') /\ ran'[j] = ran[j]
  <2>1. CASE ran' = ran
    BY <2>1
  <2>2. CASE ran' # ran
    <3>1. ran' = Append(ran, pendingBar)
      BY <2>2 DEF Service!Next, Service!Issue, Service!Execute, Service!Return, Service!Abort, Service!vars
    <3>2. PICK x : ran' = Append(ran, x)
      BY <3>1
    <3> QED
      BY <1>2, <3>2
  <2> QED
    BY <2>1, <2>2
<1>4. \A k \in 1..Len(results) :
        /\ results[k][1][1][1] \in Nat
        /\ results[k][1][1][1] <= serial
        /\ Outstanding => results[k][1][1][1] < serial
  <2> TAKE k \in 1..Len(results)
  <2>1. results[k] \in Answer
    BY ElementOfSeq DEF ResultsOK
  <2>2. results[k][1][1][1] \in Nat
    BY <2>1, AnswerFacts
  <2> QED
    BY <2>2 DEF ResultsOK
<1>5. CASE results' = results
  <2>1. \A k \in 1..Len(results) : \E j \in 1..Len(ran') : ran'[j] = results[k][1]
    BY <1>3 DEF ResultsOK
  <2>2. ASSUME NEW k \in 1..Len(results)
        PROVE  results[k][1][1][1] <= serial' /\ (Outstanding' => results[k][1][1][1] < serial')
    <3>1. PICK t \in Nat : t = results[k][1][1][1] /\ t <= serial /\ (Outstanding => t < serial)
      BY <1>4
    <3>2. t <= serial' /\ (Outstanding' => t < serial')
      BY <1>1, <3>1
    <3> QED
      BY <3>1, <3>2
  <2>3. \A i, j \in 1..Len(results) : i < j => results[i][1][1][1] < results[j][1][1][1]
    BY DEF ResultsOK
  <2> QED
    BY <1>5, <2>1, <2>2, <2>3 DEF ResultsOK
<1>6. CASE results' # results
  <2>1. results' = Append(results, <<pendingBar, responseBar>>) /\ responseBar # <<>>
    BY <1>6 DEF Service!Next, Service!Issue, Service!Execute, Service!Return, Service!Abort, Service!vars
  <2>2. Outstanding
    BY <2>1 DEF responseBar
  <2>3. PICK a \in Answer : /\ results' = Append(results, a) /\ a[1][1][1] = serial
                            /\ \E j \in 1..Len(ran) : ran[j] = a[1]
    BY <2>1, <2>2, OutstandingAnswer
  <2>4. /\ results \in Seq(Answer) /\ Len(results) \in Nat /\ results' \in Seq(Answer)
        /\ Len(results') = Len(results) + 1
        /\ \A k \in 1..Len(results) : results'[k] = results[k]
        /\ results'[Len(results) + 1] = a
    BY <2>3, LenProperties, AppendProperties DEF ResultsOK
  <2>5. \A k \in 1..Len(results') : k \in 1..Len(results) \/ (k = Len(results) + 1 /\ results'[k] = a)
    BY <2>4
  <2>6. \A k \in 1..Len(results') : \E j \in 1..Len(ran') : ran'[j] = results'[k][1]
    BY <1>3, <2>3, <2>4, <2>5 DEF ResultsOK
  <2>7. ASSUME NEW k \in 1..Len(results')
        PROVE  results'[k][1][1][1] <= serial'
    <3>1. CASE k \in 1..Len(results)
      <4>1. PICK t \in Nat : t = results[k][1][1][1] /\ t <= serial
        BY <1>4, <3>1
      <4> QED
        BY <1>1, <2>4, <3>1, <4>1
    <3>2. CASE k = Len(results) + 1
      BY <1>1, <2>3, <2>4, <3>2
    <3> QED
      BY <2>5, <3>1, <3>2
  <2>8. ASSUME NEW i \in 1..Len(results'), NEW j \in 1..Len(results'), i < j
        PROVE  results'[i][1][1][1] < results'[j][1][1][1]
    <3>1. i \in 1..Len(results)
      BY <2>4, <2>8
    <3>2. CASE j \in 1..Len(results)
      BY <2>4, <2>8, <3>1, <3>2 DEF ResultsOK
    <3>3. CASE j = Len(results) + 1
      <4>1. results[i][1][1][1] < serial
        BY <1>4, <2>2, <3>1
      <4>2. results'[i] = results[i] /\ results'[j] = a
        BY <2>4, <3>1, <3>3
      <4> QED
        BY <2>3, <4>1, <4>2
    <3> QED
      BY <2>5, <3>2, <3>3
  <2> QED
    BY <1>1, <1>6, <2>4, <2>6, <2>7, <2>8 DEF ResultsOK
<1> QED
  BY <1>5, <1>6

\* Every result is an issued command with a response the engine may have written to it,
\* of a command the engine ran, each command at most once and in order.
THEOREM ResultsInvariant ==
  ASSUME LinkWithinLimits
  PROVE  LinkSpec => []ResultsOK
<1>1. LinkInit => ResultsOK
  <2> SUFFICES ASSUME LinkInit PROVE ResultsOK
    OBVIOUS
  <2>1. results = <<>> /\ results \in Seq(Answer) /\ 1..Len(results) = {}
    BY EmptySeq DEF LinkInit
  <2> QED
    BY <2>1 DEF ResultsOK
<1>2. LinkInv /\ LinkInv' /\ ResultsOK /\ [LinkNext]_linkVars => ResultsOK'
  BY LinkNextInv, ResultsStep
<1> QED
  BY <1>1, <1>2, LinkInvariant, PTL DEF LinkSpec

\* Whatever the engine is handed (lines 236-291) is a command the
\* reader issued, whole.
THEOREM EngineIsHandedIssuedCommands ==
  ASSUME LinkWithinLimits
  PROVE  LinkSpec => []EngineGetsIssuedCommands
<1>1. LinkInv => EngineGetsIssuedCommands
  <2> SUFFICES ASSUME LinkInv PROVE EngineGetsIssuedCommands
    OBVIOUS
  <2>1. DOMAIN ran = 1..Len(ran)
    BY LenProperties DEF LinkInv, Common, ReaderTypeOK
  <2> QED
    BY <2>1 DEF LinkInv, Common, RanOK, Issued, EngineGetsIssuedCommands
<1> QED
  BY <1>1, LinkInvariant, PTL

\* Whatever the reader takes for the response to a command was written to that command,
\* put together from chunks of it (send_next_i_response) in their order.
THEOREM ResultsAreAnswers ==
  ASSUME LinkWithinLimits
  PROVE  LinkSpec => []ResultsAnswerTheirCommand
<1>1. ResultsOK => ResultsAnswerTheirCommand
  <2> SUFFICES ASSUME ResultsOK, NEW k \in DOMAIN results
               PROVE  WrittenIn(results[k][2][1], {results[k][1][1][1]})
    BY DEF ResultsAnswerTheirCommand
  <2>1. results[k] \in Answer
    BY DEF ResultsOK
  <2> QED
    BY <2>1, AnswerFacts
<1> QED
  BY <1>1, ResultsInvariant, PTL

\* No retransmission makes the engine run a command twice, and none returns a response
\* twice or to a command that did not run.
THEOREM CommandsRunAndAnsweredOnce ==
  ASSUME LinkWithinLimits
  PROVE  LinkSpec => []RunAndAnsweredOnce
<1>1. LinkInv /\ ResultsOK => RunAndAnsweredOnce
  <2> SUFFICES ASSUME LinkInv, ResultsOK PROVE RunAndAnsweredOnce
    OBVIOUS
  <2>1. DOMAIN ran = 1..Len(ran) /\ DOMAIN results = 1..Len(results)
    BY LenProperties DEF LinkInv, Common, ReaderTypeOK, ResultsOK
  <2> QED
    BY <2>1 DEF LinkInv, Common, RanOK, ResultsOK, RunAndAnsweredOnce
<1> QED
  BY <1>1, LinkInvariant, ResultsInvariant, PTL
=============================================================================
