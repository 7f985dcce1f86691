----------------------- MODULE IsoDepLinkCard_proofs -----------------------
(***************************************************************************)
(* The inductive invariant of IsoDepLink, and the proof that the card's    *)
(* steps keep it and are steps of CommandService.                          *)
(*                                                                         *)
(* The invariant tells five phases apart, by what the reader waits for and *)
(* whether the card has answered yet.  Each says which block numbers the   *)
(* two ends have and which frames may be on their way, in which order: the *)
(* listener cannot tell a late frame from a new one but by its number.     *)
(***************************************************************************)
EXTENDS IsoDepLink, IsoDepListener_proofs

-----------------------------------------------------------------------------
(* Queues of frames: what a queue holds, and in which order.               *)

Each(s, S) == \A i \in 1..Len(s) : s[i] \in S
Has(s, f) == \E i \in 1..Len(s) : s[i] = f

\* Behind a frame of A there are only frames of B.
Follows(s, A, B) == \A i, j \in 1..Len(s) : i < j /\ s[i] \in A => s[j] \in B

\* Every frame of A has f in front of it.
Heralded(s, A, f) == \A j \in 1..Len(s) : s[j] \in A => \E i \in 1..Len(s) : i < j /\ s[i] = f

\* Of an empty queue every such statement holds, and it holds nothing.
LEMMA EmptyQueue ==
  ASSUME NEW s \in Seq(Frame), s = <<>>, NEW A, NEW B, NEW f
  PROVE  Each(s, A) /\ ~Has(s, f) /\ Follows(s, A, B) /\ Heralded(s, A, f)
<1>1. Len(s) = 0
  BY EmptySeq
<1>2. 1..Len(s) = {}
  BY <1>1
<1> QED
  BY <1>2 DEF Each, Has, Follows, Heralded

\* A queue without frames of A.
LEMMA NoneOf ==
  ASSUME NEW s \in Seq(Frame), NEW A, NEW B, NEW f, Each(s, Frame \ A)
  PROVE  Follows(s, A, B) /\ Heralded(s, A, f)
BY DEF Each, Follows, Heralded

\* Larger classes.
LEMMA Weaken ==
  ASSUME NEW s \in Seq(Frame), NEW A, NEW B, Each(s, A), A \subseteq B
  PROVE  Each(s, B)
BY DEF Each

\* The indices of a queue and of its tail.
LEMMA Head1 ==
  ASSUME NEW s \in Seq(Frame), s # <<>>
  PROVE  /\ Head(s) = s[1] /\ 1 \in 1..Len(s) /\ Head(s) \in Frame
         /\ Tail(s) \in Seq(Frame) /\ Len(s) \in Nat /\ Len(Tail(s)) = Len(s) - 1
         /\ \A i \in 1..Len(Tail(s)) : Tail(s)[i] = s[i + 1] /\ i + 1 \in 1..Len(s)
<1>1. Len(s) \in Nat \ {0} /\ 1 \in 1..Len(s)
  BY EmptySeq, LenProperties
<1>2. Head(s) = s[1]
  BY <1>1
<1>3. /\ Head(s) \in Frame /\ Tail(s) \in Seq(Frame) /\ Len(Tail(s)) = Len(s) - 1
      /\ \A i \in 1..Len(Tail(s)) : Tail(s)[i] = s[i + 1]
  BY HeadTailProperties
<1> QED
  BY <1>1, <1>2, <1>3

\* The head leaves.
LEMMA EachTail ==
  ASSUME NEW s \in Seq(Frame), s # <<>>, NEW S, Each(s, S)
  PROVE  Head(s) \in S /\ Each(Tail(s), S)
BY Head1 DEF Each

LEMMA FollowsTail ==
  ASSUME NEW s \in Seq(Frame), s # <<>>, NEW A, NEW B, Follows(s, A, B)
  PROVE  Follows(Tail(s), A, B) /\ (Head(s) \in A => Each(Tail(s), B))
<1> DEFINE t == Tail(s)
<1>1. /\ Head(s) = s[1] /\ 1 \in 1..Len(s) /\ Len(s) \in Nat /\ Len(t) = Len(s) - 1
      /\ \A i \in 1..Len(t) : t[i] = s[i + 1] /\ i + 1 \in 1..Len(s)
  BY Head1
<1> HIDE DEF t
<1>2. Follows(t, A, B)
  <2> SUFFICES ASSUME NEW i \in 1..Len(t), NEW j \in 1..Len(t), i < j, t[i] \in A
               PROVE  t[j] \in B
    BY DEF Follows
  <2>1. i + 1 < j + 1 /\ t[i] = s[i + 1] /\ t[j] = s[j + 1] /\ i + 1 \in 1..Len(s) /\ j + 1 \in 1..Len(s)
    BY <1>1
  <2> QED
    BY <2>1 DEF Follows
<1>3. ASSUME Head(s) \in A PROVE Each(t, B)
  <2> SUFFICES ASSUME NEW j \in 1..Len(t) PROVE t[j] \in B
    BY DEF Each
  <2>1. 1 < j + 1 /\ t[j] = s[j + 1] /\ j + 1 \in 1..Len(s)
    BY <1>1
  <2> QED
    BY <1>1, <1>3, <2>1 DEF Follows
<1> QED
  BY <1>2, <1>3 DEF t

LEMMA HasTail ==
  ASSUME NEW s \in Seq(Frame), s # <<>>, NEW f, Has(s, f), Head(s) # f
  PROVE  Has(Tail(s), f)
<1>1. PICK i \in 1..Len(s) : s[i] = f
  BY DEF Has
<1>2. i # 1 /\ Len(s) \in Nat /\ Len(Tail(s)) = Len(s) - 1
  BY <1>1, Head1
<1>3. i - 1 \in 1..Len(Tail(s)) /\ (i - 1) + 1 = i
  BY <1>2
<1>4. Tail(s)[i - 1] = s[i]
  BY <1>3, Head1
<1> QED
  BY <1>1, <1>3, <1>4 DEF Has

LEMMA HeraldedTail ==
  ASSUME NEW s \in Seq(Frame), s # <<>>, NEW A, NEW f, Heralded(s, A, f)
  PROVE  Head(s) \notin A /\ (Head(s) # f => Heralded(Tail(s), A, f))
<1> DEFINE t == Tail(s)
<1>1. /\ Head(s) = s[1] /\ 1 \in 1..Len(s) /\ Len(s) \in Nat /\ Len(t) = Len(s) - 1
      /\ \A i \in 1..Len(t) : t[i] = s[i + 1] /\ i + 1 \in 1..Len(s)
  BY Head1
<1> HIDE DEF t
<1>2. Head(s) \notin A
  <2> SUFFICES ASSUME s[1] \in A PROVE FALSE
    BY <1>1
  <2>1. PICK i \in 1..Len(s) : i < 1
    BY <1>1 DEF Heralded
  <2> QED
    BY <2>1
<1>3. ASSUME Head(s) # f, NEW j \in 1..Len(t), t[j] \in A
      PROVE  \E i \in 1..Len(t) : i < j /\ t[i] = f
  <2>1. s[j + 1] \in A /\ j + 1 \in 1..Len(s)
    BY <1>1, <1>3
  <2>2. PICK i \in 1..Len(s) : i < j + 1 /\ s[i] = f
    BY <2>1 DEF Heralded
  <2>3. i # 1
    BY <1>1, <1>3, <2>2
  <2>4. i - 1 \in 1..Len(t) /\ (i - 1) + 1 = i /\ i - 1 < j
    BY <1>1, <2>2, <2>3
  <2>5. t[i - 1] = f
    BY <1>1, <2>2, <2>4
  <2> QED
    BY <2>4, <2>5
<1> QED
  BY <1>2, <1>3 DEF Heralded, t

\* A frame joins.
LEMMA Append1 ==
  ASSUME NEW s \in Seq(Frame), NEW x \in Frame
  PROVE  /\ Append(s, x) \in Seq(Frame) /\ Append(s, x) # <<>>
         /\ Len(s) \in Nat /\ Len(Append(s, x)) = Len(s) + 1
         /\ \A i \in 1..Len(s) : Append(s, x)[i] = s[i] /\ i \in 1..Len(Append(s, x))
         /\ \A i \in 1..Len(Append(s, x)) : i \in 1..Len(s) \/ (i = Len(s) + 1 /\ Append(s, x)[i] = x)
         /\ Append(s, x)[Len(s) + 1] = x /\ Len(s) + 1 \in 1..Len(Append(s, x))
<1>1. Len(s) \in Nat
  BY LenProperties
<1>2. /\ Append(s, x) \in Seq(Frame) /\ Append(s, x) # <<>>
      /\ Len(Append(s, x)) = Len(s) + 1
      /\ \A i \in 1..Len(s) : Append(s, x)[i] = s[i]
      /\ Append(s, x)[Len(s) + 1] = x
  BY AppendProperties
<1> QED
  BY <1>1, <1>2

LEMMA EachAppend ==
  ASSUME NEW s \in Seq(Frame), NEW x \in Frame, NEW S, Each(s, S), x \in S
  PROVE  Each(Append(s, x), S)
<1> DEFINE t == Append(s, x)
<1>1. \A i \in 1..Len(t) : (t[i] = s[i] /\ i \in 1..Len(s)) \/ t[i] = x
  BY Append1
<1> HIDE DEF t
<1>2. Each(t, S)
  BY <1>1 DEF Each
<1> QED
  BY <1>2 DEF t

LEMMA HasAppend ==
  ASSUME NEW s \in Seq(Frame), NEW x \in Frame
  PROVE  Has(Append(s, x), x) /\ \A f : Has(s, f) => Has(Append(s, x), f)
<1> DEFINE t == Append(s, x)
<1>1. /\ \A i \in 1..Len(s) : t[i] = s[i] /\ i \in 1..Len(t)
      /\ t[Len(s) + 1] = x /\ Len(s) + 1 \in 1..Len(t)
  BY Append1
<1> HIDE DEF t
<1>2. Has(t, x) /\ \A f : Has(s, f) => Has(t, f)
  BY <1>1 DEF Has
<1> QED
  BY <1>2 DEF t

\* It joins if it may stand behind a frame of A, or if there is none.
LEMMA FollowsAppend ==
  ASSUME NEW s \in Seq(Frame), NEW x \in Frame, NEW A, NEW B, Follows(s, A, B),
         x \in B \/ Each(s, Frame \ A)
  PROVE  Follows(Append(s, x), A, B)
<1> DEFINE t == Append(s, x)
<1>1. /\ Len(s) \in Nat /\ Len(t) = Len(s) + 1
      /\ \A i \in 1..Len(s) : t[i] = s[i]
      /\ t[Len(s) + 1] = x
  BY Append1
<1> HIDE DEF t
<1>2. SUFFICES ASSUME NEW i \in 1..Len(t), NEW j \in 1..Len(t), i < j, t[i] \in A
               PROVE  t[j] \in B
  BY DEF Follows, t
<1>3. i \in 1..Len(s) /\ s[i] \in A
  BY <1>1, <1>2
<1>4. CASE j \in 1..Len(s)
  BY <1>1, <1>2, <1>3, <1>4 DEF Follows
<1>5. CASE j = Len(s) + 1
  BY <1>1, <1>3, <1>5 DEF Each
<1> QED
  BY <1>1, <1>4, <1>5

\* It joins if it is not in A, or if f is in the queue already.
LEMMA HeraldedAppend ==
  ASSUME NEW s \in Seq(Frame), NEW x \in Frame, NEW A, NEW f, Heralded(s, A, f),
         x \notin A \/ Has(s, f)
  PROVE  Heralded(Append(s, x), A, f)
<1> DEFINE t == Append(s, x)
<1>1. /\ Len(s) \in Nat /\ Len(t) = Len(s) + 1
      /\ \A i \in 1..Len(s) : t[i] = s[i] /\ i \in 1..Len(t)
      /\ t[Len(s) + 1] = x
  BY Append1
<1> HIDE DEF t
<1>2. SUFFICES ASSUME NEW j \in 1..Len(t), t[j] \in A
               PROVE  \E i \in 1..Len(t) : i < j /\ t[i] = f
  BY DEF Heralded, t
<1>3. CASE j \in 1..Len(s)
  <2>1. PICK i \in 1..Len(s) : i < j /\ s[i] = f
    BY <1>1, <1>2, <1>3 DEF Heralded
  <2> QED
    BY <1>1, <2>1
<1>4. CASE j = Len(s) + 1
  <2>1. PICK i \in 1..Len(s) : s[i] = f
    BY <1>1, <1>2, <1>4 DEF Has
  <2>2. i < j
    BY <1>1, <1>4
  <2> QED
    BY <1>1, <2>1, <2>2
<1> QED
  BY <1>1, <1>3, <1>4

-----------------------------------------------------------------------------
(* The limits of the refinement.  Without any one of them TLC finds a step *)
(* of the link that is no step of the service.  Faults befall commands of  *)
(* one block only: a block lost from a chain is answered with the response *)
(* to the command before, or skipped.  The command fits iso_dep_command:   *)
(* else the engine is handed its tail.  No wrapper lies about its length:  *)
(* the listener answers that command itself, without the engine.           *)
LinkWithinLimits ==
  /\ LossyBlocks <= 1
  /\ \A n \in BlockCounts : n <= CommandCap
  /\ "wrapped_bad" \notin CommandClasses

\* The block number of block k of a command whose block n has number b.
Alternate(k, n, b) == IF k % 2 = n % 2 THEN b ELSE 1 - b
BlockNo(k) == Alternate(k, sent, reader_block)

\* Block k of the current command.
BlockK(k) == Block("I", BlockNo(k), k < blocks, reader_cid, <<<<serial, k>>>>)

\* Classes of frames.
OldFrames(b, n, c) ==
  {f \in Frame : /\ f.kind \in {"I", "R"} /\ f.bn = b /\ f.cid = c
                 /\ f.kind = "I" => f.data # <<>> /\ f.data[1][1] <= n}
Farewells(c) == {f \in Frame : f.kind = "S" /\ f.cid = c}
NoFarewell == {f \in Frame : f.kind # "S"}
OldAnswers(b) == {f \in Frame : f.kind = "I" /\ f.bn = b}
Acks(bs) == {f \in Frame : f.kind = "R" /\ ~f.flag /\ f.bn \in bs}

-----------------------------------------------------------------------------
(* The inductive invariant.                                                *)
Mode == {"idle", "sending", "receiving", "deselecting"}

\* An issued command, whole.
Issued(c) == \E s \in 1..serial, n \in BlockCounts : c = CommandOf(s, n)

CardTypeOK ==
  /\ last_response_valid \in BOOLEAN
  /\ expected_pcd_block \in Bit /\ picc_block \in Bit
  /\ last_frame \in Frame
  /\ command \in Seq(Octet)
  /\ response_offset \in Nat
  /\ tx_buffer \in TxBuffer
  /\ executed \in Seq(Seq(Octet))

ReaderTypeOK ==
  /\ mode \in Mode
  /\ reader_block \in Bit
  /\ reader_cid \in Cids \cup {NoCid}
  /\ serial \in 0..MaxSerial
  /\ blocks \in Nat /\ sent \in Nat
  /\ received \in Seq(Octet)
  /\ to_card \in Seq(Frame) /\ to_reader \in Seq(Frame)
  /\ ran \in Seq(Seq(Octet))

\* The card's session is the reader's: its CID is the reader's once it is bound,
\* and what it keeps for retransmission is the I-block it numbered last.
SessionOK ==
  /\ cid \in {reader_cid, NoCid}
  /\ last_response_valid =>
       /\ cid = reader_cid /\ tx_buffer.cid = reader_cid
       /\ last_frame.kind = "I" /\ last_frame.bn = picc_block
       /\ last_frame.cid = reader_cid
  /\ ~last_response_valid => picc_block = 1 /\ response_offset = 0
  /\ command # <<>> => cid = reader_cid

\* What the engine was handed: whole commands, each at most once.
RanOK ==
  /\ \A k \in 1..Len(ran) : Issued(ran[k])
  /\ \A i, j \in 1..Len(ran) : i < j => ran[i][1][1] < ran[j][1][1]

Common == CardTypeOK /\ ReaderTypeOK /\ SessionOK /\ RanOK

\* The engine has run the outstanding command and written the response to it.
EngineAnswered ==
  /\ serial >= 1 /\ blocks \in BlockCounts
  /\ Len(ran) # 0 /\ ran[Len(ran)] = CommandOf(serial, blocks)
  /\ \E n \in ReplyLengths : tx_buffer.data = Reply(CommandOf(serial, 1), n)

\* Between two commands.
IdlePhase ==
  /\ mode = "idle"
  /\ picc_block = 1 - reader_block /\ expected_pcd_block = reader_block
  /\ response_offset = 0 /\ command = <<>>
  /\ Each(to_card, OldFrames(1 - reader_block, serial, reader_cid))
  /\ Each(to_reader, OldAnswers(1 - reader_block))
  /\ last_response_valid \/ (to_card = <<>> /\ to_reader = <<>>)

\* The reader says goodbye; once the card has, only goodbyes are on their way.
DeselectPhase ==
  /\ mode = "deselecting"
  /\ response_offset = 0 /\ command = <<>>
  /\ IF last_response_valid
       THEN /\ picc_block = 1 - reader_block /\ expected_pcd_block = reader_block
            /\ Each(to_card, OldFrames(1 - reader_block, serial, reader_cid) \cup Farewells(reader_cid))
            /\ Each(to_reader, NoFarewell)
       ELSE expected_pcd_block = 0 /\ Each(to_card, Farewells(reader_cid))
  /\ Follows(to_card, Farewells(reader_cid), Farewells(reader_cid))

\* The card has gathered the first g = Len(command) blocks of the command.
Stale == OldFrames(BlockNo(0), serial - 1, reader_cid)
BlocksFrom(g) == {BlockK(k) : k \in {l \in 1..sent : l >= g}}
FirstNak == Nak(BlockNo(1), reader_cid)

GatheredOK(g) ==
  /\ picc_block = BlockNo(0) /\ expected_pcd_block = BlockNo(g + 1)
  /\ response_offset = 0 /\ received = <<>>
  /\ command = CommandOf(serial, g) /\ g < blocks /\ g <= sent
  /\ serial >= 1 /\ blocks \in BlockCounts /\ sent \in 1..blocks
  /\ \A k \in 1..Len(ran) : ran[k][1][1] < serial

\* On the way to the card are blocks of this command in their order, none missing
\* that the card lacks unless the command has only one, R(NAK)s, and frames that
\* are older than the command.  These reach the card before the first block or
\* after the last one.
ToCardOK(g) ==
  /\ Each(to_card, BlocksFrom(g) \cup {FirstNak} \cup Stale)
  /\ \A l \in 1..sent : \A k \in 1..sent : k < l =>
       Follows(to_card, {BlockK(l)}, Frame \ {BlockK(k)})
  /\ blocks > 1 => \A k \in 1..sent : k > g => Has(to_card, BlockK(k))
  /\ blocks % 2 = 0 => \A k \in 2..sent :
       Follows(to_card, {BlockK(k)}, Frame \ {FirstNak})
  /\ g = 0 => /\ Follows(to_card, {BlockK(1)}, Frame \ Stale)
              /\ last_response_valid \/ Each(to_card, Frame \ Stale)
  /\ g # 0 => /\ Heralded(to_card, Stale, BlockK(blocks))
              /\ blocks % 2 = 1 => Each(to_card, Frame \ Stale)

\* On the way back are old answers, while only the first block has been sent, and
\* acknowledgements; the first block's only after it was gathered, and behind it
\* nothing old.
ToReaderOK(g) ==
  /\ Each(to_reader, OldAnswers(BlockNo(0)) \cup Acks(Bit))
  /\ g = 0 => Each(to_reader, Frame \ Acks({BlockNo(1)}))
  /\ Follows(to_reader, Acks({BlockNo(1)}), Acks(Bit))
  /\ sent >= 2 => g # 0 /\ Each(to_reader, Acks(Bit)) /\ ~Quiet

SendingPhase ==
  /\ mode = "sending"
  /\ GatheredOK(Len(command)) /\ ToCardOK(Len(command)) /\ ToReaderOK(Len(command))

\* The card has answered the block the reader waits for: what the reader has so
\* far and the frame kept for retransmission are the response up to the chunk
\* that comes next.
AnsweredPhase ==
  /\ Outstanding /\ EngineAnswered
  /\ last_response_valid /\ command = <<>> /\ sent = blocks
  /\ picc_block = reader_block /\ expected_pcd_block = 1 - reader_block
  /\ received \o last_frame.data = SubSeq(tx_buffer.data, 1, KeptEnd(tx_buffer, response_offset))
  /\ last_frame.flag = (response_offset # 0)
  /\ response_offset # 0 => response_offset < Len(tx_buffer.data)
  /\ Each(to_card, OldFrames(reader_block, serial, reader_cid))
  /\ Each(to_reader, OldAnswers(1 - reader_block) \cup Acks(Bit) \cup {last_frame})
  /\ Follows(to_reader, {last_frame}, {last_frame})

\* The reader has acknowledged a chunk that is not the last.
FetchingPhase ==
  /\ mode = "receiving" /\ EngineAnswered
  /\ last_response_valid /\ command = <<>> /\ sent = blocks
  /\ picc_block = 1 - reader_block /\ expected_pcd_block = reader_block
  /\ response_offset # 0 /\ response_offset < Len(tx_buffer.data)
  /\ received = SubSeq(tx_buffer.data, 1, response_offset)
  /\ Each(to_card, OldFrames(1 - reader_block, serial, reader_cid) \cup {Ack(reader_block, reader_cid)})
  /\ Follows(to_card, {Ack(reader_block, reader_cid)}, {Ack(reader_block, reader_cid)})
  /\ Each(to_reader, OldAnswers(1 - reader_block))

LinkInv ==
  /\ Common
  /\ IdlePhase \/ DeselectPhase \/ SendingPhase \/ AnsweredPhase \/ FetchingPhase

-----------------------------------------------------------------------------
(* Numbers and frames.                                                     *)

\* Block numbers alternate, and stay the same when block n is followed by n + 1.
LEMMA Alternation ==
  ASSUME NEW n \in Nat, NEW k \in Nat, NEW l \in Nat, NEW b \in Bit
  PROVE  /\ Alternate(k, n, b) \in Bit
         /\ Alternate(k + 1, n, b) = 1 - Alternate(k, n, b)
         /\ Alternate(n, n, b) = b
         /\ Alternate(k, n + 1, 1 - b) = Alternate(k, n, b)
         /\ (Alternate(k, n, b) = Alternate(l, n, b)) <=> (k % 2 = l % 2)
<1>1. \A m \in Nat : m % 2 \in {0, 1} /\ (m + 1) % 2 = 1 - (m % 2)
  OBVIOUS
<1>2. b \in {0, 1} /\ 1 - b \in {0, 1} /\ 1 - (1 - b) = b /\ b # 1 - b
  BY DEF Bit
<1>3. k % 2 \in {0, 1} /\ n % 2 \in {0, 1} /\ l % 2 \in {0, 1}
  BY <1>1
<1>4. (k + 1) % 2 = 1 - (k % 2) /\ (n + 1) % 2 = 1 - (n % 2)
  BY <1>1
<1> QED
  BY <1>2, <1>3, <1>4 DEF Alternate, Bit

\* The two block numbers.
LEMMA Bits == \A b \in Bit : 1 - b \in Bit /\ 1 - (1 - b) = b /\ b # 1 - b /\ 1 - b # b
BY DEF Bit

\* The octets of a command or of a response to it.
LEMMA CommandType ==
  ASSUME NEW s \in Nat, NEW n \in Nat
  PROVE  /\ CommandOf(s, n) \in Seq(Octet) /\ Len(CommandOf(s, n)) = n
         /\ n # 0 => CommandOf(s, n) # <<>> /\ CommandOf(s, n)[1] = <<s, 1>> /\ CommandOf(s, n)[1][1] = s
         /\ n = 0 => CommandOf(s, n) = <<>>
<1>1. \A i \in 1..n : <<s, i>> \in Octet
  BY DEF Octet
<1>2. [i \in 1..n |-> <<s, i>>] \in Seq(Octet) /\ Len([i \in 1..n |-> <<s, i>>]) = n
  BY <1>1, IsASeq
<1>3. CommandOf(s, n) \in Seq(Octet) /\ Len(CommandOf(s, n)) = n
  BY <1>2 DEF CommandOf
<1>4. n # 0 => 1 \in 1..n
  OBVIOUS
<1>5. n # 0 => CommandOf(s, n)[1] = <<s, 1>>
  BY <1>4 DEF CommandOf
<1>6. n # 0 => CommandOf(s, n) # <<>>
  BY <1>3, EmptySeq
<1>7. n = 0 => CommandOf(s, n) = <<>>
  BY <1>3, EmptySeq
<1> QED
  BY <1>3, <1>5, <1>6, <1>7

\* The command grows by one octet with each block.
LEMMA CommandGrows ==
  ASSUME NEW s \in Nat, NEW n \in Nat
  PROVE  CommandOf(s, n) \o <<<<s, n + 1>>>> = CommandOf(s, n + 1)
<1> DEFINE a == CommandOf(s, n)
           b == <<<<s, n + 1>>>>
           c == CommandOf(s, n + 1)
<1>1. a \in Seq(Octet) /\ Len(a) = n /\ c \in Seq(Octet) /\ Len(c) = n + 1
  BY CommandType
<1>2. b \in Seq(Octet) /\ Len(b) = 1 /\ b[1] = <<s, n + 1>>
  BY DEF Octet
<1>3. /\ \A i \in 1..n : a[i] = <<s, i>>
      /\ \A i \in 1..(n + 1) : c[i] = <<s, i>>
  BY DEF CommandOf
<1> HIDE DEF a, b, c
<1>4. /\ a \o b \in Seq(Octet) /\ Len(a \o b) = Len(a) + Len(b)
      /\ \A i \in 1..(Len(a) + Len(b)) :
           (a \o b)[i] = IF i <= Len(a) THEN a[i] ELSE b[i - Len(a)]
  BY <1>1, <1>2, ConcatProperties
<1>5. \A i \in 1..(n + 1) : (a \o b)[i] = c[i]
  <2> TAKE i \in 1..(n + 1)
  <2>0. i \in 1..(Len(a) + Len(b)) /\ c[i] = <<s, i>>
    BY <1>1, <1>2, <1>3
  <2>1. CASE i <= n
    <3>1. i \in 1..n
      BY <2>1
    <3>2. (a \o b)[i] = a[i]
      BY <2>0, <2>1, <1>1, <1>4
    <3> QED
      BY <3>1, <3>2, <2>0, <1>3
  <2>2. CASE i = n + 1
    <3>1. i - n = 1 /\ ~(i <= n)
      BY <2>2
    <3>2. (a \o b)[i] = b[i - n]
      BY <2>0, <3>1, <1>1, <1>4
    <3>3. (a \o b)[i] = b[1]
      BY <3>1, <3>2
    <3>4. b[1] = <<s, i>>
      BY <1>2, <2>2
    <3> QED
      BY <3>3, <3>4, <2>0
  <2>3. i <= n \/ i = n + 1
    OBVIOUS
  <2> QED
    BY <2>1, <2>2, <2>3
<1>6. Len(a \o b) = Len(c) /\ \A i \in 1..Len(a \o b) : (a \o b)[i] = c[i]
  BY <1>1, <1>2, <1>4, <1>5
<1> QED
  BY <1>1, <1>4, <1>6, SeqEqual DEF a, b, c

\* Equal commands are the same command.
LEMMA CommandIsUnique ==
  ASSUME NEW s \in Nat, NEW n \in Nat \ {0}, NEW t \in Nat, NEW m \in Nat \ {0},
         CommandOf(s, n) = CommandOf(t, m)
  PROVE  s = t /\ n = m
<1>1. CommandOf(s, n)[1][1] = s /\ CommandOf(t, m)[1][1] = t
  BY CommandType
<1>2. Len(CommandOf(s, n)) = n /\ Len(CommandOf(t, m)) = m
  BY CommandType
<1> QED
  BY <1>1, <1>2

\* The blocks of a command are frames, and no two are the same.
LEMMA BlockKType ==
  ASSUME ReaderTypeOK, NEW k \in Nat
  PROVE  /\ BlockK(k) \in Frame /\ BlockNo(k) \in Bit
         /\ BlockK(k).kind = "I" /\ BlockK(k).bn = BlockNo(k) /\ BlockK(k).cid = reader_cid
         /\ BlockK(k).flag = (k < blocks) /\ BlockK(k).data = <<<<serial, k>>>>
         /\ BlockK(k).data # <<>> /\ BlockK(k).data[1][1] = serial /\ BlockK(k).data[1][2] = k
<1>1. serial \in Nat /\ sent \in Nat /\ reader_block \in Bit /\ reader_cid \in Cids \cup {NoCid}
  BY LinkAssumption DEF ReaderTypeOK
<1>2. BlockNo(k) \in Bit
  BY <1>1, Alternation DEF BlockNo
<1>3. <<<<serial, k>>>> \in Seq(Octet) /\ (k < blocks) \in BOOLEAN /\ "I" \in FrameKind
  BY <1>1 DEF Octet, FrameKind
<1>4. BlockK(k) \in Frame
  BY <1>1, <1>2, <1>3, BlockIsFrame DEF BlockK
<1> QED
  BY <1>2, <1>4 DEF BlockK, Block

-----------------------------------------------------------------------------
(* What the listener does with the next frame, as the reader sees it.      *)

\* The handler that runs, and the answer it gives.
LEMMA NextFrame ==
  ASSUME Common, CardReceives
  PROVE  /\ to_card # <<>> /\ to_card \in Seq(Frame) /\ to_reader \in Seq(Frame)
         /\ Head(to_card) \in Frame /\ Receive(Head(to_card))
         /\ air' = <<>> => Ignore(Head(to_card))
         /\ to_card' = Tail(to_card) /\ to_reader' = to_reader \o air'
         /\ UNCHANGED <<reader, faults, results>>
<1>1. to_card # <<>> /\ to_card \in Seq(Frame) /\ to_reader \in Seq(Frame)
  BY DEF CardReceives, Common, ReaderTypeOK
<1>2. Head(to_card) \in Frame
  BY <1>1, Head1
<1> QED
  BY <1>1, <1>2 DEF CardReceives

\* What a handler transmits joins the queue to the reader.
LEMMA AnswerSent ==
  ASSUME Common, CardReceives, NEW f \in Frame, air' = <<f>>
  PROVE  to_reader' = Append(to_reader, f)
<1>1. to_reader' = to_reader \o <<f>> /\ to_reader \in Seq(Frame)
  BY NextFrame
<1> QED
  BY <1>1, AppendIsConcat

LEMMA NothingSent ==
  ASSUME Common, CardReceives, air' = <<>>
  PROVE  to_reader' = to_reader
<1>1. to_reader' = to_reader \o <<>> /\ to_reader \in Seq(Frame)
  BY NextFrame
<1> QED
  BY <1>1, ConcatEmptySeq

\* A step that hands the engine nothing leaves ran alone.
LEMMA EngineNotRun ==
  ASSUME Common, CardReceives, executed' = executed \/ executed' = <<>>
  PROVE  ran' = ran
<1>1. Len(executed) \in Nat /\ Len(<<>>) = 0
  BY LenProperties DEF Common, CardTypeOK
<1>2. ~(Len(executed') > Len(executed))
  BY <1>1
<1> QED
  BY <1>2 DEF CardReceives

\* A frame that carries the number of the last response, of either kind: the card
\* repeats that response and changes nothing (listener lines 146-151, 182-188).
LEMMA CardRepeats ==
  ASSUME Common, CardReceives, last_response_valid, command = <<>>,
         expected_pcd_block # picc_block,
         Head(to_card) \in OldFrames(picc_block, serial, reader_cid)
  PROVE  /\ UNCHANGED <<session, engine>> /\ ran' = ran
         /\ to_reader' = Append(to_reader, last_frame)
<1> DEFINE f == Head(to_card)
<1>1. f \in Frame /\ Receive(f) /\ (air' = <<>> => Ignore(f))
  BY NextFrame
<1>2. f.kind \in {"I", "R"} /\ f.bn = picc_block /\ f.cid = cid /\ f.cid = reader_cid
  BY DEF OldFrames, Common, SessionOK
<1> HIDE DEF f
<1>3. ~Ignore(f)
  BY <1>2 DEF Ignore, Resendable, ForThisCard
<1>4. ~ReceivePps(f) /\ ~Deselect(f) /\ ~ContinueResponse(f) /\ ~AcknowledgeNak(f)
  BY <1>2 DEF ReceivePps, Deselect, ContinueResponse, AcknowledgeNak, Resendable
<1>5. /\ ~AnswerUnexpectedBlock(f) /\ ~RefuseBlock(f) /\ ~DropOverflow(f)
      /\ ~GatherBlock(f) /\ ~HandleCommand(f)
  BY <1>2 DEF AnswerUnexpectedBlock, RefuseBlock, DropOverflow, GatherBlock, HandleCommand, Acceptable
<1>6. ResendForRBlock(f) \/ RepeatResponse(f)
  BY <1>1, <1>3, <1>4, <1>5 DEF Receive, ReceiveR, ReceiveI
<1>7. UNCHANGED <<session, engine>> /\ air' = <<last_frame>>
  BY <1>1, <1>2, <1>3, <1>6
     DEF ResendForRBlock, RepeatResponse, Transmit, LearnCid, session
<1>8. last_frame \in Frame /\ executed' = executed
  BY <1>7 DEF Common, CardTypeOK, engine
<1> QED
  BY <1>7, <1>8, AnswerSent, EngineNotRun

\* S(DESELECT) under the session's CID ends the session and is echoed; under
\* another CID nothing happens (listener lines 162-175).
LEMMA CardDeselects ==
  ASSUME Common, CardReceives, Head(to_card) \in Farewells(reader_cid)
  PROVE  /\ UNCHANGED <<last_frame, tx_buffer>> /\ executed' \in {executed, <<>>} /\ ran' = ran
         /\ \/ /\ last_response_valid' = FALSE /\ expected_pcd_block' = 0 /\ picc_block' = 1
               /\ command' = <<>> /\ response_offset' = 0 /\ cid' = NoCid /\ cid = reader_cid
               /\ to_reader' = Append(to_reader, Head(to_card))
            \/ /\ UNCHANGED <<session, to_reader>> /\ cid # reader_cid
<1> DEFINE f == Head(to_card)
<1>1. f \in Frame /\ Receive(f) /\ (air' = <<>> => Ignore(f))
  BY NextFrame
<1>2. f.kind = "S" /\ f.cid = reader_cid
  BY DEF Farewells
<1> HIDE DEF f
<1>3. ~ReceivePps(f) /\ ~ReceiveR(f) /\ ~ReceiveI(f)
  BY <1>2 DEF ReceivePps, ReceiveR, ResendForRBlock, ContinueResponse, AcknowledgeNak,
     ReceiveI, RepeatResponse, AnswerUnexpectedBlock, RefuseBlock, DropOverflow, GatherBlock,
     HandleCommand, ForThisCard
<1>4. CASE Ignore(f)
  <2>1. cid # reader_cid /\ air' = <<>> /\ UNCHANGED <<session, engine>>
    BY <1>2, <1>4 DEF Ignore, Silent
  <2>2. to_reader' = to_reader /\ ran' = ran
    BY <2>1, NothingSent, EngineNotRun DEF engine
  <2> QED
    BY <2>1, <2>2 DEF session, engine
<1>5. CASE Deselect(f) /\ ~Ignore(f)
  <2>1. /\ air' = <<f>> /\ executed' = <<>> /\ UNCHANGED <<last_frame, tx_buffer>>
        /\ last_response_valid' = FALSE /\ expected_pcd_block' = 0 /\ picc_block' = 1
        /\ command' = <<>> /\ response_offset' = 0 /\ cid' = NoCid /\ cid = reader_cid
    BY <1>1, <1>2, <1>5 DEF Deselect, Transmit, ResetActivation, ResetSession
  <2>2. to_reader' = Append(to_reader, f) /\ ran' = ran
    BY <1>1, <2>1, AnswerSent, EngineNotRun
  <2> QED
    BY <2>1, <2>2 DEF f
<1> QED
  BY <1>1, <1>3, <1>4, <1>5 DEF Receive

\* R(NAK) for a block the card has not answered: it acknowledges the last one it
\* received, if it knows the CID (lines 145, 156-159).
LEMMA CardAcknowledgesNak ==
  ASSUME Common, CardReceives, NEW b \in Bit, b # picc_block,
         Head(to_card) = Nak(b, reader_cid)
  PROVE  /\ UNCHANGED <<session, engine>> /\ ran' = ran
         /\ \/ cid = reader_cid /\ to_reader' = Append(to_reader, Ack(picc_block, reader_cid))
            \/ cid # reader_cid /\ to_reader' = to_reader
<1> DEFINE f == Head(to_card)
<1>1. f \in Frame /\ Receive(f) /\ (air' = <<>> => Ignore(f))
  BY NextFrame
<1>2. f.kind = "R" /\ f.cid = reader_cid /\ f.bn = b /\ f.flag
  BY DEF Nak, Block
<1> HIDE DEF f
<1>3. ~ReceivePps(f) /\ ~ResendForRBlock(f) /\ ~ContinueResponse(f) /\ ~Deselect(f) /\ ~ReceiveI(f)
  BY <1>2 DEF ReceivePps, ResendForRBlock, ContinueResponse, Resendable, Deselect,
     ReceiveI, RepeatResponse, AnswerUnexpectedBlock, RefuseBlock, DropOverflow, GatherBlock,
     HandleCommand, ForThisCard
<1>4. CASE Ignore(f)
  <2>1. cid # reader_cid /\ air' = <<>> /\ UNCHANGED <<session, engine>>
    BY <1>2, <1>4 DEF Ignore, Silent
  <2>2. to_reader' = to_reader /\ ran' = ran
    BY <2>1, NothingSent, EngineNotRun DEF engine
  <2> QED
    BY <2>1, <2>2
<1>5. CASE AcknowledgeNak(f) /\ ~Ignore(f)
  <2>1. air' = <<Ack(picc_block, reader_cid)>> /\ cid = reader_cid /\ UNCHANGED <<session, engine>>
    BY <1>1, <1>2, <1>5 DEF AcknowledgeNak, Transmit
  <2>2. Ack(picc_block, reader_cid) \in Frame
    BY ControlBlocks DEF Common, CardTypeOK, ReaderTypeOK
  <2>3. to_reader' = Append(to_reader, Ack(picc_block, reader_cid)) /\ ran' = ran
    BY <2>1, <2>2, AnswerSent, EngineNotRun DEF engine
  <2> QED
    BY <2>1, <2>3
<1> QED
  BY <1>1, <1>3, <1>4, <1>5 DEF Receive, ReceiveR

\* The block that was gathered last, once more: it is acknowledged once more
\* (lines 182-198).
LEMMA CardReacknowledges ==
  ASSUME Common, CardReceives, command # <<>>,
         NEW f \in Frame, Head(to_card) = f, f.kind = "I", f.cid = reader_cid,
         f.bn # expected_pcd_block
  PROVE  /\ UNCHANGED <<session, engine>> /\ ran' = ran
         /\ to_reader' = Append(to_reader, Ack(f.bn, reader_cid))
<1>1. Receive(f) /\ (air' = <<>> => Ignore(f))
  BY NextFrame
<1>2. f.cid = cid
  BY DEF Common, SessionOK
<1>3. ~ReceivePps(f) /\ ~ReceiveR(f) /\ ~Deselect(f) /\ ~Ignore(f)
  BY <1>2 DEF ReceivePps, ReceiveR, ResendForRBlock, ContinueResponse, AcknowledgeNak, Deselect,
     Ignore, ForThisCard
<1>4. ~RepeatResponse(f) /\ ~RefuseBlock(f) /\ ~DropOverflow(f) /\ ~GatherBlock(f) /\ ~HandleCommand(f)
  BY DEF RepeatResponse, RefuseBlock, DropOverflow, GatherBlock, HandleCommand, Acceptable
<1>5. AnswerUnexpectedBlock(f)
  BY <1>1, <1>3, <1>4 DEF Receive, ReceiveI
<1>6. air' = <<Ack(f.bn, reader_cid)>> /\ UNCHANGED <<session, engine>>
  BY <1>1, <1>2, <1>3, <1>5 DEF AnswerUnexpectedBlock, Transmit, LearnCid, session
<1>7. Ack(f.bn, reader_cid) \in Frame
  BY ControlBlocks DEF Common, ReaderTypeOK, Frame
<1> QED
  BY <1>6, <1>7, AnswerSent, EngineNotRun DEF engine

\* The next block of a chained command: gathered and acknowledged (lines 218-235).
LEMMA CardGathers ==
  ASSUME Common, CardReceives, response_offset = 0,
         NEW f \in Frame, Head(to_card) = f, f.kind = "I", f.cid = reader_cid,
         f.bn = expected_pcd_block, f.flag, f.data # <<>>,
         Len(f.data) + Len(command) <= CommandCap
  PROVE  /\ command' = command \o f.data /\ expected_pcd_block' = 1 - expected_pcd_block
         /\ UNCHANGED <<last_response_valid, picc_block, last_frame, response_offset, engine>>
         /\ cid' = reader_cid /\ ran' = ran
         /\ to_reader' = Append(to_reader, Ack(f.bn, reader_cid))
<1>1. Receive(f) /\ (air' = <<>> => Ignore(f))
  BY NextFrame
<1>2. ForThisCard(f)
  BY DEF Common, SessionOK, ForThisCard, SessionBound
<1>3. ~Overflows(f)
  <2>1. Len(f.data) \in Nat /\ Len(command) \in Nat
    BY LenProperties DEF Common, CardTypeOK, Frame
  <2> QED
    BY <2>1, FrameAssumption DEF Overflows
<1>4. ~ReceivePps(f) /\ ~ReceiveR(f) /\ ~Deselect(f) /\ ~Ignore(f)
  BY <1>2 DEF ReceivePps, ReceiveR, ResendForRBlock, ContinueResponse, AcknowledgeNak, Deselect, Ignore
<1>5. /\ ~RepeatResponse(f) /\ ~AnswerUnexpectedBlock(f) /\ ~RefuseBlock(f)
      /\ ~DropOverflow(f) /\ ~HandleCommand(f)
  BY <1>3 DEF RepeatResponse, AnswerUnexpectedBlock, RefuseBlock, DropOverflow, HandleCommand
<1>6. GatherBlock(f)
  BY <1>1, <1>4, <1>5 DEF Receive, ReceiveI
<1>7. /\ air' = <<Ack(f.bn, reader_cid)>>
      /\ command' = command \o f.data /\ expected_pcd_block' = 1 - expected_pcd_block
      /\ UNCHANGED <<last_response_valid, picc_block, last_frame, response_offset, engine>>
      /\ cid' = reader_cid
  BY <1>1, <1>4, <1>6 DEF GatherBlock, Transmit, LearnCid, Gathered
<1>8. Ack(f.bn, reader_cid) \in Frame
  BY ControlBlocks DEF Common, ReaderTypeOK, Frame
<1> QED
  BY <1>7, <1>8, AnswerSent, EngineNotRun DEF engine

\* The chunk cut at an offset of a response: where it ends, and what is kept
\* (send_next_i_response, lines 65-86).
LEMMA ChunkCut ==
  ASSUME NEW tx \in TxBuffer, NEW offset \in Nat, offset <= Len(tx.data), NEW bn \in Bit,
         SendNextIResponse(tx, offset, bn)
  PROVE  /\ last_response_valid' = TRUE /\ picc_block' = bn
         /\ last_frame' \in Frame /\ last_frame'.kind = "I" /\ last_frame'.bn = bn
         /\ last_frame'.cid = tx.cid /\ last_frame'.flag = (response_offset' # 0)
         /\ response_offset' \in Nat /\ (response_offset' # 0 => response_offset' < Len(tx.data))
         /\ SubSeq(tx.data, 1, offset) \o last_frame'.data
              = SubSeq(tx.data, 1, KeptEnd(tx, response_offset'))
         /\ air' = <<last_frame'>> \/ air' = <<>>
<1> DEFINE end == ChunkEnd(tx, offset)
           more == end < Len(tx.data)
           chunk == SubSeq(tx.data, offset + 1, end)
<1>1. /\ end \in Nat /\ offset <= end /\ end <= Len(tx.data)
      /\ more => end # 0
  BY ChunkEndBounds
<1>2. /\ tx.data \in Seq(Octet) /\ tx.cid \in Cids \cup {NoCid} /\ Len(tx.data) \in Nat
  BY LenProperties DEF TxBuffer
<1>3. /\ last_frame' = Block("I", bn, more, tx.cid, chunk)
      /\ response_offset' = IF more THEN end ELSE 0
      /\ last_response_valid' = TRUE /\ picc_block' = bn
      /\ air' = <<last_frame'>> \/ air' = <<>>
  BY DEF SendNextIResponse, Transmit
<1> HIDE DEF end
<1>4. chunk \in Seq(Octet)
  BY <1>1, <1>2, Slice
<1>5. SubSeq(tx.data, 1, offset) \o chunk = SubSeq(tx.data, 1, end)
  <2>1. 1 \in 1..(Len(tx.data) + 1) /\ offset \in (1 - 1)..Len(tx.data) /\ end \in offset..Len(tx.data)
    BY <1>1, <1>2
  <2> QED
    BY <1>2, <2>1, ConcatAdjacentSubSeq
<1>6. (response_offset' # 0) = more /\ KeptEnd(tx, response_offset') = end
  BY <1>1, <1>2, <1>3 DEF KeptEnd
<1> HIDE DEF more, chunk
<1>7. more \in BOOLEAN /\ "I" \in FrameKind
  BY DEF more, FrameKind
<1>8. last_frame' \in Frame
  BY <1>2, <1>3, <1>4, <1>7, BlockIsFrame
<1>9. /\ last_frame'.kind = "I" /\ last_frame'.bn = bn /\ last_frame'.cid = tx.cid
      /\ last_frame'.flag = more /\ last_frame'.data = chunk
  BY <1>3 DEF Block
<1>10. response_offset' \in Nat /\ (response_offset' # 0 => response_offset' < Len(tx.data))
  BY <1>1, <1>3, <1>6 DEF more
<1> QED
  BY <1>3, <1>5, <1>6, <1>8, <1>9, <1>10

\* The last or only block: the engine is handed the command, and the first chunk of
\* what it writes goes out under the number of the block (lines 236-313).
LEMMA CardRuns ==
  ASSUME LinkWithinLimits, Common, CardReceives, response_offset = 0,
         NEW f \in Frame, Head(to_card) = f, f.kind = "I", f.cid = reader_cid,
         f.bn = expected_pcd_block, ~f.flag, f.data # <<>>,
         Len(f.data) + Len(command) <= CommandCap
  PROVE  /\ command' = <<>> /\ expected_pcd_block' = 1 - expected_pcd_block
         /\ picc_block' = expected_pcd_block /\ last_response_valid' = TRUE /\ cid' = reader_cid
         /\ tx_buffer' \in TxBuffer /\ tx_buffer'.cid = reader_cid
         /\ \E n \in ReplyLengths : tx_buffer'.data = Reply(command \o f.data, n)
         /\ last_frame' \in Frame /\ last_frame'.kind = "I" /\ last_frame'.bn = expected_pcd_block
         /\ last_frame'.cid = reader_cid /\ last_frame'.flag = (response_offset' # 0)
         /\ response_offset' \in Nat
         /\ response_offset' # 0 => response_offset' < Len(tx_buffer'.data)
         /\ last_frame'.data = SubSeq(tx_buffer'.data, 1, KeptEnd(tx_buffer', response_offset'))
         /\ executed' \in Seq(Seq(Octet)) /\ ran' = Append(ran, command \o f.data)
         /\ to_reader' = Append(to_reader, last_frame')
<1> DEFINE apdu == command \o f.data
<1>0. /\ f.data \in Seq(Octet) /\ command \in Seq(Octet) /\ f.cid \in Cids \cup {NoCid}
      /\ expected_pcd_block \in Bit /\ executed \in Seq(Seq(Octet))
  BY DEF Common, CardTypeOK, Frame
<1>1. Receive(f) /\ (air' = <<>> => Ignore(f))
  BY NextFrame
<1>2. ForThisCard(f)
  BY DEF Common, SessionOK, ForThisCard, SessionBound
<1>3. Len(f.data) \in Nat /\ Len(command) \in Nat /\ CommandCap \in Nat /\ ~Overflows(f)
  BY <1>0, LenProperties, FrameAssumption DEF Overflows
<1>4. ~ReceivePps(f) /\ ~ReceiveR(f) /\ ~Deselect(f) /\ ~Ignore(f)
  BY <1>2 DEF ReceivePps, ReceiveR, ResendForRBlock, ContinueResponse, AcknowledgeNak, Deselect, Ignore
<1>5. /\ ~RepeatResponse(f) /\ ~AnswerUnexpectedBlock(f) /\ ~RefuseBlock(f)
      /\ ~DropOverflow(f) /\ ~GatherBlock(f)
  BY <1>3 DEF RepeatResponse, AnswerUnexpectedBlock, RefuseBlock, DropOverflow, GatherBlock
<1>6. HandleCommand(f)
  BY <1>1, <1>4, <1>5 DEF Receive, ReceiveI
<1>7. /\ apdu \in Seq(Octet) /\ apdu # <<>> /\ ~(Len(apdu) > CommandCap)
  <2>1. apdu \in Seq(Octet) /\ Len(apdu) = Len(command) + Len(f.data)
    BY <1>0, ConcatProperties
  <2>2. Len(f.data) # 0
    BY <1>0, EmptySeq
  <2>3. Len(<<>>) = 0
    BY EmptySeq
  <2> QED
    BY <2>1, <2>2, <2>3, <1>3
<1> HIDE DEF apdu
<1>8. RunCommand(apdu, f.cid) /\ command' = <<>> /\ cid' = reader_cid
  BY <1>6 DEF HandleCommand, LearnCid, Gathered, apdu
<1>9. PICK out \in Dispatch(apdu) :
        /\ executed' = IF out.runs THEN Append(executed, apdu) ELSE executed
        /\ SendIResponse([cid |-> f.cid, data |-> out.reply])
  BY <1>8 DEF RunCommand
<1>10. out.runs /\ out.reply \in Seq(Octet) /\ \E n \in ReplyLengths : out.reply = Reply(apdu, n)
  <2>1. out.reply \in Seq(Octet)
    BY <1>7, DispatchType
  <2>2. \/ out \in Engine(apdu, {"None", "AppSelected"})
        \/ out \in Engine(apdu, {"None", "Emulate"})
    BY <1>7 DEF Dispatch, LinkWithinLimits
  <2>3. \A events : out \in Engine(apdu, events) => \E n \in ReplyLengths : out.reply = Reply(apdu, n) /\ out.runs
    BY DEF Engine
  <2> QED
    BY <2>1, <2>2, <2>3
<1> DEFINE tx == [cid |-> f.cid, data |-> out.reply]
<1>11. /\ tx \in TxBuffer /\ tx_buffer' = tx /\ tx.cid = reader_cid /\ tx.data = out.reply
       /\ SendNextIResponse(tx, 0, expected_pcd_block)
       /\ expected_pcd_block' = 1 - expected_pcd_block
  BY <1>0, <1>9, <1>10 DEF SendIResponse, TxBuffer
<1> HIDE DEF tx
<1>12. 0 \in Nat /\ 0 <= Len(tx.data) /\ tx.data \in Seq(Octet)
  BY <1>11, LenProperties DEF TxBuffer
<1>13. /\ last_response_valid' = TRUE /\ picc_block' = expected_pcd_block
       /\ last_frame' \in Frame /\ last_frame'.kind = "I" /\ last_frame'.bn = expected_pcd_block
       /\ last_frame'.cid = tx.cid /\ last_frame'.flag = (response_offset' # 0)
       /\ response_offset' \in Nat /\ (response_offset' # 0 => response_offset' < Len(tx.data))
       /\ SubSeq(tx.data, 1, 0) \o last_frame'.data
            = SubSeq(tx.data, 1, KeptEnd(tx, response_offset'))
       /\ air' = <<last_frame'>> \/ air' = <<>>
  BY <1>0, <1>11, <1>12, ChunkCut
<1>14. last_frame'.data = SubSeq(tx.data, 1, KeptEnd(tx, response_offset'))
  <2>1. SubSeq(tx.data, 1, 0) = <<>>
    BY SubSeqEmpty
  <2>2. last_frame'.data \in Seq(Octet)
    BY <1>13 DEF Frame
  <2>3. <<>> \o last_frame'.data = last_frame'.data
    BY <2>2, ConcatEmptySeq
  <2> QED
    BY <2>1, <2>3, <1>13
<1>15. to_reader' = Append(to_reader, last_frame')
  BY <1>1, <1>4, <1>13, AnswerSent
<1>16. executed' \in Seq(Seq(Octet)) /\ ran' = Append(ran, apdu)
  <2>1. executed' = Append(executed, apdu)
    BY <1>9, <1>10
  <2>2. /\ executed' \in Seq(Seq(Octet)) /\ Len(executed) \in Nat /\ Len(executed') = Len(executed) + 1
        /\ executed'[Len(executed) + 1] = apdu
    BY <1>0, <1>7, <2>1, AppendProperties, LenProperties
  <2>3. Len(executed') > Len(executed) /\ Last(executed') = apdu
    BY <2>2 DEF Last
  <2> QED
    BY <2>2, <2>3 DEF CardReceives
<1> QED
  BY <1>8, <1>10, <1>11, <1>13, <1>14, <1>15, <1>16 DEF apdu

\* R(ACK) for a chunk that is not the last: the next one follows (lines 152-155).
LEMMA CardContinues ==
  ASSUME Common, CardReceives, last_response_valid,
         response_offset # 0, response_offset < Len(tx_buffer.data),
         NEW b \in Bit, b # picc_block, Head(to_card) = Ack(b, reader_cid)
  PROVE  /\ UNCHANGED <<command, cid, engine>> /\ expected_pcd_block' = picc_block
         /\ picc_block' = 1 - picc_block /\ last_response_valid' = TRUE
         /\ last_frame' \in Frame /\ last_frame'.kind = "I" /\ last_frame'.bn = 1 - picc_block
         /\ last_frame'.cid = reader_cid /\ last_frame'.flag = (response_offset' # 0)
         /\ response_offset' \in Nat
         /\ response_offset' # 0 => response_offset' < Len(tx_buffer.data)
         /\ SubSeq(tx_buffer.data, 1, response_offset) \o last_frame'.data
              = SubSeq(tx_buffer.data, 1, KeptEnd(tx_buffer, response_offset'))
         /\ ran' = ran /\ to_reader' = Append(to_reader, last_frame')
<1> DEFINE f == Head(to_card)
<1>1. f \in Frame /\ Receive(f) /\ (air' = <<>> => Ignore(f))
  BY NextFrame
<1>2. f.kind = "R" /\ f.cid = reader_cid /\ f.bn = b /\ ~f.flag
  BY DEF Ack, Block
<1> HIDE DEF f
<1>3. cid = reader_cid /\ tx_buffer.cid = reader_cid /\ tx_buffer \in TxBuffer
      /\ response_offset \in Nat /\ picc_block \in Bit /\ 1 - picc_block \in Bit
  BY Bits DEF Common, SessionOK, CardTypeOK
<1>4. /\ ~ReceivePps(f) /\ ~ResendForRBlock(f) /\ ~AcknowledgeNak(f) /\ ~Deselect(f)
      /\ ~ReceiveI(f) /\ ~Ignore(f)
  BY <1>2, <1>3 DEF ReceivePps, ResendForRBlock, AcknowledgeNak, Resendable, Deselect, Ignore,
     ReceiveI, RepeatResponse, AnswerUnexpectedBlock, RefuseBlock, DropOverflow, GatherBlock,
     HandleCommand, ForThisCard
<1>5. ContinueResponse(f)
  BY <1>1, <1>4 DEF Receive, ReceiveR
<1>6. /\ SendNextIResponse(tx_buffer, response_offset, 1 - picc_block)
      /\ expected_pcd_block' = picc_block /\ UNCHANGED <<command, cid, engine>>
  BY <1>5 DEF ContinueResponse
<1>7. response_offset <= Len(tx_buffer.data)
  <2>1. Len(tx_buffer.data) \in Nat
    BY <1>3, LenProperties DEF TxBuffer
  <2> QED
    BY <1>3, <2>1
<1>8. /\ last_response_valid' = TRUE /\ picc_block' = 1 - picc_block
      /\ last_frame' \in Frame /\ last_frame'.kind = "I" /\ last_frame'.bn = 1 - picc_block
      /\ last_frame'.cid = tx_buffer.cid /\ last_frame'.flag = (response_offset' # 0)
      /\ response_offset' \in Nat
      /\ (response_offset' # 0 => response_offset' < Len(tx_buffer.data))
      /\ SubSeq(tx_buffer.data, 1, response_offset) \o last_frame'.data
           = SubSeq(tx_buffer.data, 1, KeptEnd(tx_buffer, response_offset'))
      /\ air' = <<last_frame'>> \/ air' = <<>>
  BY <1>3, <1>6, <1>7, ChunkCut
<1>9. to_reader' = Append(to_reader, last_frame') /\ ran' = ran
  BY <1>1, <1>4, <1>6, <1>8, AnswerSent, EngineNotRun DEF engine
<1> QED
  BY <1>3, <1>6, <1>8, <1>9

-----------------------------------------------------------------------------
(* The card's steps, phase by phase.                                       *)

\* A step of the card that leaves its session alone keeps what is common to all
\* phases.
LEMMA CardQuiet ==
  ASSUME Common, CardReceives, UNCHANGED <<session, engine>>, ran' = ran,
         NEW x \in Frame, to_reader' \in {to_reader, Append(to_reader, x)}
  PROVE  Common'
<1>1. /\ to_card \in Seq(Frame) /\ to_reader \in Seq(Frame) /\ to_card # <<>>
      /\ to_card' = Tail(to_card) /\ UNCHANGED reader
  BY NextFrame
<1>2. to_card' \in Seq(Frame) /\ to_reader' \in Seq(Frame)
  <2>1. Tail(to_card) \in Seq(Frame)
    BY <1>1, Head1
  <2>2. Append(to_reader, x) \in Seq(Frame)
    BY <1>1, AppendProperties
  <2> QED
    BY <1>1, <2>1, <2>2
<1>3. CardTypeOK'
  BY DEF Common, CardTypeOK, session, engine
<1>4. ReaderTypeOK'
  BY <1>1, <1>2 DEF Common, ReaderTypeOK, reader
<1>5. SessionOK'
  BY <1>1 DEF Common, SessionOK, session, engine, reader
<1>6. RanOK'
  BY <1>1 DEF Common, RanOK, Issued, reader
<1> QED
  BY <1>3, <1>4, <1>5, <1>6 DEF Common

\* The card repeats its last response: one frame moves, and that is all.
LEMMA CardRepeatsStep ==
  ASSUME Common, CardReceives, last_response_valid, command = <<>>,
         expected_pcd_block # picc_block,
         Head(to_card) \in OldFrames(picc_block, serial, reader_cid)
  PROVE  /\ Common' /\ UNCHANGED <<session, engine>> /\ UNCHANGED <<ran, reader>>
         /\ to_card' = Tail(to_card) /\ to_reader' = Append(to_reader, last_frame)
         /\ last_frame \in OldAnswers(picc_block)
         /\ [Service!Next]_(Service!vars)
<1>1. /\ UNCHANGED <<session, engine>> /\ ran' = ran
      /\ to_reader' = Append(to_reader, last_frame)
  BY CardRepeats
<1>2. last_frame \in Frame /\ last_frame \in OldAnswers(picc_block)
  BY DEF Common, CardTypeOK, SessionOK, OldAnswers
<1>3. Common'
  BY <1>1, <1>2, CardQuiet
<1>4. UNCHANGED reader /\ UNCHANGED results /\ to_card' = Tail(to_card)
  BY NextFrame
<1>5. UNCHANGED Service!vars
  BY <1>1, <1>4 DEF Service!vars, pendingBar, responseBar, Outstanding, reader, engine
<1> QED
  BY <1>1, <1>2, <1>3, <1>4, <1>5

\* Between commands the card repeats its last response to every leftover frame.
LEMMA IdleCard ==
  ASSUME Common, IdlePhase, CardReceives
  PROVE  Common' /\ IdlePhase' /\ [Service!Next]_(Service!vars)
<1>1. to_card # <<>> /\ to_card \in Seq(Frame) /\ to_reader \in Seq(Frame) /\ reader_block \in Bit
  BY NextFrame DEF Common, ReaderTypeOK
<1>2. /\ last_response_valid /\ command = <<>> /\ picc_block = 1 - reader_block
      /\ expected_pcd_block # picc_block
      /\ Each(to_card, OldFrames(picc_block, serial, reader_cid))
      /\ Each(to_reader, OldAnswers(picc_block))
  BY <1>1, Bits DEF IdlePhase
<1>3. /\ Head(to_card) \in OldFrames(picc_block, serial, reader_cid)
      /\ Each(Tail(to_card), OldFrames(picc_block, serial, reader_cid))
  BY <1>1, <1>2, EachTail
<1>4. /\ Common' /\ UNCHANGED <<session, engine>> /\ UNCHANGED <<ran, reader>>
      /\ to_card' = Tail(to_card) /\ to_reader' = Append(to_reader, last_frame)
      /\ last_frame \in OldAnswers(picc_block)
      /\ [Service!Next]_(Service!vars)
  BY <1>2, <1>3, CardRepeatsStep
<1>5. Each(to_reader', OldAnswers(picc_block))
  BY <1>1, <1>2, <1>4, EachAppend DEF OldAnswers
<1>6. IdlePhase'
  BY <1>2, <1>3, <1>4, <1>5 DEF IdlePhase, session, reader
<1> QED
  BY <1>4, <1>6

\* While the reader says goodbye the card repeats itself until a goodbye arrives;
\* from then on it has no session and hears only goodbyes.
LEMMA DeselectCard ==
  ASSUME Common, DeselectPhase, CardReceives
  PROVE  Common' /\ DeselectPhase' /\ [Service!Next]_(Service!vars)
<1> DEFINE S == Farewells(reader_cid)
           O == OldFrames(1 - reader_block, serial, reader_cid)
           f == Head(to_card)
<1>1. /\ to_card # <<>> /\ to_card \in Seq(Frame) /\ to_reader \in Seq(Frame)
      /\ f \in Frame /\ to_card' = Tail(to_card) /\ UNCHANGED reader /\ results' = results
      /\ reader_block \in Bit /\ 1 - reader_block # reader_block
  BY NextFrame, Bits DEF Common, ReaderTypeOK
<1>2. /\ mode = "deselecting" /\ response_offset = 0 /\ command = <<>>
      /\ last_response_valid =>
           /\ picc_block = 1 - reader_block /\ expected_pcd_block = reader_block
           /\ Each(to_card, O \cup S) /\ Each(to_reader, NoFarewell)
      /\ ~last_response_valid => expected_pcd_block = 0 /\ Each(to_card, S)
      /\ Follows(to_card, S, S)
  BY DEF DeselectPhase
<1> HIDE DEF S, O, f
<1>3. /\ last_response_valid => f \in O \cup S /\ Each(Tail(to_card), O \cup S)
      /\ ~last_response_valid => f \in S /\ Each(Tail(to_card), S)
      /\ Follows(Tail(to_card), S, S)
      /\ f \in S => Each(Tail(to_card), S)
  BY <1>1, <1>2, EachTail, FollowsTail DEF f
<1>4. CASE f \notin S
  <2>1. last_response_valid /\ f \in O /\ expected_pcd_block # picc_block
    BY <1>1, <1>2, <1>3, <1>4
  <2>2. f \in OldFrames(picc_block, serial, reader_cid)
    BY <1>2, <2>1 DEF O
  <2>3. /\ Common' /\ UNCHANGED <<session, engine>> /\ UNCHANGED <<ran, reader>>
        /\ to_reader' = Append(to_reader, last_frame)
        /\ last_frame \in OldAnswers(picc_block)
        /\ [Service!Next]_(Service!vars)
    BY <1>2, <2>1, <2>2, CardRepeatsStep DEF f
  <2>4. last_frame \in NoFarewell /\ last_frame \in Frame
    BY <2>3 DEF OldAnswers, NoFarewell
  <2>5. Each(Append(to_reader, last_frame), NoFarewell)
    BY <1>1, <1>2, <2>1, <2>4, EachAppend
  <2>6. DeselectPhase'
    BY <1>1, <1>2, <1>3, <2>1, <2>3, <2>5 DEF DeselectPhase, session, reader, S, O
  <2> QED
    BY <2>3, <2>6
<1>5. CASE f \in S
  <2>1. /\ UNCHANGED <<last_frame, tx_buffer>> /\ executed' \in {executed, <<>>} /\ ran' = ran
        /\ \/ /\ last_response_valid' = FALSE /\ expected_pcd_block' = 0 /\ picc_block' = 1
              /\ command' = <<>> /\ response_offset' = 0 /\ cid' = NoCid /\ cid = reader_cid
              /\ to_reader' = Append(to_reader, f)
           \/ /\ UNCHANGED <<session, to_reader>> /\ cid # reader_cid
    BY <1>5, CardDeselects DEF S, f
  <2>2. UNCHANGED Service!vars
    BY <1>1, <1>2, <2>1 DEF Service!vars, pendingBar, responseBar, Outstanding, reader
  <2>3. ReaderTypeOK' /\ RanOK'
    <3>1. Tail(to_card) \in Seq(Frame) /\ Append(to_reader, f) \in Seq(Frame)
      BY <1>1, Head1, AppendProperties
    <3>2. to_card' \in Seq(Frame) /\ to_reader' \in Seq(Frame)
      BY <1>1, <2>1, <3>1
    <3> QED
      BY <1>1, <2>1, <3>2 DEF Common, ReaderTypeOK, RanOK, Issued, reader
  <2>4. CASE UNCHANGED <<session, to_reader>> /\ cid # reader_cid
    <3>1. CardTypeOK' /\ SessionOK' /\ ~last_response_valid
      <4>1. executed' \in Seq(Seq(Octet))
        BY <2>1, EmptySeq DEF Common, CardTypeOK
      <4> QED
        BY <1>1, <2>1, <2>4, <4>1 DEF Common, CardTypeOK, SessionOK, session, reader
    <3>2. DeselectPhase'
      BY <1>1, <1>2, <1>3, <2>4, <3>1 DEF DeselectPhase, session, reader, S
    <3> QED
      BY <2>2, <2>3, <3>1, <3>2 DEF Common
  <2>5. CASE /\ last_response_valid' = FALSE /\ expected_pcd_block' = 0 /\ picc_block' = 1
             /\ command' = <<>> /\ response_offset' = 0 /\ cid' = NoCid /\ cid = reader_cid
             /\ to_reader' = Append(to_reader, f)
    <3>1. CardTypeOK' /\ SessionOK'
      <4>1. executed' \in Seq(Seq(Octet)) /\ <<>> \in Seq(Octet)
        BY <2>1, EmptySeq DEF Common, CardTypeOK
      <4> QED
        BY <1>1, <2>1, <2>5, <4>1 DEF Common, CardTypeOK, SessionOK, Bit, reader
    <3>2. DeselectPhase'
      BY <1>1, <1>2, <1>3, <1>5, <2>5 DEF DeselectPhase, reader, S
    <3> QED
      BY <2>2, <2>3, <3>1, <3>2 DEF Common
  <2> QED
    BY <2>1, <2>4, <2>5
<1> QED
  BY <1>4, <1>5

\* While the reader waits for the block the card has sent, the card only repeats it.
LEMMA AnsweredCard ==
  ASSUME Common, AnsweredPhase, CardReceives
  PROVE  Common' /\ AnsweredPhase' /\ [Service!Next]_(Service!vars)
<1> DEFINE R == OldAnswers(1 - reader_block) \cup Acks(Bit) \cup {last_frame}
<1>1. /\ to_card # <<>> /\ to_card \in Seq(Frame) /\ to_reader \in Seq(Frame)
      /\ reader_block \in Bit /\ 1 - reader_block # reader_block
  BY NextFrame, Bits DEF Common, ReaderTypeOK
<1>2. /\ last_response_valid /\ command = <<>> /\ picc_block = reader_block
      /\ expected_pcd_block # picc_block
      /\ Each(to_card, OldFrames(picc_block, serial, reader_cid))
      /\ Each(to_reader, R) /\ Follows(to_reader, {last_frame}, {last_frame})
  BY <1>1 DEF AnsweredPhase
<1>3. /\ Head(to_card) \in OldFrames(picc_block, serial, reader_cid)
      /\ Each(Tail(to_card), OldFrames(picc_block, serial, reader_cid))
  BY <1>1, <1>2, EachTail
<1>4. /\ Common' /\ UNCHANGED <<session, engine>> /\ UNCHANGED <<ran, reader>>
      /\ to_card' = Tail(to_card) /\ to_reader' = Append(to_reader, last_frame)
      /\ last_frame \in OldAnswers(picc_block)
      /\ [Service!Next]_(Service!vars)
  BY <1>2, <1>3, CardRepeatsStep
<1>5. last_frame \in Frame /\ last_frame \in R
  BY <1>4 DEF OldAnswers
<1> HIDE DEF R
<1>6. Each(to_reader', R) /\ Follows(to_reader', {last_frame}, {last_frame})
  BY <1>1, <1>2, <1>4, <1>5, EachAppend, FollowsAppend
<1>7. Outstanding' /\ EngineAnswered'
  BY <1>4 DEF AnsweredPhase, Outstanding, EngineAnswered, reader, engine
<1>8. AnsweredPhase'
  BY <1>1, <1>2, <1>3, <1>4, <1>6, <1>7 DEF AnsweredPhase, session, engine, reader, R
<1> QED
  BY <1>4, <1>8

\* While the reader waits for the next chunk the card repeats the last one until the
\* R(ACK) arrives, and then cuts the next.
LEMMA FetchingCard ==
  ASSUME Common, FetchingPhase, CardReceives
  PROVE  Common' /\ (FetchingPhase' \/ AnsweredPhase') /\ [Service!Next]_(Service!vars)
<1> DEFINE O == OldFrames(1 - reader_block, serial, reader_cid)
           A == Ack(reader_block, reader_cid)
           R == OldAnswers(1 - reader_block)
           f == Head(to_card)
<1>1. /\ to_card # <<>> /\ to_card \in Seq(Frame) /\ to_reader \in Seq(Frame)
      /\ to_card' = Tail(to_card) /\ UNCHANGED reader /\ results' = results
      /\ reader_block \in Bit /\ 1 - reader_block # reader_block /\ 1 - (1 - reader_block) = reader_block
  BY NextFrame, Bits DEF Common, ReaderTypeOK
<1>2. /\ last_response_valid /\ command = <<>> /\ picc_block = 1 - reader_block
      /\ expected_pcd_block = reader_block
      /\ Each(to_card, O \cup {A}) /\ Follows(to_card, {A}, {A}) /\ Each(to_reader, R)
  BY DEF FetchingPhase
<1>3. A \in Frame /\ A.bn = reader_block /\ A.cid = reader_cid /\ A.kind = "R"
  <2>1. A \in Frame
    BY <1>1, ControlBlocks DEF Common, ReaderTypeOK
  <2> QED
    BY <2>1 DEF Ack, Block
<1> HIDE DEF O, A, R, f
<1>4. f \in O \cup {A} /\ Each(Tail(to_card), O \cup {A}) /\ Follows(Tail(to_card), {A}, {A})
      /\ (f = A => Each(Tail(to_card), {A}))
  BY <1>1, <1>2, EachTail, FollowsTail DEF f
<1>5. CASE f \in O
  <2>1. f \in OldFrames(picc_block, serial, reader_cid)
    BY <1>2, <1>5 DEF O
  <2>2. /\ Common' /\ UNCHANGED <<session, engine>> /\ UNCHANGED <<ran, reader>>
        /\ to_reader' = Append(to_reader, last_frame)
        /\ last_frame \in OldAnswers(picc_block)
        /\ [Service!Next]_(Service!vars)
    BY <1>1, <1>2, <2>1, CardRepeatsStep DEF f
  <2>3. last_frame \in Frame /\ last_frame \in R
    BY <1>2, <2>2 DEF OldAnswers, R
  <2>4. Each(Append(to_reader, last_frame), R)
    BY <1>1, <1>2, <2>3, EachAppend
  <2>5. EngineAnswered'
    BY <2>2 DEF FetchingPhase, EngineAnswered, reader, engine
  <2>6. FetchingPhase'
    BY <1>1, <1>2, <1>4, <2>2, <2>4, <2>5 DEF FetchingPhase, session, engine, reader, O, A, R
  <2> QED
    BY <2>2, <2>6
<1>6. CASE f = A
  <2>1. /\ response_offset # 0 /\ response_offset < Len(tx_buffer.data) /\ reader_block # picc_block
        /\ mode = "receiving" /\ received = SubSeq(tx_buffer.data, 1, response_offset) /\ sent = blocks
    BY <1>1, <1>2 DEF FetchingPhase
  <2>2. /\ UNCHANGED <<command, cid, engine>> /\ expected_pcd_block' = picc_block
        /\ picc_block' = 1 - picc_block /\ last_response_valid' = TRUE
        /\ last_frame' \in Frame /\ last_frame'.kind = "I" /\ last_frame'.bn = 1 - picc_block
        /\ last_frame'.cid = reader_cid /\ last_frame'.flag = (response_offset' # 0)
        /\ response_offset' \in Nat
        /\ response_offset' # 0 => response_offset' < Len(tx_buffer.data)
        /\ SubSeq(tx_buffer.data, 1, response_offset) \o last_frame'.data
             = SubSeq(tx_buffer.data, 1, KeptEnd(tx_buffer, response_offset'))
        /\ ran' = ran /\ to_reader' = Append(to_reader, last_frame')
    BY <1>1, <1>2, <1>6, <2>1, CardContinues DEF f, A
  <2>3. to_card' \in Seq(Frame) /\ to_reader' \in Seq(Frame)
    <3>1. Tail(to_card) \in Seq(Frame) /\ Append(to_reader, last_frame') \in Seq(Frame)
      BY <1>1, <2>2, Head1, AppendProperties
    <3> QED
      BY <1>1, <2>2, <3>1
  <2>4. CardTypeOK' /\ ReaderTypeOK'
    BY <1>1, <1>2, <2>2, <2>3 DEF Common, CardTypeOK, ReaderTypeOK, engine, reader
  <2>5. SessionOK' /\ RanOK'
    BY <1>1, <1>2, <2>2 DEF Common, SessionOK, RanOK, Issued, engine, reader
  <2>6. Each(Tail(to_card), OldFrames(reader_block, serial, reader_cid))
    <3>1. {A} \subseteq OldFrames(reader_block, serial, reader_cid)
      BY <1>3 DEF OldFrames
    <3> QED
      BY <1>1, <1>4, <1>6, <3>1, Head1, Weaken
  <2>7. /\ Each(to_reader', R \cup Acks(Bit) \cup {last_frame'})
        /\ Follows(to_reader', {last_frame'}, {last_frame'})
    <3>1. Each(to_reader, R \cup Acks(Bit) \cup {last_frame'}) /\ Each(to_reader, Frame \ {last_frame'})
      <4>1. R \subseteq R \cup Acks(Bit) \cup {last_frame'} /\ R \subseteq Frame \ {last_frame'}
        BY <1>1, <1>2, <2>2 DEF R, OldAnswers
      <4> QED
        BY <1>1, <1>2, <4>1, Weaken
    <3>2. Follows(to_reader, {last_frame'}, {last_frame'})
      BY <1>1, <3>1, NoneOf
    <3> QED
      BY <1>1, <2>2, <3>1, <3>2, EachAppend, FollowsAppend
  <2>8. Outstanding' /\ EngineAnswered'
    BY <1>1, <2>1, <2>2 DEF FetchingPhase, Outstanding, EngineAnswered, reader, engine
  <2>9. /\ received' \o last_frame'.data = SubSeq(tx_buffer'.data, 1, KeptEnd(tx_buffer', response_offset'))
        /\ last_frame'.flag = (response_offset' # 0)
        /\ response_offset' # 0 => response_offset' < Len(tx_buffer'.data)
    BY <1>1, <2>1, <2>2 DEF reader, engine
  <2>10. AnsweredPhase'
    BY <1>1, <1>2, <2>1, <2>2, <2>6, <2>7, <2>8, <2>9 DEF AnsweredPhase, reader, R
  <2>11. UNCHANGED Service!vars
    BY <1>1, <2>2 DEF Service!vars, pendingBar, responseBar, Outstanding, reader, engine
  <2> QED
    BY <2>4, <2>5, <2>10, <2>11 DEF Common
<1> QED
  BY <1>4, <1>5, <1>6

\* What depends on the reader alone does not change with the card.
LEMMA SameReader ==
  ASSUME UNCHANGED reader
  PROVE  /\ \A k : BlockNo(k)' = BlockNo(k) /\ BlockK(k)' = BlockK(k)
         /\ Stale' = Stale /\ FirstNak' = FirstNak
         /\ \A g : BlocksFrom(g)' = BlocksFrom(g)
<1>1. \A k : BlockNo(k)' = BlockNo(k)
  BY DEF BlockNo, reader
<1>2. \A k : BlockK(k)' = BlockK(k)
  BY <1>1 DEF BlockK, reader
<1>3. Stale' = Stale /\ FirstNak' = FirstNak
  BY <1>1 DEF Stale, FirstNak, Nak, Block, reader
<1>4. \A g : BlocksFrom(g)' = BlocksFrom(g)
  BY <1>2 DEF BlocksFrom, reader
<1> QED
  BY <1>1, <1>2, <1>3, <1>4

\* Frames of earlier commands are frames of earlier commands when the next is issued.
LEMMA OlderFrames ==
  ASSUME NEW b, NEW c, NEW n \in Int, NEW m \in Int, n <= m
  PROVE  OldFrames(b, n, c) \subseteq OldFrames(b, m, c)
<1> SUFFICES ASSUME NEW f \in OldFrames(b, n, c), f.kind = "I" PROVE f.data[1][1] <= m
  BY DEF OldFrames
<1>1. f.data \in Seq(Octet) /\ f.data # <<>> /\ f.data[1][1] <= n
  BY DEF OldFrames, Frame
<1>2. f.data[1] \in Octet
  BY <1>1, LenProperties, EmptySeq, ElementOfSeq
<1>3. f.data[1][1] \in Nat
  BY <1>2 DEF Octet
<1> QED
  BY <1>1, <1>3

\* While a command is sent: the numbers of its blocks, and the classes of frames on
\* the way to the card are disjoint.
LEMMA SendingFacts ==
  ASSUME Common, GatheredOK(Len(command))
  PROVE  /\ Len(command) \in Nat /\ serial \in Nat /\ sent \in Nat \ {0} /\ blocks \in Nat \ {0}
         /\ sent <= blocks /\ blocks \in BlockCounts
         /\ \A k \in Nat : BlockNo(k) \in Bit /\ BlockNo(k + 1) = 1 - BlockNo(k)
         /\ \A k \in Nat : \A l \in Nat : (BlockNo(k) = BlockNo(l)) <=> (k % 2 = l % 2)
         /\ BlockNo(sent) = reader_block /\ BlockNo(0) # BlockNo(1) /\ BlockNo(1) = 1 - BlockNo(0)
         /\ BlockNo(Len(command)) # BlockNo(Len(command) + 1)
<1>1. /\ serial \in Nat /\ sent \in Nat \ {0} /\ blocks \in Nat \ {0} /\ sent <= blocks
      /\ reader_block \in Bit /\ blocks \in BlockCounts
  BY LinkAssumption DEF Common, ReaderTypeOK, GatheredOK
<1>2. Len(command) \in Nat
  BY LenProperties DEF Common, CardTypeOK
<1>3. \A k \in Nat : BlockNo(k) \in Bit /\ BlockNo(k + 1) = 1 - BlockNo(k)
  BY <1>1, Alternation DEF BlockNo
<1>4. ASSUME NEW k \in Nat, NEW l \in Nat
      PROVE  (BlockNo(k) = BlockNo(l)) <=> (k % 2 = l % 2)
  <2>1. sent \in Nat /\ reader_block \in Bit
    BY <1>1
  <2>2. (Alternate(k, sent, reader_block) = Alternate(l, sent, reader_block)) <=> (k % 2 = l % 2)
    BY <2>1, Alternation
  <2> QED
    BY <2>2 DEF BlockNo
<1>5. BlockNo(sent) = reader_block
  BY <1>1, Alternation DEF BlockNo
<1>6. BlockNo(0 + 1) = 1 - BlockNo(0) /\ BlockNo(0) \in Bit
  BY <1>3
<1>7. BlockNo(0) # BlockNo(1) /\ BlockNo(1) = 1 - BlockNo(0)
  BY <1>6, Bits
<1>8. BlockNo(Len(command)) # BlockNo(Len(command) + 1)
  BY <1>2, <1>3, Bits
<1> QED
  BY <1>1, <1>2, <1>3, <1>4, <1>5, <1>7, <1>8

\* R(NAK) for the first block, the blocks and the stale frames are all different.
LEMMA SendingFrames ==
  ASSUME Common, GatheredOK(Len(command))
  PROVE  /\ FirstNak \in Frame /\ FirstNak \notin Stale /\ FirstNak.kind = "R"
         /\ FirstNak.bn = BlockNo(1) /\ FirstNak.cid = reader_cid
         /\ \A k \in Nat : BlockK(k) \in Frame /\ BlockK(k) \notin Stale /\ BlockK(k) # FirstNak
         /\ \A k \in Nat : \A l \in Nat : BlockK(k) = BlockK(l) => k = l
         /\ Stale \subseteq Frame
<1>1. ReaderTypeOK /\ serial \in Nat /\ BlockNo(1) \in Bit /\ BlockNo(1) # BlockNo(0)
  BY SendingFacts DEF Common
<1>2. FirstNak \in Frame
  BY <1>1, ControlBlocks DEF FirstNak, ReaderTypeOK
<1>3. FirstNak.kind = "R" /\ FirstNak.bn = BlockNo(1) /\ FirstNak.cid = reader_cid
  BY DEF FirstNak, Nak, Block
<1>4. FirstNak \notin Stale
  BY <1>1, <1>3 DEF Stale, OldFrames
<1>5. ASSUME NEW k \in Nat PROVE BlockK(k) \in Frame /\ BlockK(k) \notin Stale /\ BlockK(k) # FirstNak
  <2>1. BlockK(k) \in Frame /\ BlockK(k).kind = "I" /\ BlockK(k).data[1][1] = serial
    BY <1>1, BlockKType
  <2>2. ~(serial <= serial - 1)
    BY <1>1
  <2> QED
    BY <2>1, <2>2, <1>3 DEF Stale, OldFrames
<1>6. ASSUME NEW k \in Nat, NEW l \in Nat, BlockK(k) = BlockK(l) PROVE k = l
  <2>1. BlockK(k).data[1][2] = k /\ BlockK(l).data[1][2] = l
    BY <1>1, BlockKType
  <2> QED
    BY <2>1, <1>6
<1> QED
  BY <1>2, <1>3, <1>4, <1>5, <1>6 DEF Stale, OldFrames

\* The next frame the card gets while a command is sent: a stale one, before the
\* first block; R(NAK) for the first block; the block it gathered last; or the next.
LEMMA SendingHead ==
  ASSUME Common, GatheredOK(Len(command)), ToCardOK(Len(command)), to_card # <<>>
  PROVE  \/ Head(to_card) \in Stale /\ Len(command) = 0 /\ last_response_valid
         \/ Head(to_card) = FirstNak
         \/ Head(to_card) = BlockK(Len(command)) /\ Len(command) # 0
         \/ Head(to_card) = BlockK(Len(command) + 1) /\ Len(command) + 1 <= sent
<1> DEFINE g == Len(command)
           f == Head(to_card)
<1>1. to_card \in Seq(Frame) /\ g \in Nat /\ sent \in Nat \ {0} /\ blocks \in Nat \ {0} /\ sent <= blocks
  BY SendingFacts DEF Common, ReaderTypeOK
<1> HIDE DEF g
<1>2. ToCardOK(g) /\ GatheredOK(g)
  BY DEF g
<1>3. f \in BlocksFrom(g) \cup {FirstNak} \cup Stale
  BY <1>1, <1>2, EachTail DEF ToCardOK
<1>4. ASSUME f \in Stale PROVE g = 0 /\ last_response_valid
  <2>1. ASSUME g # 0 PROVE FALSE
    <3>1. Heralded(to_card, Stale, BlockK(blocks))
      BY <1>2, <2>1 DEF ToCardOK
    <3> QED
      BY <1>1, <1>4, <3>1, HeraldedTail
  <2>2. ASSUME ~last_response_valid PROVE FALSE
    <3>1. Each(to_card, Frame \ Stale)
      BY <1>2, <2>1, <2>2 DEF ToCardOK
    <3> QED
      BY <1>1, <1>4, <3>1, EachTail
  <2> QED
    BY <2>1, <2>2
<1>5. ASSUME NEW k \in 1..sent, k >= g, f = BlockK(k)
      PROVE  (k = g /\ g # 0) \/ (k = g + 1 /\ g + 1 <= sent)
  <2>1. SUFFICES ASSUME k > g + 1 PROVE FALSE
    BY <1>1, <1>5
  <2>2. blocks > 1 /\ g + 1 \in 1..sent /\ g + 1 > g /\ g + 1 < k /\ g + 1 # k
    BY <1>1, <1>5, <2>1
  <2>3. Has(to_card, BlockK(g + 1))
    BY <1>2, <2>2 DEF ToCardOK
  <2>4. Follows(to_card, {BlockK(k)}, Frame \ {BlockK(g + 1)})
    BY <1>2, <1>5, <2>2 DEF ToCardOK
  <2>5. f # BlockK(g + 1)
    BY <1>1, <1>5, <2>2, SendingFrames
  <2>6. Has(Tail(to_card), BlockK(g + 1))
    BY <1>1, <2>3, <2>5, HasTail
  <2>7. Each(Tail(to_card), Frame \ {BlockK(g + 1)})
    BY <1>1, <1>5, <2>4, FollowsTail
  <2> QED
    BY <2>6, <2>7 DEF Has, Each
<1>6. ASSUME f \in BlocksFrom(g) PROVE (f = BlockK(g) /\ g # 0) \/ (f = BlockK(g + 1) /\ g + 1 <= sent)
  <2>1. PICK k \in 1..sent : k >= g /\ f = BlockK(k)
    BY <1>6 DEF BlocksFrom
  <2> QED
    BY <2>1, <1>5
<1> QED
  BY <1>3, <1>4, <1>6 DEF g

\* The queue to the card without its head, unless the card lacks the head.
LEMMA ToCardTail ==
  ASSUME Common, NEW g \in Nat, ToCardOK(g), GatheredOK(Len(command)), to_card # <<>>, to_card' = Tail(to_card),
         UNCHANGED <<last_response_valid, reader>>,
         blocks = 1 \/ \A k \in 1..sent : k > g => Head(to_card) # BlockK(k),
         g # 0 => Head(to_card) # BlockK(blocks)
  PROVE  ToCardOK(g)'
<1>1. /\ to_card \in Seq(Frame)
      /\ \A k : BlockNo(k)' = BlockNo(k) /\ BlockK(k)' = BlockK(k)
      /\ Stale' = Stale /\ FirstNak' = FirstNak /\ BlocksFrom(g)' = BlocksFrom(g)
  BY SameReader DEF Common, ReaderTypeOK
<1>2. Each(to_card', BlocksFrom(g) \cup {FirstNak} \cup Stale)
  BY <1>1, EachTail DEF ToCardOK
<1>3. \A l \in 1..sent : \A k \in 1..sent : k < l =>
        Follows(to_card', {BlockK(l)}, Frame \ {BlockK(k)})
  BY <1>1, FollowsTail DEF ToCardOK
<1>4. blocks > 1 => \A k \in 1..sent : k > g => Has(to_card', BlockK(k))
  BY <1>1, HasTail DEF ToCardOK
<1>5. blocks % 2 = 0 => \A k \in 2..sent : Follows(to_card', {BlockK(k)}, Frame \ {FirstNak})
  BY <1>1, FollowsTail DEF ToCardOK
<1>6. g = 0 => /\ Follows(to_card', {BlockK(1)}, Frame \ Stale)
               /\ last_response_valid \/ Each(to_card', Frame \ Stale)
  BY <1>1, FollowsTail, EachTail DEF ToCardOK
<1>7. g # 0 => Heralded(to_card', Stale, BlockK(blocks))
  BY <1>1, HeraldedTail DEF ToCardOK
<1>8. g # 0 => (blocks % 2 = 1 => Each(to_card', Frame \ Stale))
  BY <1>1, EachTail DEF ToCardOK
<1> QED
  BY <1>1, <1>2, <1>3, <1>4, <1>5, <1>6, <1>7, <1>8 DEF ToCardOK, reader

\* An answer to the reader that is not the response: the reader's queue stays sound.
LEMMA ToReaderGrows ==
  ASSUME Common, NEW g \in Nat, ToReaderOK(g), GatheredOK(Len(command)),
         NEW x \in Frame, to_reader' = Append(to_reader, x), UNCHANGED reader,
         \/ x \in OldAnswers(BlockNo(0)) /\ g = 0
         \/ x \in Acks(Bit) /\ (g = 0 => x.bn # BlockNo(1))
  PROVE  ToReaderOK(g)'
<1>1. /\ to_reader \in Seq(Frame)
      /\ \A k : BlockNo(k)' = BlockNo(k)
  BY SameReader DEF Common, ReaderTypeOK
<1>2. to_reader' # <<>>
  BY <1>1, AppendProperties
<1>3. Each(to_reader', OldAnswers(BlockNo(0)) \cup Acks(Bit))
  BY <1>1, EachAppend DEF ToReaderOK
<1>4. ASSUME g = 0 PROVE Each(to_reader', Frame \ Acks({BlockNo(1)}))
  <2>1. x \in Frame \ Acks({BlockNo(1)})
    BY <1>4 DEF Acks, OldAnswers
  <2> QED
    BY <1>1, <1>4, <2>1, EachAppend DEF ToReaderOK
<1>5. Follows(to_reader', Acks({BlockNo(1)}), Acks(Bit))
  BY <1>1, FollowsAppend DEF ToReaderOK
<1>6. sent >= 2 => g # 0 /\ Each(to_reader', Acks(Bit))
  BY <1>1, EachAppend DEF ToReaderOK
<1>7. sent' = sent
  BY DEF reader
<1> QED
  BY <1>1, <1>2, <1>3, <1>4, <1>5, <1>6, <1>7 DEF ToReaderOK, Quiet

\* A stale frame: the last response of an earlier command goes out once more.
LEMMA SendingCardStale ==
  ASSUME Common, SendingPhase, CardReceives,
         Head(to_card) \in Stale, Len(command) = 0, last_response_valid
  PROVE  Common' /\ SendingPhase' /\ [Service!Next]_(Service!vars)
<1>1. /\ GatheredOK(0) /\ ToCardOK(0) /\ ToReaderOK(0) /\ mode = "sending"
      /\ GatheredOK(Len(command))
  BY DEF SendingPhase
<1>2. /\ command = <<>> /\ picc_block = BlockNo(0) /\ expected_pcd_block # picc_block
      /\ serial \in Nat
  <2>1. command = <<>>
    BY EmptySeq DEF Common, CardTypeOK
  <2> QED
    BY <1>1, <2>1, SendingFacts DEF GatheredOK
<1>3. Head(to_card) \in OldFrames(picc_block, serial, reader_cid)
  BY <1>2, OlderFrames DEF Stale
<1>4. /\ Common' /\ UNCHANGED <<session, engine>> /\ UNCHANGED <<ran, reader>>
      /\ to_card' = Tail(to_card) /\ to_reader' = Append(to_reader, last_frame)
      /\ last_frame \in OldAnswers(picc_block)
      /\ [Service!Next]_(Service!vars)
  BY <1>2, <1>3, CardRepeatsStep
<1>5. ToReaderOK(0)'
  BY <1>1, <1>2, <1>4, ToReaderGrows DEF OldAnswers
<1>6. ToCardOK(0)'
  <2>1. \A k \in 1..sent : Head(to_card) # BlockK(k)
    BY <1>1, SendingFrames
  <2> QED
    BY <1>1, <1>4, <2>1, ToCardTail, NextFrame DEF session
<1>7. GatheredOK(0)'
  BY <1>1, <1>4, SameReader DEF GatheredOK, session, reader
<1>8. Len(command') = 0 /\ mode' = "sending"
  BY <1>1, <1>4 DEF session, reader
<1> QED
  BY <1>4, <1>5, <1>6, <1>7, <1>8 DEF SendingPhase

\* R(NAK) for the first block, or the block that was gathered last: acknowledged.
LEMMA SendingCardAcks ==
  ASSUME Common, SendingPhase, CardReceives, UNCHANGED <<session, engine>>, ran' = ran,
         \/ to_reader' = to_reader /\ Len(command) = 0
         \/ \E b \in Bit : /\ to_reader' = Append(to_reader, Ack(b, reader_cid))
                           /\ Len(command) = 0 => b # BlockNo(1),
         Head(to_card) = FirstNak \/ (Head(to_card) = BlockK(Len(command)) /\ Len(command) # 0)
  PROVE  Common' /\ SendingPhase' /\ [Service!Next]_(Service!vars)
<1> DEFINE g == Len(command)
<1>1. /\ GatheredOK(g) /\ ToCardOK(g) /\ ToReaderOK(g) /\ mode = "sending"
      /\ g \in Nat /\ sent \in Nat /\ g < blocks
  BY SendingFacts DEF SendingPhase, GatheredOK
<1>2. /\ to_card # <<>> /\ to_card' = Tail(to_card) /\ to_reader \in Seq(Frame)
      /\ UNCHANGED reader /\ results' = results /\ reader_cid \in Cids \cup {NoCid}
  BY NextFrame DEF Common, ReaderTypeOK
<1>3. \A b \in Bit : Ack(b, reader_cid) \in Frame /\ Ack(b, reader_cid) \in Acks(Bit) /\ Ack(b, reader_cid).bn = b
  <2> TAKE b \in Bit
  <2>1. Ack(b, reader_cid) \in Frame
    BY <1>2, ControlBlocks
  <2> QED
    BY <2>1 DEF Ack, Block, Acks
<1>4. Common'
  BY <1>2, <1>3, CardQuiet, BlockIsFrame DEF Common, CardTypeOK
<1>5. command' = command /\ last_response_valid' = last_response_valid
  BY DEF session
<1>6. ToReaderOK(g)'
  <2>1. CASE to_reader' = to_reader /\ g = 0
    BY <1>1, <1>2, <1>5, <2>1, SameReader DEF ToReaderOK, Quiet, reader
  <2>2. CASE \E b \in Bit : /\ to_reader' = Append(to_reader, Ack(b, reader_cid))
                            /\ Len(command) = 0 => b # BlockNo(1)
    BY <1>1, <1>2, <1>3, <1>5, <2>2, ToReaderGrows
  <2> QED
    BY <2>1, <2>2
<1>7. ToCardOK(g)'
  <2>1. \A k \in 1..sent : k > g => Head(to_card) # BlockK(k)
    BY <1>1, SendingFrames
  <2>2. g # 0 => Head(to_card) # BlockK(blocks)
    <3>1. g # blocks /\ blocks \in Nat
      BY <1>1, SendingFacts
    <3>2. BlockK(g) # BlockK(blocks) /\ BlockK(blocks) # FirstNak
      BY <1>1, <3>1, SendingFrames
    <3> QED
      BY <3>2
  <2> QED
    BY <1>1, <1>2, <1>5, <2>1, <2>2, ToCardTail
<1>8. GatheredOK(g)'
  BY <1>1, <1>2, SameReader DEF GatheredOK, session, reader
<1>9. UNCHANGED Service!vars
  BY <1>2 DEF Service!vars, pendingBar, responseBar, Outstanding, reader, engine
<1>10. Len(command)' = g /\ mode' = "sending"
  BY <1>1, <1>2, <1>5 DEF reader
<1> QED
  BY <1>4, <1>5, <1>6, <1>7, <1>8, <1>9, <1>10 DEF SendingPhase

\* The next block of the command, as the card finds it.
LEMMA NextBlock ==
  ASSUME LinkWithinLimits, Common, GatheredOK(Len(command)), Len(command) + 1 <= sent
  PROVE  LET f == BlockK(Len(command) + 1)
         IN  /\ f \in Frame /\ f.kind = "I" /\ f.cid = reader_cid /\ f.bn = expected_pcd_block
             /\ f.flag = (Len(command) + 1 < blocks) /\ f.data # <<>>
             /\ Len(f.data) + Len(command) <= CommandCap
             /\ command \o f.data = CommandOf(serial, Len(command) + 1)
             /\ f.bn = BlockNo(Len(command) + 1)
<1> DEFINE g == Len(command)
           f == BlockK(g + 1)
<1>1. g \in Nat /\ g + 1 \in Nat /\ serial \in Nat /\ sent <= blocks /\ blocks <= CommandCap /\ blocks \in Nat /\ sent \in Nat
  BY SendingFacts DEF LinkWithinLimits
<1>2. /\ f \in Frame /\ f.kind = "I" /\ f.bn = BlockNo(g + 1) /\ f.cid = reader_cid
      /\ f.flag = (g + 1 < blocks) /\ f.data = <<<<serial, g + 1>>>> /\ f.data # <<>>
  BY <1>1, BlockKType DEF Common
<1>3. f.bn = expected_pcd_block /\ command = CommandOf(serial, g)
  BY <1>2 DEF GatheredOK
<1> HIDE DEF f
<1>4. Len(f.data) = 1
  <2>1. Len(<<<<serial, g + 1>>>>) = 1
    OBVIOUS
  <2> QED
    BY <1>2, <2>1
<1>5. Len(f.data) + g <= CommandCap
  <2>1. CommandCap \in Nat /\ g + 1 <= CommandCap
    BY <1>1, FrameAssumption
  <2> QED
    BY <1>1, <1>4, <2>1
<1>6. CommandOf(serial, g) \o f.data = CommandOf(serial, g + 1)
  BY <1>1, <1>2, CommandGrows
<1>7. command \o f.data = CommandOf(serial, g + 1)
  BY <1>3, <1>6
<1> QED
  BY <1>2, <1>3, <1>5, <1>7 DEF f

\* A block that is not the last: gathered and acknowledged.
LEMMA SendingCardGathers ==
  ASSUME LinkWithinLimits, Common, SendingPhase, CardReceives,
         Head(to_card) = BlockK(Len(command) + 1), Len(command) + 1 <= sent, Len(command) + 1 < blocks
  PROVE  Common' /\ SendingPhase' /\ [Service!Next]_(Service!vars)
<1> DEFINE f == BlockK(Len(command) + 1)
<1>0. /\ GatheredOK(Len(command)) /\ ToCardOK(Len(command)) /\ ToReaderOK(Len(command))
      /\ mode = "sending"
  BY DEF SendingPhase
<1>a. PICK g \in Nat : g = Len(command)
  BY <1>0, SendingFacts
<1>b. PICK h \in Nat : h = g + 1
  OBVIOUS
<1>1. /\ GatheredOK(g) /\ ToCardOK(g) /\ ToReaderOK(g) /\ mode = "sending"
      /\ h # 0 /\ h \in 1..sent /\ sent \in Nat /\ h < blocks /\ blocks \in Nat
      /\ serial \in Nat /\ GatheredOK(Len(command))
  <2>1. sent \in Nat /\ blocks \in Nat /\ serial \in Nat
    BY <1>0, SendingFacts
  <2>2. h # 0 /\ h \in 1..sent /\ h < blocks
    BY <2>1, <1>a, <1>b
  <2> QED
    BY <1>0, <1>a, <2>1, <2>2
<1>2. /\ to_card # <<>> /\ to_card' = Tail(to_card) /\ to_reader \in Seq(Frame) /\ to_card \in Seq(Frame)
      /\ UNCHANGED reader /\ results' = results /\ reader_cid \in Cids \cup {NoCid}
  BY NextFrame DEF Common, ReaderTypeOK
<1>3. /\ f \in Frame /\ f.kind = "I" /\ f.cid = reader_cid /\ f.bn = expected_pcd_block
      /\ f.flag /\ f.data # <<>> /\ Len(f.data) + Len(command) <= CommandCap
      /\ command \o f.data = CommandOf(serial, h) /\ f.bn = BlockNo(h)
  BY <1>1, <1>a, <1>b, NextBlock
<1>4. response_offset = 0 /\ expected_pcd_block = BlockNo(h) /\ picc_block = BlockNo(0)
  BY <1>1, <1>b DEF GatheredOK
<1>5. /\ command' = CommandOf(serial, h) /\ expected_pcd_block' = 1 - BlockNo(h)
      /\ UNCHANGED <<last_response_valid, picc_block, last_frame, response_offset, engine>>
      /\ cid' = reader_cid /\ ran' = ran
      /\ to_reader' = Append(to_reader, Ack(BlockNo(h), reader_cid))
  <2>1. Head(to_card) = f
    OBVIOUS
  <2> QED
    BY <1>3, <1>4, <2>1, CardGathers
<1> HIDE DEF f
<1>6. /\ Len(command') = h /\ command' # <<>> /\ command' \in Seq(Octet)
      /\ BlockNo(h) \in Bit /\ expected_pcd_block' = BlockNo(h + 1) /\ expected_pcd_block' \in Bit
  <2>1. Len(command') = h /\ command' # <<>> /\ command' \in Seq(Octet)
    BY <1>1, <1>5, CommandType
  <2>2. BlockNo(h) \in Bit /\ BlockNo(h + 1) = 1 - BlockNo(h)
    BY <1>1, SendingFacts
  <2> QED
    BY <1>5, <2>1, <2>2, Bits
<1>7. /\ Ack(BlockNo(h), reader_cid) \in Frame /\ Ack(BlockNo(h), reader_cid) \in Acks(Bit)
  <2>1. Ack(BlockNo(h), reader_cid) \in Frame
    BY <1>2, <1>6, ControlBlocks
  <2> QED
    BY <1>6, <2>1 DEF Ack, Block, Acks
<1>8. Common'
  <2>1. to_card' \in Seq(Frame) /\ to_reader' \in Seq(Frame)
    <3>1. Tail(to_card) \in Seq(Frame) /\ Append(to_reader, Ack(BlockNo(h), reader_cid)) \in Seq(Frame)
      BY <1>2, <1>7, Head1, AppendProperties
    <3> QED
      BY <1>2, <1>5, <3>1
  <2>2. CardTypeOK'
    BY <1>5, <1>6 DEF Common, CardTypeOK, engine
  <2>3. ReaderTypeOK'
    BY <1>2, <1>5, <2>1 DEF Common, ReaderTypeOK, reader
  <2>4. SessionOK' /\ RanOK'
    BY <1>2, <1>5 DEF Common, SessionOK, RanOK, Issued, engine, reader
  <2> QED
    BY <2>2, <2>3, <2>4 DEF Common
<1>9. GatheredOK(h)'
  BY <1>1, <1>2, <1>5, <1>6, SameReader DEF GatheredOK, reader
<1>10. ToReaderOK(h)'
  <2>1. /\ Each(to_reader, OldAnswers(BlockNo(0)) \cup Acks(Bit))
        /\ Follows(to_reader, Acks({BlockNo(1)}), Acks(Bit))
        /\ sent >= 2 => Each(to_reader, Acks(Bit))
    BY <1>1 DEF ToReaderOK
  <2>2. /\ Each(to_reader', OldAnswers(BlockNo(0)) \cup Acks(Bit))
        /\ Follows(to_reader', Acks({BlockNo(1)}), Acks(Bit))
        /\ sent >= 2 => Each(to_reader', Acks(Bit))
    BY <1>2, <1>5, <1>7, <2>1, EachAppend, FollowsAppend
  <2>3. to_reader' # <<>>
    BY <1>2, <1>5, <1>7, AppendProperties
  <2> QED
    BY <1>1, <1>2, <1>6, <2>2, <2>3, SameReader DEF ToReaderOK, Quiet, reader
<1>11. ToCardOK(h)'
  <2> DEFINE s == Tail(to_card)
  <2>1. /\ Each(s, BlocksFrom(g) \cup {FirstNak} \cup Stale)
        /\ \A l \in 1..sent : \A k \in 1..sent : k < l => Follows(s, {BlockK(l)}, Frame \ {BlockK(k)})
        /\ blocks % 2 = 0 => \A k \in 2..sent : Follows(s, {BlockK(k)}, Frame \ {FirstNak})
    BY <1>1, <1>2, EachTail, FollowsTail DEF ToCardOK
  <2>2. \A k \in 1..sent : k > h => Has(s, BlockK(k))
    <3> SUFFICES ASSUME NEW k \in 1..sent, k > h PROVE Has(s, BlockK(k))
      OBVIOUS
    <3>1. k > g /\ k # h /\ k \in Nat /\ blocks > 1
      BY <1>1, <1>b
    <3>2. Has(to_card, BlockK(k))
      BY <1>1, <3>1 DEF ToCardOK
    <3>3. Head(to_card) # BlockK(k)
      BY <1>1, <1>a, <1>b, <3>1, SendingFrames
    <3> QED
      BY <1>2, <3>2, <3>3, HasTail
  <2>3. g # 0 => Each(s, Frame \ {BlockK(g)})
    <3> SUFFICES ASSUME g # 0 PROVE Each(s, Frame \ {BlockK(g)})
      OBVIOUS
    <3>1. g \in 1..sent /\ g < h
      BY <1>1, <1>b
    <3>2. Follows(to_card, {BlockK(h)}, Frame \ {BlockK(g)})
      BY <1>1, <3>1 DEF ToCardOK
    <3> QED
      BY <1>2, <1>a, <1>b, <3>2, FollowsTail
  <2>4. g = 0 => Each(s, Frame \ Stale)
    <3> SUFFICES ASSUME g = 0 PROVE Each(s, Frame \ Stale)
      OBVIOUS
    <3>1. Follows(to_card, {BlockK(1)}, Frame \ Stale) /\ h = 1
      BY <1>1, <1>b DEF ToCardOK
    <3> QED
      BY <1>2, <1>a, <1>b, <3>1, FollowsTail
  <2>5. Heralded(s, Stale, BlockK(blocks)) /\ (blocks % 2 = 1 => Each(s, Frame \ Stale))
    <3>1. CASE g = 0
      BY <1>2, <2>4, <3>1, NoneOf, Head1
    <3>2. CASE g # 0
      <4>1. Heralded(to_card, Stale, BlockK(blocks)) /\ (blocks % 2 = 1 => Each(to_card, Frame \ Stale))
        BY <1>1, <3>2 DEF ToCardOK
      <4>2. Head(to_card) # BlockK(blocks)
        <5>1. h # blocks
          BY <1>1, <1>b
        <5> QED
          BY <1>1, <1>a, <1>b, <5>1, SendingFrames
      <4> QED
        BY <1>2, <4>1, <4>2, HeraldedTail, EachTail
    <3> QED
      BY <3>1, <3>2
  <2> HIDE DEF s
  <2>6. Each(s, BlocksFrom(h) \cup {FirstNak} \cup Stale)
    <3> SUFFICES ASSUME NEW i \in 1..Len(s), s[i] \in BlocksFrom(g)
                 PROVE  s[i] \in BlocksFrom(h)
      BY <2>1 DEF Each
    <3>1. PICK k \in 1..sent : k >= g /\ s[i] = BlockK(k)
      BY DEF BlocksFrom
    <3>2. k # g
      BY <1>1, <2>3, <3>1 DEF Each
    <3>3. k >= h
      BY <1>1, <1>b, <3>1, <3>2
    <3> QED
      BY <3>1, <3>3 DEF BlocksFrom
  <2>7. to_card' = s /\ h # 0
    BY <1>1, <1>2 DEF s
  <2>8. sent' = sent /\ blocks' = blocks
    BY <1>2 DEF reader
  <2> QED
    BY <1>2, <2>1, <2>2, <2>5, <2>6, <2>7, <2>8, SameReader DEF ToCardOK
<1>12. UNCHANGED Service!vars
  BY <1>2, <1>5 DEF Service!vars, pendingBar, responseBar, Outstanding, reader, engine
<1>13. Len(command)' = h /\ mode' = "sending"
  BY <1>1, <1>2, <1>6 DEF reader
<1> QED
  BY <1>8, <1>9, <1>10, <1>11, <1>12, <1>13 DEF SendingPhase

-----------------------------------------------------------------------------
(* What the abstract service sees.                                         *)

\* The response depends on the command's number only.
LEMMA ReplyType ==
  ASSUME NEW s \in Nat, NEW m \in Nat \ {0}, NEW n \in ReplyLengths
  PROVE  /\ Reply(CommandOf(s, m), n) = Reply(CommandOf(s, 1), n)
         /\ WrittenIn(Reply(CommandOf(s, 1), n), {s})
<1>1. CommandOf(s, m)[1][1] = s /\ CommandOf(s, 1)[1][1] = s
  BY CommandType
<1>2. Reply(CommandOf(s, m), n) = Reply(CommandOf(s, 1), n)
  BY <1>1 DEF Reply
<1>3. WrittenIn(Reply(CommandOf(s, 1), n), {s})
  BY <1>1 DEF Reply, WrittenIn
<1> QED
  BY <1>2, <1>3

\* A command the engine has not been handed yet has no response.
LEMMA NotRunYet ==
  ASSUME Common, serial \in Nat, blocks \in Nat \ {0}, Outstanding,
         \A k \in 1..Len(ran) : ran[k][1][1] < serial
  PROVE  pendingBar = CommandOf(serial, blocks) /\ pendingBar # <<>> /\ responseBar = <<>>
<1>1. /\ CommandOf(serial, blocks)[1][1] = serial /\ CommandOf(serial, blocks) # <<>>
  BY CommandType
<1>2. pendingBar = CommandOf(serial, blocks)
  BY DEF pendingBar
<1>3. ASSUME ran # <<>> PROVE Last(ran) # pendingBar
  <2>1. Len(ran) \in 1..Len(ran) /\ Last(ran) = ran[Len(ran)]
    BY <1>3, EmptySeq, LenProperties DEF Common, ReaderTypeOK, Last
  <2>2. Last(ran)[1][1] < serial
    BY <2>1
  <2> QED
    BY <1>1, <1>2, <2>2
<1> QED
  BY <1>1, <1>2, <1>3 DEF responseBar

\* One it was handed last has the response it wrote.
LEMMA RunAlready ==
  (Common /\ Outstanding /\ EngineAnswered)
    => /\ pendingBar = CommandOf(serial, blocks) /\ pendingBar # <<>>
       /\ responseBar = <<tx_buffer.data>> /\ responseBar # <<>>
<1> SUFFICES ASSUME Common, Outstanding, EngineAnswered
             PROVE  /\ pendingBar = CommandOf(serial, blocks) /\ pendingBar # <<>>
                    /\ responseBar = <<tx_buffer.data>> /\ responseBar # <<>>
  OBVIOUS
<1>1. serial \in Nat /\ blocks \in Nat \ {0}
  BY LinkAssumption DEF Common, ReaderTypeOK, EngineAnswered
<1>2. CommandOf(serial, blocks) # <<>>
  BY <1>1, CommandType
<1>3. ran # <<>> /\ Last(ran) = CommandOf(serial, blocks)
  BY EmptySeq DEF EngineAnswered, Last
<1>4. <<tx_buffer.data>> # <<>>
  OBVIOUS
<1> QED
  BY <1>2, <1>3, <1>4 DEF pendingBar, responseBar

-----------------------------------------------------------------------------
\* The last block of the command: the engine runs it, and the card has answered.
LEMMA SendingCardRuns ==
  ASSUME LinkWithinLimits, Common, SendingPhase, CardReceives,
         Head(to_card) = BlockK(Len(command) + 1), Len(command) + 1 <= sent, Len(command) + 1 = blocks
  PROVE  Common' /\ AnsweredPhase' /\ [Service!Next]_(Service!vars)
<1> DEFINE f == BlockK(Len(command) + 1)
<1>0. /\ GatheredOK(Len(command)) /\ ToCardOK(Len(command)) /\ ToReaderOK(Len(command))
      /\ mode = "sending"
  BY DEF SendingPhase
<1>a. PICK g \in Nat : g = Len(command)
  BY <1>0, SendingFacts
<1>1. /\ GatheredOK(g) /\ ToCardOK(g) /\ ToReaderOK(g)
      /\ sent = blocks /\ sent = g + 1 /\ sent \in Nat \ {0} /\ blocks \in Nat \ {0}
      /\ serial \in Nat /\ serial >= 1 /\ blocks \in BlockCounts /\ reader_block = BlockNo(sent)
      /\ BlockNo(0) = 1 - BlockNo(1) /\ reader_block \in Bit
  <2>1. /\ sent \in Nat \ {0} /\ blocks \in Nat \ {0} /\ serial \in Nat /\ reader_block = BlockNo(sent)
        /\ sent <= blocks /\ blocks \in BlockCounts /\ BlockNo(1) = 1 - BlockNo(0) /\ BlockNo(0) \in Bit
    BY <1>0, SendingFacts
  <2>2. sent = blocks /\ sent = g + 1
    BY <2>1, <1>a
  <2>3. serial >= 1 /\ BlockNo(0) = 1 - BlockNo(1) /\ reader_block \in Bit
    BY <1>0, <2>1, Bits DEF GatheredOK, Common, ReaderTypeOK
  <2> QED
    BY <1>0, <1>a, <2>1, <2>2, <2>3
<1>2. /\ to_card # <<>> /\ to_card' = Tail(to_card) /\ to_reader \in Seq(Frame) /\ to_card \in Seq(Frame)
      /\ UNCHANGED reader /\ results' = results
  BY NextFrame DEF Common, ReaderTypeOK
<1>3. /\ f \in Frame /\ f.kind = "I" /\ f.cid = reader_cid /\ f.bn = expected_pcd_block
      /\ ~f.flag /\ f.data # <<>> /\ Len(f.data) + Len(command) <= CommandCap
      /\ command \o f.data = CommandOf(serial, blocks) /\ f.bn = reader_block
  <2>1. ~(Len(command) + 1 < blocks)
    BY <1>1
  <2> QED
    BY <1>0, <1>1, <1>a, <2>1, NextBlock
<1>4. response_offset = 0 /\ received = <<>> /\ expected_pcd_block = reader_block
      /\ \A k \in 1..Len(ran) : ran[k][1][1] < serial
  BY <1>1, <1>3 DEF GatheredOK
<1>5. /\ command' = <<>> /\ expected_pcd_block' = 1 - reader_block
      /\ picc_block' = reader_block /\ last_response_valid' = TRUE /\ cid' = reader_cid
      /\ tx_buffer' \in TxBuffer /\ tx_buffer'.cid = reader_cid
      /\ \E n \in ReplyLengths : tx_buffer'.data = Reply(CommandOf(serial, blocks), n)
      /\ last_frame' \in Frame /\ last_frame'.kind = "I" /\ last_frame'.bn = reader_block
      /\ last_frame'.cid = reader_cid /\ last_frame'.flag = (response_offset' # 0)
      /\ response_offset' \in Nat
      /\ response_offset' # 0 => response_offset' < Len(tx_buffer'.data)
      /\ last_frame'.data = SubSeq(tx_buffer'.data, 1, KeptEnd(tx_buffer', response_offset'))
      /\ executed' \in Seq(Seq(Octet)) /\ ran' = Append(ran, CommandOf(serial, blocks))
      /\ to_reader' = Append(to_reader, last_frame')
  <2>1. Head(to_card) = f
    OBVIOUS
  <2> HIDE DEF f
  <2> QED
    BY <1>3, <1>4, <2>1, CardRuns
<1> HIDE DEF f
<1>6. /\ CommandOf(serial, blocks) \in Seq(Octet) /\ CommandOf(serial, blocks)[1][1] = serial
  BY <1>1, CommandType
<1>7. /\ ran \in Seq(Seq(Octet)) /\ ran' \in Seq(Seq(Octet)) /\ Len(ran) \in Nat /\ Len(ran') = Len(ran) + 1
      /\ \A k \in 1..Len(ran) : ran'[k] = ran[k]
      /\ ran'[Len(ran')] = CommandOf(serial, blocks)
  <2>1. ran \in Seq(Seq(Octet))
    BY DEF Common, ReaderTypeOK
  <2> QED
    BY <1>5, <1>6, <2>1, AppendProperties, LenProperties
<1>8. ReaderTypeOK'
  <2>1. Tail(to_card) \in Seq(Frame) /\ Append(to_reader, last_frame') \in Seq(Frame)
    BY <1>2, <1>5, Head1, AppendProperties
  <2>2. to_card' \in Seq(Frame) /\ to_reader' \in Seq(Frame)
    BY <1>2, <1>5, <2>1
  <2> QED
    BY <1>2, <1>7, <2>2 DEF Common, ReaderTypeOK, reader
<1>9. CardTypeOK' /\ SessionOK'
  <2>1. <<>> \in Seq(Octet) /\ 1 - reader_block \in Bit
    BY <1>1, EmptySeq, Bits
  <2>2. CardTypeOK'
    BY <1>1, <1>5, <2>1 DEF CardTypeOK
  <2>3. SessionOK'
    BY <1>2, <1>5 DEF SessionOK, reader
  <2> QED
    BY <2>2, <2>3
<1>10. RanOK'
  <2>1. \A k \in 1..Len(ran') : k \in 1..Len(ran) \/ k = Len(ran')
    BY <1>7
  <2>2. \A k \in 1..Len(ran') : Issued(ran'[k])
    <3>1. Issued(CommandOf(serial, blocks))
      BY <1>1 DEF Issued
    <3>2. \A k \in 1..Len(ran) : Issued(ran[k])
      BY DEF Common, RanOK
    <3> QED
      BY <1>7, <2>1, <3>1, <3>2
  <2>3. ASSUME NEW i \in 1..Len(ran'), NEW j \in 1..Len(ran'), i < j
        PROVE  ran'[i][1][1] < ran'[j][1][1]
    <3>1. i \in 1..Len(ran)
      BY <1>7, <2>3
    <3>2. CASE j \in 1..Len(ran)
      BY <1>7, <2>3, <3>1, <3>2 DEF Common, RanOK
    <3>3. CASE j = Len(ran')
      BY <1>4, <1>6, <1>7, <3>1, <3>3
    <3> QED
      BY <2>1, <3>2, <3>3
  <2>4. \A c : Issued(c)' <=> Issued(c)
    BY <1>2 DEF Issued, reader
  <2> QED
    BY <2>2, <2>3, <2>4 DEF RanOK
<1>11. Outstanding' /\ EngineAnswered'
  <2>1. mode' = "sending" /\ serial' = serial /\ blocks' = blocks
    BY <1>0, <1>2 DEF reader
  <2>2. \E n \in ReplyLengths : tx_buffer'.data = Reply(CommandOf(serial, 1), n)
    BY <1>1, <1>5, ReplyType
  <2>3. Len(ran') # 0
    BY <1>7
  <2> QED
    BY <1>1, <1>7, <2>1, <2>2, <2>3 DEF Outstanding, EngineAnswered
<1>12. Each(Tail(to_card), OldFrames(reader_block, serial, reader_cid))
  <2> DEFINE s == Tail(to_card)
  <2>1. BlockK(blocks) = Head(to_card) /\ (blocks % 2 \in {0, 1})
    BY <1>1, <1>a
  <2>2. Each(s, BlocksFrom(g) \cup {FirstNak} \cup Stale)
    BY <1>1, <1>2, EachTail DEF ToCardOK
  <2>3. g # 0 => Each(s, Frame \ {BlockK(g)})
    <3> SUFFICES ASSUME g # 0 PROVE Each(s, Frame \ {BlockK(g)})
      OBVIOUS
    <3>1. g \in 1..sent /\ blocks \in 1..sent /\ g < blocks
      BY <1>1
    <3>2. Follows(to_card, {BlockK(blocks)}, Frame \ {BlockK(g)})
      BY <1>1, <3>1 DEF ToCardOK
    <3> QED
      BY <1>2, <2>1, <3>2, FollowsTail
  <2>4. blocks % 2 = 0 => Each(s, Frame \ {FirstNak})
    <3> SUFFICES ASSUME blocks % 2 = 0 PROVE Each(s, Frame \ {FirstNak})
      OBVIOUS
    <3>1. blocks # 1
      OBVIOUS
    <3>2. blocks \in 2..sent
      BY <1>1, <3>1
    <3>3. Follows(to_card, {BlockK(blocks)}, Frame \ {FirstNak})
      BY <1>1, <3>2 DEF ToCardOK
    <3> QED
      BY <1>2, <2>1, <3>3, FollowsTail
  <2>5. blocks % 2 = 1 => Each(s, Frame \ Stale)
    <3>1. CASE g = 0
      <4>1. Follows(to_card, {BlockK(1)}, Frame \ Stale) /\ blocks = 1
        BY <1>1, <3>1 DEF ToCardOK
      <4> QED
        BY <1>2, <2>1, <4>1, FollowsTail
    <3>2. CASE g # 0
      BY <1>1, <1>2, <3>2, EachTail DEF ToCardOK
    <3> QED
      BY <3>1, <3>2
  <2>6. blocks % 2 = 1 => BlockNo(1) = reader_block
    <3>1. 1 % 2 = 1 /\ 1 \in Nat
      OBVIOUS
    <3>2. (BlockNo(1) = BlockNo(blocks)) <=> (1 % 2 = blocks % 2)
      BY <1>0, <1>1, SendingFacts
    <3> QED
      BY <1>1, <3>1, <3>2
  <2>7. blocks % 2 = 0 => BlockNo(0) = reader_block
    <3>1. 0 % 2 = 0 /\ 0 \in Nat
      OBVIOUS
    <3>2. (BlockNo(0) = BlockNo(blocks)) <=> (0 % 2 = blocks % 2)
      BY <1>0, <1>1, SendingFacts
    <3> QED
      BY <1>1, <3>1, <3>2
  <2>8. BlockK(blocks) \in OldFrames(reader_block, serial, reader_cid)
    <3>1. /\ BlockK(blocks) \in Frame /\ BlockK(blocks).kind = "I" /\ BlockK(blocks).bn = reader_block
          /\ BlockK(blocks).cid = reader_cid /\ BlockK(blocks).data # <<>>
          /\ BlockK(blocks).data[1][1] = serial
      BY <1>1, BlockKType DEF Common
    <3> QED
      BY <1>1, <3>1 DEF OldFrames
  <2>9. blocks % 2 = 1 => FirstNak \in OldFrames(reader_block, serial, reader_cid)
    BY <1>0, <2>6, SendingFrames DEF OldFrames
  <2>10. blocks % 2 = 0 => Stale \subseteq OldFrames(reader_block, serial, reader_cid)
    <3>1. serial - 1 \in Int /\ serial \in Int /\ serial - 1 <= serial
      BY <1>1
    <3> QED
      BY <2>7, <3>1, OlderFrames DEF Stale
  <2> HIDE DEF s
  <2>11. SUFFICES ASSUME NEW i \in 1..Len(s) PROVE s[i] \in OldFrames(reader_block, serial, reader_cid)
    BY DEF Each, s
  <2>12. CASE s[i] \in BlocksFrom(g)
    <3>1. PICK k \in 1..sent : k >= g /\ s[i] = BlockK(k)
      BY <2>12 DEF BlocksFrom
    <3>2. k # g
      BY <1>1, <2>3, <3>1 DEF Each
    <3>3. k = blocks
      BY <1>1, <3>1, <3>2
    <3> QED
      BY <2>8, <3>1, <3>3
  <2>13. CASE s[i] = FirstNak
    BY <2>1, <2>4, <2>9, <2>13 DEF Each
  <2>14. CASE s[i] \in Stale
    BY <2>1, <2>5, <2>10, <2>14 DEF Each
  <2> QED
    BY <2>2, <2>12, <2>13, <2>14 DEF Each
<1>13. /\ Each(to_reader', OldAnswers(1 - reader_block) \cup Acks(Bit) \cup {last_frame'})
       /\ Follows(to_reader', {last_frame'}, {last_frame'})
  <2>1. Each(to_reader, OldAnswers(1 - reader_block) \cup Acks(Bit))
    <3>1. CASE sent = 1
      BY <1>1, <3>1 DEF ToReaderOK
    <3>2. CASE sent >= 2
      <4>1. Each(to_reader, Acks(Bit))
        BY <1>1, <3>2 DEF ToReaderOK
      <4> QED
        BY <1>2, <4>1, Weaken
    <3> QED
      BY <1>1, <3>1, <3>2
  <2>2. OldAnswers(1 - reader_block) \cup Acks(Bit) \subseteq Frame \ {last_frame'}
    BY <1>1, <1>5, Bits DEF OldAnswers, Acks
  <2>3. Each(to_reader, Frame \ {last_frame'})
    BY <1>2, <2>1, <2>2, Weaken
  <2>4. Follows(to_reader, {last_frame'}, {last_frame'})
    BY <1>2, <2>3, NoneOf
  <2>5. Each(to_reader, OldAnswers(1 - reader_block) \cup Acks(Bit) \cup {last_frame'})
    BY <1>2, <2>1, Weaken
  <2> QED
    BY <1>2, <1>5, <2>3, <2>4, <2>5, EachAppend, FollowsAppend
<1>14. received' \o last_frame'.data = SubSeq(tx_buffer'.data, 1, KeptEnd(tx_buffer', response_offset'))
  <2>1. received' = <<>> /\ last_frame'.data \in Seq(Octet)
    BY <1>2, <1>4, <1>5 DEF reader, Frame
  <2>2. received' \o last_frame'.data = last_frame'.data
    BY <2>1, ConcatEmptySeq
  <2> QED
    BY <1>5, <2>2
<1>15. AnsweredPhase'
  <2>1. reader_block' = reader_block /\ sent' = blocks' /\ serial' = serial /\ reader_cid' = reader_cid
    BY <1>1, <1>2 DEF reader
  <2> QED
    BY <1>2, <1>5, <1>11, <1>12, <1>13, <1>14, <2>1 DEF AnsweredPhase
<1>16. Common'
  BY <1>8, <1>9, <1>10 DEF Common
<1>17. Service!Next
  <2>1. Outstanding
    BY <1>0 DEF Outstanding
  <2>2. pendingBar = CommandOf(serial, blocks) /\ pendingBar # <<>> /\ responseBar = <<>>
    BY <1>1, <1>4, <2>1, NotRunYet
  <2>3. (Common /\ Outstanding /\ EngineAnswered)'
          => (/\ pendingBar = CommandOf(serial, blocks) /\ pendingBar # <<>>
              /\ responseBar = <<tx_buffer.data>> /\ responseBar # <<>>)'
    BY RunAlready, PTL
  <2>4. pendingBar' = pendingBar /\ responseBar' = <<tx_buffer'.data>>
    BY <1>2, <1>11, <1>16, <2>2, <2>3 DEF reader
  <2>5. responseBar' \in {<<Reply(CommandOf(s, 1), n)>> : s \in 1..MaxSerial, n \in ReplyLengths}
    <3>1. serial \in 1..MaxSerial
      BY <1>1 DEF Common, ReaderTypeOK
    <3>2. PICK n \in ReplyLengths : tx_buffer'.data = Reply(CommandOf(serial, blocks), n)
      BY <1>5
    <3>3. tx_buffer'.data = Reply(CommandOf(serial, 1), n)
      BY <1>1, <3>2, ReplyType
    <3> QED
      BY <2>4, <3>1, <3>3
  <2> QED
    BY <1>2, <1>5, <2>2, <2>4, <2>5 DEF Service!Next, Service!Execute
<1> QED
  BY <1>15, <1>16, <1>17

\* Whatever frame comes next, the card keeps the command in order.
LEMMA SendingCard ==
  ASSUME LinkWithinLimits, Common, SendingPhase, CardReceives
  PROVE  Common' /\ (SendingPhase' \/ AnsweredPhase') /\ [Service!Next]_(Service!vars)
<1>0. /\ GatheredOK(Len(command)) /\ ToCardOK(Len(command)) /\ to_card # <<>>
  BY NextFrame DEF SendingPhase
<1>1. /\ \A k \in Nat : BlockNo(k) \in Bit
      /\ BlockNo(0) # BlockNo(1) /\ BlockNo(0) \in Bit /\ BlockNo(1) \in Bit
      /\ BlockNo(Len(command)) # BlockNo(Len(command) + 1)
      /\ Len(command) \in Nat /\ blocks \in Nat /\ sent \in Nat /\ sent <= blocks
      /\ picc_block = BlockNo(0) /\ expected_pcd_block = BlockNo(Len(command) + 1)
  BY <1>0, SendingFacts DEF GatheredOK
<1>2. CASE Head(to_card) \in Stale /\ Len(command) = 0 /\ last_response_valid
  BY <1>2, SendingCardStale
<1>3. CASE Head(to_card) = FirstNak
  <2>1. /\ UNCHANGED <<session, engine>> /\ ran' = ran
        /\ \/ cid = reader_cid /\ to_reader' = Append(to_reader, Ack(BlockNo(0), reader_cid))
           \/ cid # reader_cid /\ to_reader' = to_reader
    BY <1>1, <1>3, CardAcknowledgesNak DEF FirstNak
  <2>2. cid # reader_cid => Len(command) = 0
    BY EmptySeq DEF Common, SessionOK
  <2> QED
    BY <1>1, <1>3, <2>1, <2>2, SendingCardAcks
<1>4. CASE Head(to_card) = BlockK(Len(command)) /\ Len(command) # 0
  <2> DEFINE f == BlockK(Len(command))
  <2>1. f \in Frame /\ f.kind = "I" /\ f.cid = reader_cid /\ f.bn = BlockNo(Len(command))
    BY <1>1, BlockKType DEF Common
  <2>2. command # <<>>
    BY <1>4, EmptySeq
  <2> HIDE DEF f
  <2>3. Head(to_card) = f
    BY <1>4 DEF f
  <2>4. /\ UNCHANGED <<session, engine>> /\ ran' = ran
        /\ to_reader' = Append(to_reader, Ack(BlockNo(Len(command)), reader_cid))
    BY <1>1, <2>1, <2>2, <2>3, CardReacknowledges
  <2> QED
    BY <1>1, <1>4, <2>4, SendingCardAcks
<1>5. CASE Head(to_card) = BlockK(Len(command) + 1) /\ Len(command) + 1 <= sent
  <2>1. CASE Len(command) + 1 < blocks
    BY <1>5, <2>1, SendingCardGathers
  <2>2. CASE Len(command) + 1 = blocks
    BY <1>5, <2>2, SendingCardRuns
  <2> QED
    BY <1>1, <1>5, <2>1, <2>2
<1> QED
  BY <1>0, <1>2, <1>3, <1>4, <1>5, SendingHead

\* Whatever the card takes, the invariant holds on, and the service takes a step or none:
\* Execute when the card runs the command.
LEMMA CardKeepsLinkInv ==
  ASSUME LinkWithinLimits, LinkInv, CardReceives
  PROVE  LinkInv' /\ [Service!Next]_(Service!vars)
BY IdleCard, DeselectCard, SendingCard, AnsweredCard, FetchingCard DEF LinkInv
=============================================================================
