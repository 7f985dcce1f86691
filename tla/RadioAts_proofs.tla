--------------------------- MODULE RadioAts_proofs ---------------------------
(***************************************************************************)
(* For every sequence of octets: the test at load and the unpacking at       *)
(* emulation agree on which octets are interface bytes.                      *)
(***************************************************************************)
EXTENDS RadioAts, SequenceTheorems, TLAPS

\* One optional interface byte more: when it is the next octet of s, the listener
\* goes on spelling s.
LEMMA Grow ==
  ASSUME NEW s \in Seq(Byte), NEW k \in 1..Len(s), NEW present \in BOOLEAN, NEW octet,
         present => k + 1 <= Len(s) /\ octet = s[k + 1]
  PROVE  /\ SubSeq(s, 1, k) \o When(present, octet) = SubSeq(s, 1, k + Flag(present))
         /\ k + Flag(present) \in 1..Len(s)
<1>0. Len(s) \in Nat
  BY LenProperties
<1>1. CASE present
  <2>1. k + 1 \in 1..Len(s) /\ (k + 1) - 1 = k /\ 1 \in 1..Len(s) /\ k + 1 \in 1..Len(s)
    BY <1>0, <1>1
  <2>2. SubSeq(s, 1, k + 1) = SubSeq(s, 1, (k + 1) - 1) \o <<s[k + 1]>>
    BY <2>1, SubSeqRecursiveSecond
  <2> QED
    BY <1>1, <2>1, <2>2 DEF When, Flag
<1>2. CASE ~present
  <2>1. SubSeq(s, 1, k) \in Seq(Byte)
    <3>1. \A i \in 1..k : s[i] \in Byte
      BY <1>0, ElementOfSeq
    <3> QED
      BY <3>1, <1>0, SubSeqProperties
  <2>2. SubSeq(s, 1, k) \o <<>> = SubSeq(s, 1, k)
    BY <2>1, ConcatEmptySeq
  <2> QED
    BY <1>0, <1>2, <2>2 DEF When, Flag
<1> QED
  BY <1>1, <1>2

\* Which interface bytes there are, and how many octets come before each, and
\* before the historical bytes.
HasTA(ats) == BitSet(ats[2], TA1)
HasTB(ats) == BitSet(ats[2], TB1)
HasTC(ats) == BitSet(ats[2], TC1)
BeforeTB(ats) == 2 + Flag(HasTA(ats))
BeforeTC(ats) == BeforeTB(ats) + Flag(HasTB(ats))
BeforeTail(ats) == BeforeTC(ats) + Flag(HasTC(ats))

\* What Unpack should leave in the listener's fields.
FieldTA(ats) == IF HasTA(ats) THEN ats[3] ELSE 0
FieldTB(ats) == IF HasTB(ats) THEN ats[BeforeTB(ats) + 1] ELSE 0
FieldTC(ats) == IF HasTC(ats) THEN ats[BeforeTC(ats) + 1] ELSE 0
Historical(ats) == SubSeq(ats, BeforeTail(ats) + 1, Len(ats))
Fields(ats) ==
  [tl |-> ats[1], t0 |-> ats[2], ta_1 |-> FieldTA(ats), tb_1 |-> FieldTB(ats),
   tc_1 |-> FieldTC(ats), t1_tk |-> Historical(ats)]

LEMMA Positions ==
  ASSUME NEW ats
  PROVE  /\ HasTA(ats) \in BOOLEAN /\ HasTB(ats) \in BOOLEAN /\ HasTC(ats) \in BOOLEAN
         /\ BeforeTB(ats) = (IF HasTA(ats) THEN 3 ELSE 2)
         /\ BeforeTC(ats) = BeforeTB(ats) + (IF HasTB(ats) THEN 1 ELSE 0)
         /\ BeforeTail(ats) = BeforeTC(ats) + (IF HasTC(ats) THEN 1 ELSE 0)
         /\ PosTA(ats[2]) = 3
         /\ PosTB(ats[2]) = BeforeTB(ats) + 1
         /\ PosTC(ats[2]) = BeforeTC(ats) + 1
<1>1. HasTA(ats) \in BOOLEAN /\ HasTB(ats) \in BOOLEAN /\ HasTC(ats) \in BOOLEAN
  BY DEF HasTA, HasTB, HasTC, BitSet
<1>2. /\ BeforeTB(ats) = (IF HasTA(ats) THEN 3 ELSE 2)
      /\ BeforeTC(ats) = BeforeTB(ats) + (IF HasTB(ats) THEN 1 ELSE 0)
      /\ BeforeTail(ats) = BeforeTC(ats) + (IF HasTC(ats) THEN 1 ELSE 0)
  BY DEF BeforeTB, BeforeTC, BeforeTail, Flag
<1>3. PosTA(ats[2]) = 3 /\ PosTB(ats[2]) = 3 + Flag(HasTA(ats))
      /\ PosTC(ats[2]) = 3 + Flag(HasTA(ats)) + Flag(HasTB(ats))
  BY DEF PosTA, PosTB, PosTC, HasTA, HasTB
<1>4. Flag(HasTA(ats)) \in 0..1 /\ Flag(HasTB(ats)) \in 0..1
  BY DEF Flag
<1>5. PosTB(ats[2]) = BeforeTB(ats) + 1 /\ PosTC(ats[2]) = BeforeTC(ats) + 1
  BY <1>3, <1>4 DEF BeforeTB, BeforeTC
<1> QED
  BY <1>1, <1>2, <1>3, <1>5

\* The cursor of dfc_set_listener_ats stands where the checks of
\* dfc_credential_ats_is_radio_supported look, and every octet it reads is there.
LEMMA CursorAgrees ==
  ASSUME NEW ats \in Seq(Byte), RadioSupported(ats), ats # <<>>
  PROVE  /\ Len(ats) \in Nat /\ Len(ats) >= 2 /\ ats[1] = Len(ats)
         /\ HasTA(ats) => 3 <= Len(ats)
         /\ HasTB(ats) => BeforeTB(ats) + 1 <= Len(ats)
         /\ HasTC(ats) => BeforeTC(ats) + 1 <= Len(ats)
         /\ Unpack(ats) = Fields(ats)
<1>1. Len(ats) \in Nat
  BY LenProperties
<1>2. Len(ats) >= 2 /\ ats[1] = Len(ats)
  BY DEF RadioSupported
<1>3. /\ HasTA(ats) => PosTA(ats[2]) <= Len(ats)
      /\ HasTB(ats) /\ PosTB(ats[2]) <= Len(ats)
      /\ HasTC(ats) => PosTC(ats[2]) <= Len(ats)
  BY DEF RadioSupported, HasTA, HasTB, HasTC
<1>4. /\ HasTA(ats) => 3 <= Len(ats)
      /\ HasTB(ats) /\ BeforeTB(ats) + 1 <= Len(ats)
      /\ HasTC(ats) => BeforeTC(ats) + 1 <= Len(ats)
  BY <1>3, Positions
<1>5. Declared(ats) = Len(ats)
  BY <1>1, <1>2 DEF Declared
<1>6. Octet(ats, 1) = ats[2] /\ Step(ats, 1, TRUE) = 2
  BY <1>1, <1>2, <1>5 DEF Octet, Step
<1>7. /\ Step(ats, 2, HasTA(ats)) = BeforeTB(ats)
      /\ Step(ats, BeforeTB(ats), HasTB(ats)) = BeforeTC(ats)
      /\ Step(ats, BeforeTC(ats), HasTC(ats)) = BeforeTail(ats)
      /\ HasTA(ats) => Octet(ats, 2) = ats[3]
      /\ HasTB(ats) => Octet(ats, BeforeTB(ats)) = ats[BeforeTB(ats) + 1]
      /\ HasTC(ats) => Octet(ats, BeforeTC(ats)) = ats[BeforeTC(ats) + 1]
  BY <1>1, <1>2, <1>4, <1>5, Positions DEF Octet, Step
<1>8. Unpack(ats) =
        LET t0  == Octet(ats, 1)
            iA  == Step(ats, 1, TRUE)
            iB  == Step(ats, iA, BitSet(t0, TA1))
            iC  == Step(ats, iB, BitSet(t0, TB1))
            end == Step(ats, iC, BitSet(t0, TC1))
        IN  [tl |-> ats[1], t0 |-> t0,
             ta_1 |-> IF BitSet(t0, TA1) THEN Octet(ats, iA) ELSE 0,
             tb_1 |-> IF BitSet(t0, TB1) THEN Octet(ats, iB) ELSE 0,
             tc_1 |-> IF BitSet(t0, TC1) THEN Octet(ats, iC) ELSE 0,
             t1_tk |-> SubSeq(ats, end + 1, Declared(ats))]
  BY DEF Unpack
<1>9. Unpack(ats) =
        [tl |-> ats[1], t0 |-> ats[2],
         ta_1 |-> IF HasTA(ats) THEN Octet(ats, 2) ELSE 0,
         tb_1 |-> IF HasTB(ats) THEN Octet(ats, BeforeTB(ats)) ELSE 0,
         tc_1 |-> IF HasTC(ats) THEN Octet(ats, BeforeTC(ats)) ELSE 0,
         t1_tk |-> SubSeq(ats, BeforeTail(ats) + 1, Len(ats))]
  BY <1>5, <1>6, <1>7, <1>8 DEF HasTA, HasTB, HasTC
<1>10. Unpack(ats) = Fields(ats)
  BY <1>7, <1>9 DEF Fields, FieldTA, FieldTB, FieldTC, Historical
<1> QED
  BY <1>1, <1>2, <1>4, <1>10

\* An ATS the load lets through goes over the air octet for octet
\* (dfc_credential_storage.c:141-161 against dfc_scene_emulate.c:15-42).
THEOREM SupportedAtsIsAnswered ==
  ASSUME NEW ats \in Seq(Byte), RadioSupported(ats)
  PROVE  Answer(Unpack(ats)) = ats
<1>1. CASE ats = <<>>
  BY <1>1 DEF Unpack, NoAts, Answer
<1>2. CASE ats # <<>>
  <2>1. /\ Len(ats) \in Nat /\ Len(ats) >= 2 /\ ats[1] = Len(ats)
        /\ HasTA(ats) => 3 <= Len(ats)
        /\ HasTB(ats) => BeforeTB(ats) + 1 <= Len(ats)
        /\ HasTC(ats) => BeforeTC(ats) + 1 <= Len(ats)
        /\ Unpack(ats) = Fields(ats)
    BY <1>2, CursorAgrees
  <2>2. /\ Unpack(ats).tl = ats[1] /\ Unpack(ats).t0 = ats[2] /\ Unpack(ats).ta_1 = FieldTA(ats)
        /\ Unpack(ats).tb_1 = FieldTB(ats) /\ Unpack(ats).tc_1 = FieldTC(ats)
        /\ Unpack(ats).t1_tk = Historical(ats)
    BY <2>1 DEF Fields
  <2>3. Answer(Unpack(ats)) = <<ats[1], ats[2]>> \o When(HasTA(ats), FieldTA(ats))
          \o When(HasTB(ats), FieldTB(ats)) \o When(HasTC(ats), FieldTC(ats)) \o Historical(ats)
    <3>1. Unpack(ats).tl # 0
      BY <2>1, <2>2
    <3> QED
      BY <2>2, <3>1 DEF Answer, HasTA, HasTB, HasTC
  <2>4. <<ats[1], ats[2]>> = SubSeq(ats, 1, 2)
    <3>1. ats[1] \in Byte /\ ats[2] \in Byte
      BY <2>1, ElementOfSeq
    <3>2. SubSeq(ats, 1, 2) = <<ats[1]>> \o SubSeq(ats, 2, 2)
      BY <2>1, SubSeqRecursiveFirst
    <3>3. SubSeq(ats, 2, 2) = <<ats[2]>> \o SubSeq(ats, 3, 2) /\ SubSeq(ats, 3, 2) = <<>>
      BY <2>1, SubSeqRecursiveFirst, SubSeqEmpty
    <3>4. <<ats[2]>> \in Seq(Byte)
      BY <3>1
    <3>5. SubSeq(ats, 2, 2) = <<ats[2]>>
      BY <3>3, <3>4, ConcatEmptySeq
    <3> QED
      BY <3>1, <3>2, <3>5
  <2>5. SubSeq(ats, 1, 2) \o When(HasTA(ats), FieldTA(ats)) = SubSeq(ats, 1, BeforeTB(ats))
        /\ BeforeTB(ats) \in 1..Len(ats)
    <3>1. PICK k \in 1..Len(ats) : k = 2
      BY <2>1
    <3>2. HasTA(ats) \in BOOLEAN /\ (HasTA(ats) => k + 1 <= Len(ats) /\ FieldTA(ats) = ats[k + 1])
      BY <2>1, <3>1, Positions DEF FieldTA
    <3>3. SubSeq(ats, 1, k) \o When(HasTA(ats), FieldTA(ats)) = SubSeq(ats, 1, k + Flag(HasTA(ats)))
          /\ k + Flag(HasTA(ats)) \in 1..Len(ats)
      BY <3>2, Grow, Zenon
    <3> QED
      BY <3>1, <3>3, Zenon DEF BeforeTB
  <2>6. SubSeq(ats, 1, BeforeTB(ats)) \o When(HasTB(ats), FieldTB(ats)) = SubSeq(ats, 1, BeforeTC(ats))
        /\ BeforeTC(ats) \in 1..Len(ats)
    <3>1. /\ BeforeTB(ats) \in 1..Len(ats) /\ HasTB(ats) \in BOOLEAN
          /\ HasTB(ats) => BeforeTB(ats) + 1 <= Len(ats)
                           /\ FieldTB(ats) = ats[BeforeTB(ats) + 1]
      BY <2>1, <2>5, Positions DEF FieldTB
    <3>2. SubSeq(ats, 1, BeforeTB(ats)) \o When(HasTB(ats), FieldTB(ats))
            = SubSeq(ats, 1, BeforeTB(ats) + Flag(HasTB(ats)))
          /\ BeforeTB(ats) + Flag(HasTB(ats)) \in 1..Len(ats)
      BY <3>1, Grow, Zenon
    <3> QED
      BY <3>2, Zenon DEF BeforeTC
  <2>7. SubSeq(ats, 1, BeforeTC(ats)) \o When(HasTC(ats), FieldTC(ats)) = SubSeq(ats, 1, BeforeTail(ats))
        /\ BeforeTail(ats) \in 1..Len(ats)
    <3>1. /\ BeforeTC(ats) \in 1..Len(ats) /\ HasTC(ats) \in BOOLEAN
          /\ HasTC(ats) => BeforeTC(ats) + 1 <= Len(ats)
                           /\ FieldTC(ats) = ats[BeforeTC(ats) + 1]
      BY <2>1, <2>6, Positions DEF FieldTC
    <3>2. SubSeq(ats, 1, BeforeTC(ats)) \o When(HasTC(ats), FieldTC(ats))
            = SubSeq(ats, 1, BeforeTC(ats) + Flag(HasTC(ats)))
          /\ BeforeTC(ats) + Flag(HasTC(ats)) \in 1..Len(ats)
      BY <3>1, Grow, Zenon
    <3> QED
      BY <3>2, Zenon DEF BeforeTail
  <2>8. SubSeq(ats, 1, BeforeTail(ats)) \o Historical(ats) = ats
    <3>0. \A n \in Nat : \A b \in 1..n : 1 \in 1..(n + 1) /\ b \in (1 - 1)..n /\ n \in b..n
      OBVIOUS
    <3>1. /\ 1 \in 1..(Len(ats) + 1)
          /\ BeforeTail(ats) \in (1 - 1)..Len(ats)
          /\ Len(ats) \in BeforeTail(ats)..Len(ats)
      BY <2>1, <2>7, <3>0, Zenon
    <3>2. SubSeq(ats, 1, BeforeTail(ats)) \o SubSeq(ats, BeforeTail(ats) + 1, Len(ats))
            = SubSeq(ats, 1, Len(ats))
      BY <3>1, ConcatAdjacentSubSeq
    <3> QED
      BY <3>2, SubSeqFull DEF Historical
  <2> QED
    BY <2>3, <2>4, <2>5, <2>6, <2>7, <2>8
<1> QED
  BY <1>1, <1>2

\* ... and advertises nothing this listener cannot deliver (README.md:47-48).
THEOREM SupportedAtsIsDeliverable ==
  ASSUME NEW ats \in Seq(Byte), RadioSupported(ats)
  PROVE  Deliverable(Unpack(ats))
<1>1. CASE ats = <<>>
  BY <1>1 DEF Unpack, NoAts, Deliverable
<1>2. CASE ats # <<>>
  <2>1. Unpack(ats) = Fields(ats)
    BY <1>2, CursorAgrees
  <2>2. /\ ats[2] % 16 = 5
        /\ HasTA(ats) => ats[PosTA(ats[2])] = 0
        /\ HasTB(ats) /\ ats[PosTB(ats[2])] \div 16 >= 8
        /\ HasTC(ats) => ~BitSet(ats[PosTC(ats[2])], 1)
    BY <1>2 DEF RadioSupported, HasTA, HasTB, HasTC
  <2>3. /\ HasTA(ats) => ats[3] = 0
        /\ HasTB(ats) /\ ats[BeforeTB(ats) + 1] \div 16 >= 8
        /\ HasTC(ats) => ~BitSet(ats[BeforeTC(ats) + 1], 1)
    BY <2>2, Positions
  <2>4. ~BitSet(0, 1)
    BY DEF BitSet
  <2> QED
    BY <2>1, <2>2, <2>3, <2>4 DEF Deliverable, Fields, FieldTA, FieldTB, FieldTC
<1> QED
  BY <1>1, <1>2
=============================================================================
