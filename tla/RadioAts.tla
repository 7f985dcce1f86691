------------------------------ MODULE RadioAts ------------------------------
(***************************************************************************)
(* The answer to select (ATS) of a credential: which ones a load lets        *)
(* through (dfc_credential_storage.c:141-161), and how an emulation hands    *)
(* one to the firmware's listener (dfc_scene_emulate.c:15-42).  The two walk *)
(* the same octets with different end tests.  An ATS is a sequence of        *)
(* octets; its first is its own length TL, the second, T0, says which of     *)
(* TA(1), TB(1), TC(1) follow; what is left are the historical bytes.        *)
(***************************************************************************)
EXTENDS Integers, Sequences

Byte == 0..255
BitSet(octet, mask) == (octet \div mask) % 2 = 1
TA1 == 16
TB1 == 32
TC1 == 64
Flag(b) == IF b THEN 1 ELSE 0

\* Where the interface bytes T0 announces are (as if TL and T0 were there), and
\* how many octets come before the historical bytes.
PosTA(t0) == 3
PosTB(t0) == 3 + Flag(BitSet(t0, TA1))
PosTC(t0) == PosTB(t0) + Flag(BitSet(t0, TB1))
Prologue(t0) == PosTC(t0) - 1 + Flag(BitSet(t0, TC1))

\* dfc_credential_picc_ats_is_consistent: the length octet describes the ATS.
Consistent(ats) == ats = <<>> \/ ats[1] = Len(ats)

RadioSupportedAnyTL(ats) ==                                      \* mutant
  ats = <<>> \/ (Len(ats) >= 2 /\ ats[2] % 16 = 5 /\ BitSet(ats[2], TB1)
                  /\ Len(ats) >= Prologue(ats[2]))

\* dfc_credential_ats_is_radio_supported: 64-byte frames, 106 kbit/s only, a
\* frame waiting time this app can keep, no NAD, and no interface byte missing.
RadioSupported(ats) ==
  \/ ats = <<>>
  \/ /\ Len(ats) >= 2 /\ ats[1] = Len(ats)
     /\ ats[2] % 16 = 5
     /\ BitSet(ats[2], TA1) => PosTA(ats[2]) <= Len(ats) /\ ats[PosTA(ats[2])] = 0
     /\ BitSet(ats[2], TB1)
     /\ PosTB(ats[2]) <= Len(ats) /\ ats[PosTB(ats[2])] \div 16 >= 8
     /\ BitSet(ats[2], TC1) => PosTC(ats[2]) <= Len(ats) /\ ~BitSet(ats[PosTC(ats[2])], 1)

\* dfc_set_listener_ats: never past the declared length, nor past the buffer;
\* what is not there is zero, and a cursor i counts the octets used.
Declared(ats) == IF ats[1] > Len(ats) THEN Len(ats) ELSE ats[1]
Octet(ats, i) == IF i < Declared(ats) THEN ats[i + 1] ELSE 0
Step(ats, i, present) == IF present /\ i < Declared(ats) THEN i + 1 ELSE i

NoAts == [tl |-> 0, t0 |-> 0, ta_1 |-> 0, tb_1 |-> 0, tc_1 |-> 0, t1_tk |-> <<>>]
Unpack(ats) ==
  IF ats = <<>> THEN NoAts
  ELSE LET t0  == Octet(ats, 1)
           iA  == Step(ats, 1, TRUE)
           iB  == Step(ats, iA, BitSet(t0, TA1))
           iC  == Step(ats, iB, BitSet(t0, TB1))
           end == Step(ats, iC, BitSet(t0, TC1))
       IN  [tl |-> ats[1], t0 |-> t0,
            ta_1 |-> IF BitSet(t0, TA1) THEN Octet(ats, iA) ELSE 0,
            tb_1 |-> IF BitSet(t0, TB1) THEN Octet(ats, iB) ELSE 0,
            tc_1 |-> IF BitSet(t0, TC1) THEN Octet(ats, iC) ELSE 0,
            t1_tk |-> SubSeq(ats, end + 1, Declared(ats))]

\* What the listener makes of its fields when it answers RATS.
When(present, octet) == IF present THEN <<octet>> ELSE <<>>
Answer(data) ==
  IF data.tl = 0 THEN <<>>
  ELSE <<data.tl, data.t0>> \o When(BitSet(data.t0, TA1), data.ta_1)
         \o When(BitSet(data.t0, TB1), data.tb_1) \o When(BitSet(data.t0, TC1), data.tc_1)
         \o data.t1_tk

\* What this listener can keep: frames of 64 octets at 106 kbit/s, a frame
\* waiting time integer of at least 8, no NAD.
Deliverable(data) ==
  data.tl # 0 => /\ data.t0 % 16 = 5
                 /\ data.ta_1 = 0
                 /\ data.tb_1 \div 16 >= 8
                 /\ ~BitSet(data.tc_1, 1)
=============================================================================
