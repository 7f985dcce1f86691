------------------------- MODULE MCCredentialStorage -------------------------
(***************************************************************************)
(* CredentialStorage with sizes of a few octets on a four-bit size_t.        *)
(***************************************************************************)
EXTENDS CredentialStorage

MCSizes == {0, 1, 4, 9}
MCBlocks == {1, 2}
\* Every combination of the flags T0 has, with both frame sizes, a length octet
\* that is right or off by one, and octets around each limit.
Tails(n, S) == [1..(n - 2) -> S]
MCAtses ==
  {<<>>, <<1>>}
  \cup UNION {{<<n + d, 16 * flags + fsci>> \o tail :
                 d \in {-1, 0, 1}, flags \in 0..7, fsci \in {4, 5}, tail \in Tails(n, {0, 1, 128})} :
              n \in 2..4}
  \cup UNION {{<<n, 16 * flags + 5>> \o tail : flags \in 0..7, tail \in Tails(n, {0, 128})} :
              n \in 5..6}
=============================================================================
